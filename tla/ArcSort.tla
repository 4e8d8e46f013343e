------------------------------ MODULE ArcSort -------------------------------
(***************************************************************************)
(* quickSort of walking_bus2.c on the array of arcs (from 1 here).  It     *)
(* puts greater arcs first, so that the least one is the one that the      *)
(* first pass pops.  WalkingBus takes any of the least arcs; this module   *)
(* says that the array's last one is one of them.                          *)
(*                                                                         *)
(* The calls of the recursion that are still to be made are a set of       *)
(* ranges: they do not overlap, and the leftmost one is always the next.   *)
(***************************************************************************)
EXTENDS WalkingBus

CONSTANT Arrays   \* arrays to sort

Arcs == [a : Nodes, b : Nodes, branch : {0, 1}, dist : Nat, danger : Nat]

ASSUME SortAssumption == Arrays \subseteq Seq(Arcs)

VARIABLES
  given,     \* history: the array as main had filled it
  array,     \* queuedArcs
  calls,     \* ranges l .. r that quickSort is still to be called with
  phase,     \* "call", or in getpivot "up" or "down"
  part,      \* <<l, r>>
  up, down   \* i and j

sortVars == <<given, array, calls, phase, part, up, down>>

\* (a mutant of Calls: the right one begins too late)
CallsShort(l, m, r) == {c \in {<<l, m - 1>>, <<m + 2, r>>} : c[1] < c[2]}

\* The calls that have something to do, when m has got its arc.
Calls(l, m, r) == {c \in {<<l, m - 1>>, <<m + 1, r>>} : c[1] < c[2]}

Swap(q, k, l) == [q EXCEPT ![k] = q[l], ![l] = q[k]]

SortInit ==
  /\ given \in Arrays /\ array = given
  /\ calls = {c \in {<<1, Len(given)>>} : c[1] < c[2]}
  /\ phase = "call" /\ part = <<1, 1>> /\ up = 1 /\ down = 1

Call ==
  /\ phase = "call"
  /\ \E c \in calls :
       /\ \A other \in calls : c[1] <= other[1]
       /\ calls' = calls \ {c}
       /\ part' = c /\ up' = c[1] /\ down' = c[2]
  /\ phase' = "up"
  /\ UNCHANGED <<given, array>>

Pivot == array[part[1]]

\* do i++ while i <= r and the pivot is less than queue[i]
ScanUp ==
  /\ phase = "up"
  /\ up' = up + 1
  /\ phase' = IF up' <= part[2] /\ LessThan(Pivot, array[up']) THEN "up" ELSE "down"
  /\ UNCHANGED <<given, array, calls, part, down>>

\* queue[j] is less than the pivot
GoesDown == down >= 1 /\ LessThan(array[down], Pivot)

ScanDown ==
  /\ phase = "down"
  /\ GoesDown
  /\ down' = down - 1
  /\ UNCHANGED <<given, array, calls, phase, part, up>>

Exchange ==
  /\ phase = "down"
  /\ ~ GoesDown
  /\ up < down
  /\ array' = Swap(array, up, down)
  /\ phase' = "up"
  /\ UNCHANGED <<given, calls, part, up, down>>

\* The pivot gets its place, and what is on both sides of it is sorted.
Split ==
  /\ phase = "down"
  /\ ~ GoesDown
  /\ up >= down
  /\ array' = Swap(array, part[1], down)
  /\ calls' = calls \cup Calls(part[1], down, part[2])
  /\ phase' = "call"
  /\ UNCHANGED <<given, part, up, down>>

SortNext == Call \/ ScanUp \/ ScanDown \/ Exchange \/ Split

SortSpec == SortInit /\ [][SortNext]_sortVars
-----------------------------------------------------------------------------
Sorted == phase = "call" /\ calls = {}

\* No arc of q is lost or doubled in p, only their places have changed.
Rearranged(p, q) ==
  /\ DOMAIN p = DOMAIN q
  /\ \E at \in [DOMAIN q -> DOMAIN q] :
       /\ \A k, l \in DOMAIN q : at[k] = at[l] => k = l
       /\ \A k \in DOMAIN q : p[k] = q[at[k]]

\* When all calls have returned the array holds the arcs it was given, no arc
\* is less than one that comes after it, and so the last is one of the least,
\* whatever arcs are equal to the pivots.
SortedLeastLast ==
  Sorted =>
    /\ Rearranged(array, given)
    /\ \A k, l \in DOMAIN array : k < l => ~ LessThan(array[k], array[l])
    /\ array # <<>> => array[Len(array)] \in Least({array[k] : k \in DOMAIN array})

-----------------------------------------------------------------------------
\* Why it holds.

SortTypeOK ==
  /\ array \in Seq(Arcs)
  /\ phase \in {"call", "up", "down"}
  /\ calls \subseteq (1 .. Len(array)) \X (1 .. Len(array))
  /\ part \in Nat \X Nat /\ up \in Nat /\ down \in Nat

InCall(c, k) == c[1] <= k /\ k <= c[2]
Parting == phase # "call"

\* The ranges still to be sorted do not meet.
CallsApart ==
  /\ \A c \in calls : c[1] < c[2]
  /\ \A b, c \in calls : b = c \/ b[2] < c[1] \/ c[2] < b[1]
  /\ Parting =>
       /\ 1 <= part[1] /\ part[1] < part[2] /\ part[2] <= Len(array)
       /\ \A c \in calls : part[2] < c[1] \/ c[2] < part[1]

\* Two arcs are in order unless one call is still to sort them both.
OthersInOrder ==
  \A k, l \in DOMAIN array :
    k < l => \/ ~ LessThan(array[k], array[l])
             \/ \E c \in calls : InCall(c, k) /\ InCall(c, l)
             \/ Parting /\ InCall(part, k) /\ InCall(part, l)

\* What i has passed is not less than the pivot, what j has passed not
\* greater; the pivot itself stops j.
ScansSplit ==
  Parting =>
    /\ part[1] <= up /\ up <= part[2] + 1
    /\ phase = "up" => up <= part[2]
    /\ phase = "down" => part[1] < up
    /\ part[1] <= down /\ down <= part[2]
    /\ \A k \in DOMAIN array :
         /\ part[1] <= k /\ (k < up \/ (k = up /\ phase = "up")) => ~ LessThan(array[k], Pivot)
         /\ down < k /\ k <= part[2] => ~ LessThan(Pivot, array[k])

\* The inductive invariant.
SortInv ==
  SortTypeOK /\ Rearranged(array, given) /\ CallsApart /\ OthersInOrder /\ ScansSplit
=============================================================================
