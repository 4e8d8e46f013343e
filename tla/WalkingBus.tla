----------------------------- MODULE WalkingBus -----------------------------
(***************************************************************************)
(* The submitted solver of the walking-bus challenge                       *)
(* (walking_bus_solution/walking_bus2.c).  Stops are to be joined into     *)
(* lines that end at the school; no stop's way along its line may be       *)
(* longer than alpha times the straight way; there should be few lines     *)
(* and, after that, little danger.                                         *)
(*                                                                         *)
(* The first pass grows a tree from the school, taking the least arc of a  *)
(* queue (quickSort, module ArcSort, puts it at the end of the array).     *)
(* The second pass hangs leaves under other leaves where that is less      *)
(* dangerous.                                                              *)
(***************************************************************************)
EXTENDS BusStops, Sequences, FiniteSets

CONSTANT Inputs    \* files the program may be given

\* alpha is num / den and never below 1: the straight way is always allowed.
ASSUME BusAssumption ==
  /\ N \in Nat \ {0}
  /\ \A p \in Inputs :
       /\ DistM(p.coord) \in [Nodes \X Nodes -> Nat]
       /\ p.danger \in [Nodes \X Nodes -> Nat]
       /\ p.num \in Nat /\ p.den \in Nat \ {0} /\ p.den <= p.num

VARIABLES
  input,      \* distM, d and alpha
  pass,       \* 1, 2, or 3 when the solution is written
  inTree,     \* nodes with inTree[v] = 1
  queue,      \* the arcs of queuedArcs
  order,      \* order[k]: the end b of mspArcs[k]
  arcTo,      \* arcTo[v]: the arc of mspArcs that ends at v
  branched,   \* branched[v]: arcs of mspArcs that start at v
  branches,   \* branches, and maxBranches after the first pass
  minDist,    \* minDist[v]: length of v's way when the first pass reached it
  turn, cand, \* i and j of the second pass
  way         \* history: length of v's way to the school along its line

treeVars == <<inTree, queue, order, arcTo, branched, branches, minDist, way>>
busVars == <<input, pass, treeVars, turn, cand>>

Dist(u, v) == input.dist[u, v]
Danger(u, v) == input.danger[u, v]
TooFar(length, v) == Exceeds(length, Dist(School, v), input.num, input.den)

\* The arc from u to v; branch is 0 if it would start a line of its own.
Arc(u, v, length, branch) ==
  [a |-> u, b |-> v, branch |-> branch, dist |-> length, danger |-> Danger(v, u)]

\* The order in which arcs are taken: one that goes on with a line, a short
\* one, a safe one.
LessThan(x, y) ==
  \/ x.branch > y.branch
  \/ /\ x.branch = y.branch
     /\ \/ x.dist < y.dist
        \/ x.dist = y.dist /\ x.danger < y.danger

Least(Q) == {x \in Q : \A y \in Q : ~ LessThan(y, x)}

NoArc == [a |-> School, b |-> School, branch |-> 0, dist |-> 0, danger |-> 0]

BusInit ==
  /\ input \in {[dist |-> DistM(p.coord), danger |-> p.danger, num |-> p.num, den |-> p.den]
                 : p \in Inputs}
  /\ pass = 1
  /\ inTree = {School}
  /\ queue = {}
  /\ order = <<>>
  /\ arcTo = [v \in Nodes |-> NoArc]
  /\ branched = [v \in Nodes |-> 0] /\ branches = 0
  /\ minDist = [v \in Nodes |-> 0] /\ way = [v \in Nodes |-> 0]
  /\ turn = 1 /\ cand = 0

-----------------------------------------------------------------------------
\* The first pass.

Growing == pass = 1 /\ inTree # Nodes

\* The queue is empty: every arc from the tree to the rest, each a new line.
Refill ==
  /\ Growing
  /\ queue = {}
  /\ queue' = {Arc(u, v, minDist[u] + Dist(u, v), 0) : u \in inTree, v \in Nodes \ inTree}
  /\ UNCHANGED <<input, pass, inTree, order, arcTo, branched, branches, minDist, way, turn, cand>>

\* (a mutant of Accepts: lines split)
AcceptsSplits(arc) == arc.b \notin inTree

\* An arc to a new node that does not split a line.
Accepts(arc) == arc.b \notin inTree /\ ~ (branched[arc.a] > 0 /\ arc.branch = 1)

\* What stays too far away along this line starts a new one.
BranchOf(length, v) == IF TooFar(length, v) THEN 0 ELSE 1

\* (a mutant of NewArcs: the constraint is looked at without the way so far)
NewArcsStraight(v, length) ==
  {Arc(v, w, length + Dist(v, w), BranchOf(Dist(v, w), w)) : w \in Nodes \ (inTree \cup {v})}

\* Arcs from v, whose way has this length, to what is left.
NewArcs(v, length) ==
  {Arc(v, w, length + Dist(v, w), BranchOf(length + Dist(v, w), w))
     : w \in Nodes \ (inTree \cup {v})}

Visit(arc) ==
  /\ Growing
  /\ arc \in Least(queue)
  /\ Accepts(arc)
  /\ inTree' = inTree \cup {arc.b}
  /\ order' = Append(order, arc.b)
  /\ arcTo' = [arcTo EXCEPT ![arc.b] = arc]
  /\ branches' = IF arc.branch = 0 THEN branches + 1 ELSE branches
  /\ branched' = [branched EXCEPT ![arc.a] = @ + 1]
  /\ minDist' = [minDist EXCEPT ![arc.b] = arc.dist]
  /\ way' = [way EXCEPT ![arc.b] = way[arc.a] + Dist(arc.a, arc.b)]
  /\ queue' = (queue \ {arc}) \cup NewArcs(arc.b, arc.dist)
  /\ UNCHANGED <<input, pass, turn, cand>>

\* (mutants of Discard: queueEnd stays as it is; it is set to 0)
DiscardNot(arc) ==
  /\ Growing /\ arc \in Least(queue) /\ ~ Accepts(arc)
  /\ UNCHANGED busVars
DiscardAll(arc) ==
  /\ Growing /\ arc \in Least(queue) /\ ~ Accepts(arc)
  /\ queue' = {}
  /\ UNCHANGED <<input, pass, inTree, order, arcTo, branched, branches, minDist, way, turn, cand>>

Discard(arc) ==
  /\ Growing
  /\ arc \in Least(queue)
  /\ ~ Accepts(arc)
  /\ queue' = queue \ {arc}
  /\ UNCHANGED <<input, pass, inTree, order, arcTo, branched, branches, minDist, way, turn, cand>>

EndFirstPass ==
  /\ pass = 1
  /\ inTree = Nodes
  /\ pass' = 2
  /\ UNCHANGED <<input, treeVars, turn, cand>>

-----------------------------------------------------------------------------
\* The second pass: one turn of the inner loop is one step.

Selecting == pass = 2 /\ turn <= Len(order)

\* (a mutant of Better: only the danger counts)
BetterFar(s) == branched[cand] = 0 /\ s # cand /\ Danger(s, cand) < arcTo[s].danger

\* cand is a leaf that s can hang under with less danger and not too far away.
Better(s) ==
  /\ branched[cand] = 0 /\ s # cand
  /\ Danger(s, cand) < arcTo[s].danger
  /\ ~ TooFar(minDist[cand] + Dist(cand, s), s)

Advance ==
  /\ turn' = IF cand = N - 1 THEN turn + 1 ELSE turn
  /\ cand' = IF cand = N - 1 THEN 0 ELSE cand + 1

\* The leaf s is hung under cand.  minDist[s] is left as it was.
Switch(s) ==
  /\ Selecting
  /\ s = order[turn]
  /\ branched[s] = 0
  /\ Better(s)
  /\ branched' = [branched EXCEPT ![cand] = @ + 1, ![arcTo[s].a] = @ - 1]
  /\ arcTo' = [arcTo EXCEPT ![s] = [@ EXCEPT !.a = cand,
                                             !.dist = minDist[cand] + Dist(cand, s),
                                             !.danger = Danger(s, cand)]]
  /\ way' = [way EXCEPT ![s] = way[cand] + Dist(cand, s)]
  /\ Advance
  /\ UNCHANGED <<input, pass, inTree, queue, order, branches, minDist>>

Keep ==
  /\ Selecting
  /\ branched[order[turn]] = 0
  /\ ~ Better(order[turn])
  /\ Advance
  /\ UNCHANGED <<input, pass, treeVars>>

\* The selected arc does not lead to a leaf.
PassBy ==
  /\ Selecting
  /\ branched[order[turn]] # 0
  /\ turn' = turn + 1
  /\ UNCHANGED <<input, pass, treeVars, cand>>

WriteSolution ==
  /\ pass = 2
  /\ turn > Len(order)
  /\ pass' = 3
  /\ UNCHANGED <<input, treeVars, turn, cand>>

FirstPass == Refill \/ (\E arc \in queue : Visit(arc) \/ Discard(arc)) \/ EndFirstPass
SecondPass == (\E s \in Stops : Switch(s)) \/ Keep \/ PassBy \/ WriteSolution

BusNext == FirstPass \/ SecondPass

BusSpec == BusInit /\ [][BusNext]_busVars
-----------------------------------------------------------------------------
BusTypeOK ==
  /\ input.dist \in [Nodes \X Nodes -> Nat] /\ input.danger \in [Nodes \X Nodes -> Nat]
  /\ input.num \in Nat /\ input.den \in Nat \ {0} /\ input.den <= input.num
  /\ pass \in 1 .. 3
  /\ inTree \subseteq Nodes /\ School \in inTree
  /\ order \in Seq(Stops)
  /\ arcTo \in [Nodes -> [a : Nodes, b : Nodes, branch : {0, 1}, dist : Nat, danger : Nat]]
  /\ branched \in [Nodes -> Nat] /\ branches \in Nat
  /\ minDist \in [Nodes -> Nat] /\ way \in [Nodes -> Nat]
  /\ turn \in Nat \ {0} /\ cand \in Nodes

Reached == inTree \ {School}
Parent(v) == arcTo[v].a
Children(u) == {v \in Reached : Parent(v) = u}
Leaves == {v \in Reached : Children(v) = {}}
Last == IF order = <<>> THEN School ELSE order[Len(order)]

\* Every way ends at the school: no stops lead only to one another.
TreeToSchool ==
  /\ \A v \in Reached : Parent(v) \in inTree
  /\ \A S \in SUBSET Reached : S # {} => \E v \in S : Parent(v) \notin S

\* Lines do not meet before the school, so that there are as many as leaves,
\* and the second pass never adds to the number the first has reported.
LinesCounted ==
  /\ \A v, w \in Reached : Parent(v) = Parent(w) => v = w \/ Parent(v) = School
  /\ Cardinality(Leaves) <= branches
  /\ pass = 1 => Cardinality(Leaves) = branches

\* The queue runs empty only at the start, so that no arc is queued twice and
\* the array's 301 * 301 places are enough.
QueueLasts == pass = 1 /\ inTree # Nodes /\ inTree # {School} => queue # {}

\* No stop's way to the school is longer than alpha allows: not in the first
\* pass, and not in the second, although a leaf that has been hung elsewhere
\* keeps the minDist of its old place and others may come to hang under it.
WithinAlpha == \A v \in Reached : ~ TooFar(way[v], v)

-----------------------------------------------------------------------------
\* Why it holds.

\* order lists the stops of the tree, parents before children in the first
\* pass, at the end of which it has them all.
OrderListsTree ==
  /\ \A v \in Reached : \E k \in DOMAIN order : order[k] = v
  /\ \A k \in DOMAIN order : order[k] \in Reached
  /\ \A k, l \in DOMAIN order : order[k] = order[l] => k = l
  /\ pass = 1 =>
       \A l \in DOMAIN order :
         Parent(order[l]) = School \/ \E k \in DOMAIN order : k < l /\ order[k] = Parent(order[l])
  /\ pass # 1 => inTree = Nodes

\* branched counts the arcs that start at a node.
BranchedCounts == \A v \in Nodes : branched[v] = Cardinality(Children(v))

WaysMeasured ==
  /\ way[School] = 0 /\ minDist[School] = 0
  /\ \A v \in Reached : way[v] = way[Parent(v)] + Dist(Parent(v), v)

\* Only stops whose turn has come can have moved.
NotMovedYet ==
  \A k \in DOMAIN order :
    pass = 1 \/ (pass = 2 /\ k > turn) => way[order[k]] = minDist[order[k]]

\* A queued arc starts in the tree; it is marked as going on with a line just
\* when its end is near enough, and the school's arcs never are.
QueuedArcs ==
  \A arc \in queue :
    /\ arc.a \in inTree /\ arc.b \in Stops
    /\ arc.branch = IF arc.a = School THEN 0 ELSE BranchOf(arc.dist, arc.b)
    /\ arc = Arc(arc.a, arc.b, minDist[arc.a] + Dist(arc.a, arc.b), arc.branch)

\* While a stop is out of the tree, the school's arc to it waits in the queue,
\* and so does the arc from the stop that was reached last.
ArcsWait ==
  pass = 1 /\ (inTree # {School} \/ queue # {}) =>
    \A u \in {School, Last}, w \in Nodes \ inTree :
      \E arc \in queue : arc.a = u /\ arc.b = w

\* From every leaf but the last reached, what is left is too far away: a line
\* is not gone on with once another has been started.
OldEndsExhausted ==
  pass = 1 =>
    \A u \in Leaves \ {Last}, w \in Nodes \ inTree : TooFar(minDist[u] + Dist(u, w), w)

\* From a stop that was a leaf, stops reached later are too far away.
LaterTooFar ==
  pass < 3 =>
    \A k, l \in DOMAIN order :
      /\ turn <= k /\ k < l
      /\ \A m \in DOMAIN order : m > k => Parent(order[m]) # order[k]
      => TooFar(minDist[order[k]] + Dist(order[k], order[l]), order[l])

\* So nobody whose turn is still to come can hang under a stop that has moved.
MovedTooFar ==
  pass < 3 =>
    \A k, l \in DOMAIN order :
      k < l /\ turn <= l /\ way[order[k]] # minDist[order[k]]
      => TooFar(minDist[order[k]] + Dist(order[k], order[l]), order[l])

\* The inductive invariant.
BusInv ==
  /\ BusTypeOK
  /\ TreeToSchool
  /\ LinesCounted
  /\ WithinAlpha
  /\ OrderListsTree
  /\ BranchedCounts
  /\ WaysMeasured
  /\ NotMovedYet
  /\ QueuedArcs
  /\ ArcsWait
  /\ OldEndsExhausted
  /\ LaterTooFar
  /\ MovedTooFar
=============================================================================
