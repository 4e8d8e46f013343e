----------------------------- MODULE WorkGroup ------------------------------
(***************************************************************************)
(* What a MANGO work group promises to its kernel, with no events in it:   *)
(* the tasks of a group run their sections of code in lock step (a task    *)
(* starts section k+1 only when every task has finished section k), and    *)
(* the kernel process that spawned the group closes only when every task   *)
(* has run all its sections.  MangoHN implements this specification with   *)
(* three words of shared memory.                                           *)
(***************************************************************************)
EXTENDS Naturals

CONSTANTS
  Tasks,    \* the tasks of the group
  Rounds    \* how many times each task calls mango_barrier

VARIABLES
  passed,   \* passed[t]: how many barriers task t has returned from
  inside,   \* inside[t]: t has arrived at its next barrier and not left it
  closed    \* the kernel process has closed

groupVars == <<passed, inside, closed>>

GroupInit ==
  /\ passed = [t \in Tasks |-> 0]
  /\ inside = [t \in Tasks |-> FALSE]
  /\ closed = FALSE

Arrive(t) ==
  /\ passed[t] < Rounds
  /\ ~ inside[t]
  /\ inside' = [inside EXCEPT ![t] = TRUE]
  /\ UNCHANGED <<passed, closed>>

\* Task u is at the barrier that t is about to leave, or has left it already.
Reached(u, t) ==
  \/ passed[u] > passed[t]
  \/ passed[u] = passed[t] /\ inside[u]

Leave(t) ==
  /\ inside[t]
  /\ \A u \in Tasks : Reached(u, t)
  /\ passed' = [passed EXCEPT ![t] = @ + 1]
  /\ inside' = [inside EXCEPT ![t] = FALSE]
  /\ UNCHANGED closed

CloseGroup ==
  /\ ~ closed
  /\ \A t \in Tasks : passed[t] = Rounds
  /\ closed' = TRUE
  /\ UNCHANGED <<passed, inside>>

GroupNext ==
  \/ \E t \in Tasks : Arrive(t) \/ Leave(t)
  \/ CloseGroup

GroupSpec == GroupInit /\ [][GroupNext]_groupVars
=============================================================================
