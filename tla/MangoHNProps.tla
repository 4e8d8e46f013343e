---------------------------- MODULE MangoHNProps ----------------------------
(***************************************************************************)
(* What the device side must guarantee, and the inductive invariant that   *)
(* explains why it does.                                                   *)
(***************************************************************************)
EXTENDS MangoHN

\* Program counters by the word the thread is holding locked.
Holding(e) ==
  CASE e = "a"    -> {"exitStore", "joinStore"}
    [] e = "b"    -> {"signalStore", "resetStore"}
    [] e = "r"    -> {"enterStore", "waitStore", "openStore"}
    [] e = "fifo" -> {"fifoLocked", "fifoWaitStore", "fifoRelocked"}
    [] e = "exit" -> {}

InFifo == {"fifo", "fifoLocked", "fifoWait", "fifoWaitStore", "fifoRelock",
           "fifoRelocked"}
InReset == {"reset", "resetStore"}
InOpen == {"open", "openStore"}
Waiting == {"wait", "waitStore"}
Leaving == {"exit", "exitStore", "done"}

\* The task that arrived last at the barrier, until it releases the others.
Last == InFifo \cup InReset \cup InOpen
AtBarrier == Waiting \cup Last
InBarrier == {"enter", "enterStore", "signal", "signalStore"} \cup AtBarrier

TaskStates == {"none", "work", "finish"} \cup InBarrier \cup Leaving
MainStates == {"spawn", "create", "join", "joinStore", "close", "closed"}

\* Every variable keeps the type the code gives it; in particular a word is
\* never driven below zero by mango_signal or mango_exit (v-1 on uint32_t).
TypeOK ==
  /\ word \in [Events -> Nat]
  /\ pc \in [Threads -> TaskStates \cup MainStates]
  /\ pc[Main] \in MainStates
  /\ \A t \in Tasks : pc[t] \in TaskStates
  /\ reg \in [Threads -> Nat]
  /\ go \in [Tasks -> {READ, WRITE}]
  /\ round \in [Tasks -> 0 .. Rounds]
  /\ opened \in Nat

-----------------------------------------------------------------------------
\* The value the release word stands for after k releases.
Sense(k) == IF k % 2 = 0 THEN WRITE ELSE READ

\* Tasks counted by the barrier and not yet released, tasks that have exited.
Arrived == {t \in Tasks : round[t] = opened /\ pc[t] \in AtBarrier}
Done == {t \in Tasks : pc[t] = "done"}

Spawned == pc[Main] # "spawn"

\* A word is 0 exactly while one thread is between its lock and its store:
\* no store ever leaves an event locked for ever (a counter that reaches 0
\* would), and no two threads hold one event at once.
WordHeldByOne(e) ==
  /\ word[e] = LOCK <=> \E p \in Threads : pc[p] \in Holding(e)
  /\ \A p, q \in Threads :
       pc[p] \in Holding(e) /\ pc[q] \in Holding(e) => p = q

GroupWords == {"a", "b", "r"}
LocksAreHeld == Spawned => \A e \in GroupWords : WordHeldByOne(e)

\* Before the spawn there is no task to see the words.
NotSpawned ==
  ~ Spawned => opened = 0 /\ \A t \in Tasks : pc[t] = "none" /\ round[t] = 0

NoneBarrier == \A t \in Tasks : pc[t] = "none" => round[t] = 0 /\ opened = 0

\* The release word carries the sense of the current barrier, and so does
\* the register of whoever holds it.
ReleaseSense ==
  /\ Spawned /\ word["r"] # LOCK => word["r"] = Sense(opened)
  /\ \A t \in Tasks : pc[t] \in {"enterStore", "waitStore"} => reg[t] = Sense(opened)

\* A task is either in the current barrier's section, or it was released by
\* the last opening and has not seen it yet.
RoundSense ==
  \A t \in Tasks :
    \/ /\ round[t] = opened
       /\ pc[t] \in AtBarrier \cup {"signal", "signalStore"} => go[t] = Sense(opened + 1)
    \/ /\ round[t] + 1 = opened
       /\ pc[t] \in Waiting
       /\ go[t] = Sense(opened)

\* mango_barrier is called Rounds times and then no more.
CallsInRound ==
  \A t \in Tasks :
    /\ pc[t] \in InBarrier => round[t] < Rounds
    /\ pc[t] \in Leaving \cup {"finish"} => round[t] = Rounds

\* The barrier word counts the tasks that have not arrived, plus one.
BarrierCount ==
  /\ Spawned /\ word["b"] # LOCK =>
       word["b"] = IF \E t \in Tasks : pc[t] \in InOpen
                   THEN NTasks + 1 ELSE NTasks + 1 - Cardinality(Arrived)
  /\ \A t \in Tasks : pc[t] = "signalStore" => reg[t] = NTasks + 1 - Cardinality(Arrived)

\* There is one last task, and only when everybody has arrived.
LastIsAlone ==
  \A t \in Tasks : pc[t] \in Last =>
    /\ Arrived = Tasks
    /\ \A u \in Tasks : pc[u] \in Last => u = t

\* event_a counts the tasks that have not exited, plus one.
ExitCount ==
  /\ Spawned /\ word["a"] # LOCK => word["a"] = NTasks + 1 - Cardinality(Done)
  /\ \A p \in Threads :
       pc[p] \in Holding("a") => reg[p] = NTasks + 1 - Cardinality(Done)

JoinedAll == pc[Main] \in {"close", "closed"} => Done = Tasks

\* The inductive invariant: between them these conjuncts say what each of the
\* three words of the group stands for at every moment.
IInv ==
  /\ TypeOK
  /\ LocksAreHeld
  /\ NotSpawned
  /\ NoneBarrier
  /\ ReleaseSense
  /\ RoundSense
  /\ CallsInRound
  /\ BarrierCount
  /\ LastIsAlone
  /\ ExitCount
  /\ JoinedAll

-----------------------------------------------------------------------------
\* mango_barrier is a barrier: a task that has returned from more barriers
\* than another sees that other one waiting in the very barrier it left, and
\* the two are never more than one barrier apart.
BarrierSafety ==
  \A t, u \in Tasks : round[t] > round[u] =>
    /\ round[t] = round[u] + 1
    /\ pc[u] \in Waiting

\* While the last task resets the barrier word nobody else is anywhere near
\* it: every other task has been counted and waits for the release, so the
\* unconditional store of ntasks+1 (line 103) loses no decrement.
ResetLosesNoArrival ==
  \A t, u \in Tasks : pc[t] \in Last /\ t # u =>
    /\ pc[u] \in Waiting
    /\ round[u] = round[t]

\* mango_join returns, and the kernel process exits and takes its threads
\* with it, only when every task has run its last section and has signed off.
JoinWaitsForAll ==
  pc[Main] \in {"close", "closed"} =>
    \A t \in Tasks : pc[t] = "done" /\ round[t] = Rounds

\* The events implement a work group (module WorkGroup): a task is inside
\* the barrier from its decrement of the barrier word to its return.
WG == INSTANCE WorkGroup WITH
        passed <- round,
        inside <- [t \in Tasks |-> pc[t] \in AtBarrier],
        closed <- pc[Main] = "closed"

\* mango_spawn, mango_barrier, mango_exit, mango_join and mango_close behave as
\* module WorkGroup says: every step of a thread is a step of it or a stutter.
ImplementsWorkGroup == WG!GroupSpec

\* Every task gets through every barrier it enters: no interleaving of the
\* locks of mango_barrier leaves a task behind.
EveryBarrierOpens == \A t \in Tasks : pc[t] = "enter" ~> pc[t] = "work"

\* mango_join comes to an end, and the kernel signals the host.
KernelCloses == <>(pc[Main] = "closed")
=============================================================================
