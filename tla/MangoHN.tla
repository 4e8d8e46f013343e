------------------------------ MODULE MangoHN -------------------------------
(***************************************************************************)
(* The device side of the MANGO run time (src_dev/mango_hn.c and the GN    *)
(* port of it, mango_hn_gn.c): one kernel process whose main thread spawns *)
(* a group of tasks, waits for them and closes, and the tasks, which meet  *)
(* at mango_barrier and leave with mango_exit.                             *)
(*                                                                         *)
(* Threads share words called events.  A word is read-and-zeroed or stored *)
(* under one process-shared semaphore, so each of the two is one step      *)
(* here; a word that reads 0 is locked and the reader spins.  Everything   *)
(* longer (lock, look at the value, store) is several steps.               *)
(***************************************************************************)
EXTENDS Naturals, FiniteSets

CONSTANTS
  Tasks,    \* the tasks mango_spawn creates: its range is their number
  Main,     \* the kernel's main thread
  Rounds,   \* calls of mango_barrier in each task
  UseFifo   \* mango_barrier is given a FIFO event (TRUE) or NULL (FALSE)

ASSUME GroupAssumption ==
  /\ IsFiniteSet(Tasks)
  /\ Main \notin Tasks
  /\ Rounds \in Nat
  /\ UseFifo \in BOOLEAN

\* mango_event_status_t
LOCK == 0
READ == 1
WRITE == 2
END_FIFO_OPERATION == 3

\* event_a: tasks still running; event_b: barrier; event_r: release;
\* event_exit: end of kernel; fifo: the event of the FIFO buffer.
Events == {"a", "b", "r", "exit", "fifo"}

Threads == Tasks \cup {Main}
NTasks == Cardinality(Tasks)

VARIABLES
  word,     \* word[e]: the shared word of event e
  pc,       \* pc[p]: where thread p is
  reg,      \* reg[p]: the value p's last mango_lock returned
  go,       \* go[t]: local variable of mango_barrier
  round,    \* round[t]: barriers task t has returned from (the kernel's i)
  opened    \* history: how often the group has been released (line 106)

vars == <<word, pc, reg, go, round, opened>>

-----------------------------------------------------------------------------
\* The steps every operation is made of.

Goto(p, from, to) ==
  /\ pc[p] = from
  /\ pc' = [pc EXCEPT ![p] = to]

\* mango_lock succeeds: the word was not 0 and now is.
Take(p, e, from, to) ==
  /\ Goto(p, from, to)
  /\ word[e] # LOCK
  /\ reg' = [reg EXCEPT ![p] = word[e]]
  /\ word' = [word EXCEPT ![e] = LOCK]
  /\ UNCHANGED <<go, round, opened>>

\* mango_write_synchronization: a blind store.
Store(e, v) == word' = [word EXCEPT ![e] = v]

\* mango_wait looks at the value it locked, once it has stored it back.
Restore(p, e, state, from, again, done) ==
  /\ Goto(p, from, IF reg[p] = state THEN done ELSE again)
  /\ Store(e, reg[p])
  /\ UNCHANGED reg

\* Where the kernel's task function goes after r barriers: the next call,
\* or what follows the loop.
AfterLoop == IF UseFifo THEN "finish" ELSE "exit"
NextCall_OnceMore(r) == IF r <= Rounds THEN "enter" ELSE AfterLoop   \* mutant
NextCall(r) == IF r < Rounds THEN "enter" ELSE AfterLoop

-----------------------------------------------------------------------------
\* The shared memory is zeroed by the host before the kernel starts; the
\* host's resource_allocation leaves WRITE in the event of a buffer.
Init ==
  /\ word = [e \in Events |-> IF e = "fifo" THEN WRITE ELSE 0]
  /\ pc = [p \in Threads |-> IF p = Main THEN "spawn" ELSE "none"]
  /\ reg = [p \in Threads |-> 0]
  /\ go = [t \in Tasks |-> READ]
  /\ round = [t \in Tasks |-> 0]
  /\ opened = 0

\* Mutant: event_a is set to range, one too few.
Spawn_JoinShort ==
  /\ Goto(Main, "spawn", IF Tasks = {} THEN "join" ELSE "create")
  /\ word' = [word EXCEPT !["a"] = NTasks, !["b"] = NTasks + 1, !["r"] = WRITE]
  /\ UNCHANGED <<reg, go, round, opened>>

\* Mutant: event_b is set to range, one too few.
Spawn_BarrierShort ==
  /\ Goto(Main, "spawn", IF Tasks = {} THEN "join" ELSE "create")
  /\ word' = [word EXCEPT !["a"] = NTasks + 1, !["b"] = NTasks, !["r"] = WRITE]
  /\ UNCHANGED <<reg, go, round, opened>>

\* mango_spawn stores the three words with no lock, before any task exists.
Spawn ==
  /\ Goto(Main, "spawn", IF Tasks = {} THEN "join" ELSE "create")
  /\ word' = [word EXCEPT !["a"] = NTasks + 1,
                          !["b"] = NTasks + 1,
                          !["r"] = WRITE]
  /\ UNCHANGED <<reg, go, round, opened>>

\* One turn of the pthread_create loop; t may run from here on.
Create(t) ==
  /\ pc[Main] = "create"
  /\ pc[t] = "none"
  /\ LET last == \A u \in Tasks \ {t} : pc[u] # "none"
     IN  pc' = [pc EXCEPT ![t] = NextCall(0),
                          ![Main] = IF last THEN "join" ELSE "create"]
  /\ UNCHANGED <<word, reg, go, round, opened>>

JoinLock == Take(Main, "a", "join", "joinStore")

JoinStore ==
  /\ Restore(Main, "a", READ, "joinStore", "join", "close")
  /\ UNCHANGED <<go, round, opened>>

\* mango_gn_close: signal the host and leave the process.
Close ==
  /\ Goto(Main, "close", "closed")
  /\ Store("exit", 1)
  /\ UNCHANGED <<reg, go, round, opened>>

-----------------------------------------------------------------------------
\* mango_barrier.

\* go = mango_lock(release)
Enter(t) == Take(t, "r", "enter", "enterStore")

\* Mutant: go is not flipped.
EnterStore_NoFlip(t) ==
  /\ Goto(t, "enterStore", "signal")
  /\ Store("r", reg[t])
  /\ go' = [go EXCEPT ![t] = reg[t]]
  /\ UNCHANGED <<reg, round, opened>>

\* store it back and compute the value this barrier will be released with
EnterStore(t) ==
  /\ Goto(t, "enterStore", "signal")
  /\ Store("r", reg[t])
  /\ go' = [go EXCEPT ![t] = IF reg[t] = READ THEN WRITE ELSE READ]
  /\ UNCHANGED <<reg, round, opened>>

\* mango_signal(barrier)
Signal(t) == Take(t, "b", "signal", "signalStore")

\* count, the value stored, tells whether t is the last to arrive
LastTurn == IF UseFifo THEN "fifo" ELSE "reset"
AfterSignal_Early(count) == IF count > 2 THEN "wait" ELSE LastTurn   \* mutant
AfterSignal(count) == IF count > 1 THEN "wait" ELSE LastTurn

SignalStore(t) ==
  /\ Goto(t, "signalStore", AfterSignal(reg[t] - 1))
  /\ Store("b", reg[t] - 1)
  /\ UNCHANGED <<reg, go, round, opened>>

\* mango_wait(release, go)
Wait(t) == Take(t, "r", "wait", "waitStore")

WaitStore(t) ==
  /\ Restore(t, "r", go[t], "waitStore", "wait", "work")
  /\ round' = [round EXCEPT ![t] = IF reg[t] = go[t] THEN @ + 1 ELSE @]
  /\ UNCHANGED <<go, opened>>

\* The last task takes the FIFO event: a full buffer can be read at once.
FifoLock(t) == Take(t, "fifo", "fifo", "fifoLocked")

FifoFull(t) ==
  /\ reg[t] = READ
  /\ Goto(t, "fifoLocked", "reset")
  /\ Store("fifo", END_FIFO_OPERATION)
  /\ UNCHANGED <<reg, go, round, opened>>

\* Anything else asks the host for a chunk ...
FifoAsk(t) ==
  /\ reg[t] # READ
  /\ Goto(t, "fifoLocked", "fifoWait")
  /\ Store("fifo", WRITE)
  /\ UNCHANGED <<reg, go, round, opened>>

\* ... and waits until the host says READ.
FifoWait(t) == Take(t, "fifo", "fifoWait", "fifoWaitStore")

FifoWaitStore(t) ==
  /\ Restore(t, "fifo", READ, "fifoWaitStore", "fifoWait", "fifoRelock")
  /\ UNCHANGED <<go, round, opened>>

\* The value this lock returns is not looked at.
FifoRelock(t) == Take(t, "fifo", "fifoRelock", "fifoRelocked")

FifoDone_LeavesRead(t) ==   \* mutant: the value found is stored back
  /\ Goto(t, "fifoRelocked", "reset")
  /\ Store("fifo", reg[t])
  /\ UNCHANGED <<reg, go, round, opened>>

FifoDone_AsksAgain(t) ==   \* mutant: the buffer is given to the host at once
  /\ Goto(t, "fifoRelocked", "reset")
  /\ Store("fifo", WRITE)
  /\ UNCHANGED <<reg, go, round, opened>>

FifoDone(t) ==
  /\ Goto(t, "fifoRelocked", "reset")
  /\ Store("fifo", END_FIFO_OPERATION)
  /\ UNCHANGED <<reg, go, round, opened>>

\* The last task resets the barrier ...
Reset(t) == Take(t, "b", "reset", "resetStore")

ResetStore_Forgotten(t) ==   \* mutant: the barrier word is only given back
  /\ Goto(t, "resetStore", "open")
  /\ Store("b", reg[t])
  /\ UNCHANGED <<reg, go, round, opened>>

ResetStore(t) ==
  /\ Goto(t, "resetStore", "open")
  /\ Store("b", NTasks + 1)
  /\ UNCHANGED <<reg, go, round, opened>>

\* ... and releases the others.
Open(t) == Take(t, "r", "open", "openStore")

OpenStore(t) ==
  /\ Goto(t, "openStore", "work")
  /\ Store("r", go[t])
  /\ round' = [round EXCEPT ![t] = @ + 1]
  /\ opened' = opened + 1
  /\ UNCHANGED <<reg, go>>

-----------------------------------------------------------------------------
\* The task function between barriers and after them.

Work(t) ==
  /\ Goto(t, "work", NextCall(round[t]))
  /\ UNCHANGED <<word, reg, go, round, opened>>

\* A kernel that uses a FIFO ends with this blind store, once per task.
Finish(t) ==
  /\ Goto(t, "finish", "exit")
  /\ Store("fifo", END_FIFO_OPERATION)
  /\ UNCHANGED <<reg, go, round, opened>>

\* Mutant: the exit is not counted.
ExitStore_Uncounted(t) ==
  /\ Goto(t, "exitStore", "done")
  /\ Store("a", reg[t])
  /\ UNCHANGED <<reg, go, round, opened>>

\* mango_exit
Exit(t) == Take(t, "a", "exit", "exitStore")

ExitStore(t) ==
  /\ Goto(t, "exitStore", "done")
  /\ Store("a", reg[t] - 1)
  /\ UNCHANGED <<reg, go, round, opened>>

-----------------------------------------------------------------------------
MainStep == Spawn \/ (\E t \in Tasks : Create(t)) \/ JoinLock \/ JoinStore \/ Close

FifoStep(t) ==
  FifoLock(t) \/ FifoFull(t) \/ FifoAsk(t) \/ FifoWait(t) \/ FifoWaitStore(t)
    \/ FifoRelock(t) \/ FifoDone(t)

BarrierStep(t) ==
  Enter(t) \/ EnterStore(t) \/ Signal(t) \/ SignalStore(t) \/ Wait(t) \/ WaitStore(t)
    \/ Reset(t) \/ ResetStore(t) \/ Open(t) \/ OpenStore(t)

TaskStep(t) ==
  BarrierStep(t) \/ FifoStep(t) \/ Work(t) \/ Finish(t) \/ Exit(t) \/ ExitStore(t)

\* A kernel with a FIFO is an open system: the host locks the words it shares
\* with it and stores into them, when it pleases.  Module MangoFifo says when.
HostStatus(e) == IF e = "exit" THEN {0, 1} ELSE {LOCK, READ, WRITE, END_FIFO_OPERATION}

HostStore(e, v) ==
  /\ UseFifo
  /\ Store(e, v)
  /\ UNCHANGED <<pc, reg, go, round, opened>>

Next ==
  \/ MainStep
  \/ \E t \in Tasks : TaskStep(t)
  \/ \E e \in {"fifo", "exit"} : \E v \in HostStatus(e) : HostStore(e, v)

Spec == Init /\ [][Next]_vars

(***************************************************************************)
(* A thread that can run is run.  Taking a word needs strong fairness: the *)
(* semaphore and the spin on 0 promise no order, but a failed mango_wait   *)
(* sleeps (mango_gn_suspend) before it tries again, while a spinning       *)
(* mango_lock retries at once, so a word that is free again and again is   *)
(* eventually found free.                                                  *)
(***************************************************************************)
TakeStep(t) ==
  Enter(t) \/ Signal(t) \/ Wait(t) \/ FifoLock(t) \/ FifoWait(t) \/ FifoRelock(t)
    \/ Reset(t) \/ Open(t) \/ Exit(t)

Fairness ==
  /\ WF_vars(MainStep)
  /\ SF_vars(JoinLock)
  /\ \A t \in Tasks : WF_vars(TaskStep(t)) /\ SF_vars(TakeStep(t))

FairSpec == Spec /\ Fairness
=============================================================================
