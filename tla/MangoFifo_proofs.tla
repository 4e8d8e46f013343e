-------------------------- MODULE MangoFifo_proofs --------------------------
(***************************************************************************)
(* For every group of tasks, every number of rounds and of chunks: the     *)
(* host does not disturb the barrier, and a host that waits for the kernel *)
(* before it waits for the FIFO never overwrites a chunk that is being     *)
(* read, though it stores READ without locking the word.                   *)
(***************************************************************************)
EXTENDS MangoFifo, MangoHN_proofs

\* A step of the kernel is a step of MangoHN.
LEMMA KernelIsNext ==
  ASSUME KernelStep
  PROVE  Next
BY DEF KernelStep, KernelTask, Consume, Next, TaskStep

\* IInv holds initially and is kept by every step of host and kernel.
LEMMA FifoKeepsIInv ==
  ASSUME IInv, FifoTypeOK, [FifoNext]_fifoVars
  PROVE  IInv'
<1>1. CASE KernelStep
  BY <1>1, KernelIsNext, NextIInv
<1>2. CASE WriterStep
  <2>1. UNCHANGED deviceVars
    BY <1>2 DEF WriterStep, WriterLock, WriterRestore, WriterCopy, WriterAnnounce, vars,
       deviceVars
  <2>2. \/ word' = word
        \/ \E v \in Nat : Store("fifo", v)
    BY <1>2 DEF WriterStep, WriterLock, WriterRestore, WriterCopy, WriterAnnounce, vars,
       FifoTypeOK, LOCK, READ
  <2>3. CASE word' = word
    BY <2>1, <2>3, NextIInv DEF vars, deviceVars
  <2> QED
    BY <2>1, <2>2, <2>3, OtherWord DEF deviceVars
<1>3. CASE HostStep
  <2> USE DEF HostStep, HostWrite, HostLaunch, HostFifoLock, HostFifoRestore, HostFifoJoin,
        HostExitLock, HostExitRestore, HostGet, HostLock, HostRestore
  <2>1. UNCHANGED deviceVars
    BY <1>3 DEF vars, deviceVars
  <2>2. \/ word' = word
        \/ \E v \in Nat : Store("fifo", v)
        \/ \E v \in Nat : Store("exit", v)
    BY <1>3 DEF vars, FifoTypeOK, LOCK
  <2>3. CASE word' = word
    BY <2>1, <2>3, NextIInv DEF vars, deviceVars
  <2> QED
    BY <2>1, <2>2, <2>3, OtherWord DEF deviceVars
<1>4. CASE UNCHANGED fifoVars
  BY <1>4, NextIInv DEF fifoVars
<1> QED
  BY <1>1, <1>2, <1>3, <1>4 DEF FifoNext

\* The types of the host's variables.
LEMMA FifoKeepsType ==
  ASSUME IInv, FifoTypeOK, [FifoNext]_fifoVars
  PROVE  FifoTypeOK'
<1> USE DEF FifoTypeOK, HostStates, WriterStates
<1>1. CASE KernelStep
  <2>1. UNCHANGED <<hostVars, writerVars>>
    BY <1>1 DEF KernelStep
  <2>2. got' \in [Tasks -> Seq(Nat)]
    <3>1. CASE UNCHANGED got
      BY <3>1
    <3>2. ASSUME NEW t \in Tasks, Consume(t)
          PROVE  got' \in [Tasks -> Seq(Nat)]
      <4>1. Append(got[t], mem[t]) \in Seq(Nat)
        OBVIOUS
      <4> QED
        BY <3>2, <4>1 DEF Consume
    <3> QED
      BY <1>1, <3>1, <3>2 DEF KernelStep, KernelTask
  <2> QED
    BY <2>1, <2>2 DEF hostVars, writerVars
<1>2. CASE WriterStep
  <2>1. UNCHANGED <<hostVars, got>> /\ wpc # "none"
    BY <1>2 DEF WriterStep, WriterLock, WriterRestore, WriterCopy, WriterAnnounce
  <2>2. wpc' \in WriterStates /\ wreg' \in Nat
    BY <1>2 DEF WriterStep, WriterLock, WriterRestore, WriterCopy, WriterAnnounce, IInv,
       TypeOK, Events
  <2>3. sent' \in Nat /\ copied' \in SUBSET Tasks /\ mem' \in [Tasks -> Nat]
    <3>1. ASSUME NEW t \in Tasks, WriterCopy(t)
          PROVE  sent' \in Nat /\ copied' \in SUBSET Tasks /\ mem' \in [Tasks -> Nat]
      BY <3>1 DEF WriterCopy
    <3> QED
      BY <1>2, <3>1 DEF WriterStep, WriterLock, WriterRestore, WriterAnnounce
  <2> QED
    BY <2>1, <2>2, <2>3 DEF hostVars
<1>3. CASE HostStep
  BY <1>3 DEF HostStep, HostWrite, HostLaunch, HostFifoLock, HostFifoRestore,
     HostFifoJoin, HostExitLock, HostExitRestore, HostGet, HostLock, HostRestore,
     AfterLaunch, AfterJoin, AfterGet, writerVars, IInv, TypeOK, Events
<1>4. CASE UNCHANGED fifoVars
  BY <1>4 DEF fifoVars, hostVars, writerVars
<1> QED
  BY <1>1, <1>2, <1>3, <1>4 DEF FifoNext

LEMMA FifoInitType == FifoInit => IInv /\ FifoTypeOK
<1> SUFFICES ASSUME FifoInit
             PROVE  IInv /\ FifoTypeOK
  OBVIOUS
<1>1. IInv
  BY InitIInv DEF FifoInit
<1>2. <<>> \in Seq(Nat)
  OBVIOUS
<1> QED
  BY <1>1, <1>2 DEF FifoInit, FifoTypeOK, HostStates, WriterStates

\* The invariant of the work group holds whatever the host does.
THEOREM FifoInvariance == FifoSpec => [](IInv /\ FifoTypeOK)
BY FifoInitType, FifoKeepsIInv, FifoKeepsType, PTL DEF FifoSpec

\* mango_barrier is a barrier in the presence of the host.
THEOREM FifoBarrierIsSafe == FifoSpec => []BarrierSafety
<1>1. IInv => BarrierSafety
  BY DEF IInv, TypeOK, RoundSense, BarrierSafety
<1> QED
  BY <1>1, FifoInvariance, PTL

-----------------------------------------------------------------------------
(***************************************************************************)
(* The kernel-first order.  GateWhileCopying is the heart: as long as the  *)
(* FIFO thread has seen WRITE, or could still see it, every task is held   *)
(* in the barrier and the last one can find no READ.                       *)
(***************************************************************************)

\* A kernel that has closed takes no more steps.
LEMMA KernelRuns ==
  ASSUME IInv, KernelStep
  PROVE  pc[Main] # "closed"
<1> SUFFICES ASSUME pc[Main] = "closed"
             PROVE  FALSE
  OBVIOUS
<1>1. \A t \in Tasks : pc[t] = "done"
  BY DEF IInv, JoinedAll, Done
<1>2. ~ MainStep
  BY DEF MainStep, Spawn, Create, JoinLock, JoinStore, Close, Take, Restore, Goto
<1>3. ASSUME NEW t \in Tasks, KernelTask(t)
      PROVE  FALSE
  BY <1>1, <1>3 DEF KernelTask, Consume, BarrierStep, FifoStep, Enter, EnterStore, Signal,
     SignalStore, Wait, WaitStore, FifoLock, FifoFull, FifoAsk, FifoWait, FifoWaitStore,
     FifoRelock, FifoDone, Reset, ResetStore, Open, OpenStore, Work, Finish, Exit,
     ExitStore, Take, Restore, Goto
<1> QED
  BY <1>2, <1>3 DEF KernelStep

LEMMA KeepsAfterKernel ==
  ASSUME IInv, FifoTypeOK, AfterKernel, ~ FifoFirst, [FifoNext]_fifoVars
  PROVE  AfterKernel'
<1>1. CASE KernelStep
  <2>1. pc[Main] # "closed" /\ UNCHANGED hpc
    BY <1>1, KernelRuns DEF KernelStep, hostVars
  <2> QED
    BY <2>1 DEF AfterKernel
<1>2. CASE WriterStep
  BY <1>2 DEF WriterStep, WriterLock, WriterRestore, WriterCopy, WriterAnnounce, hostVars,
     deviceVars, vars, AfterKernel
<1>3. CASE HostStep
  BY <1>3 DEF HostStep, HostWrite, HostLaunch, HostFifoLock, HostFifoRestore,
     HostFifoJoin, HostExitLock, HostExitRestore, HostGet, HostLock, HostRestore,
     AfterLaunch, AfterJoin, AfterGet, deviceVars, vars, AfterKernel
<1>4. CASE UNCHANGED fifoVars
  BY <1>4 DEF fifoVars, hostVars, vars, AfterKernel
<1> QED
  BY <1>1, <1>2, <1>3, <1>4 DEF FifoNext

\* The gate, against the steps of the FIFO thread ...
LEMMA WriterKeepsGate ==
  ASSUME IInv, FifoTypeOK, AfterKernel, GateWhileCopying, WriterStep
  PROVE  GateWhileCopying'
<1> USE DEF GateWhileCopying, MayCopy, Copying, WriterStep, WriterLock, WriterRestore,
        WriterCopy, WriterAnnounce, Store, LOCK, READ, WRITE
<1>1. UNCHANGED <<deviceVars, hostVars>>
  BY DEF vars, deviceVars
<1>2. GateShut' = GateShut /\ NoReadTaken' = NoReadTaken
  BY <1>1 DEF deviceVars, GateShut, NoReadTaken
<1>3. /\ MayCopy' => MayCopy
      /\ Copying' => word'["fifo"] # READ \/ (Copying /\ word'["fifo"] = word["fifo"])
  BY <1>1 DEF hostVars, vars, IInv, TypeOK, Events
<1> QED
  BY <1>1, <1>2, <1>3 DEF deviceVars

\* ... of the host's main thread ...
LEMMA HostKeepsGate ==
  ASSUME IInv, FifoTypeOK, AfterKernel, GateWhileCopying, HostStep
  PROVE  GateWhileCopying'
<1> USE DEF GateWhileCopying, MayCopy, Copying, HostStep, HostWrite, HostLaunch,
        HostFifoLock, HostFifoRestore, HostFifoJoin, HostExitLock, HostExitRestore,
        HostGet, HostLock, HostRestore, Store, LOCK, READ, WRITE, END_FIFO_OPERATION
<1>1. UNCHANGED deviceVars
  BY DEF vars, deviceVars
<1>2. GateShut' = GateShut /\ NoReadTaken' = NoReadTaken
  BY <1>1 DEF deviceVars, GateShut, NoReadTaken
<1>3. MayCopy' => MayCopy
  <2>1. Copying' => Copying
    BY DEF FifoTypeOK, writerVars
  <2>2. word'["fifo"] = WRITE => MayCopy
    BY DEF vars, IInv, TypeOK, Events
  <2>3. hpc' = "fifoStore" /\ hreg' = WRITE => word["fifo"] = WRITE
    BY DEF vars, AfterLaunch, AfterJoin, AfterGet
  <2> QED
    BY <2>1, <2>2, <2>3
<1>4. \/ hpc = "fifoStore"
      \/ Copying' => Copying /\ (word'["fifo"] = word["fifo"] \/ word'["fifo"] = LOCK)
  BY DEF FifoTypeOK, writerVars, vars, IInv, TypeOK, Events
<1> QED
  BY <1>1, <1>2, <1>3, <1>4 DEF deviceVars, AfterKernel

\* ... and of the kernel: the main thread first, ...
LEMMA MainKeepsGate ==
  ASSUME IInv, FifoTypeOK, AfterKernel, GateWhileCopying, KernelStep, MainStep
  PROVE  GateWhileCopying'
<1> USE GroupAssumption, FifoAssumption
    DEF MainStep, Spawn, Create, JoinLock, JoinStore, Close, Take, Restore, Goto, Store,
        Threads, Events, IInv, TypeOK, InReset, InOpen
<1>1. UNCHANGED <<hostVars, writerVars>> /\ pc[Main] # "closed"
  BY KernelRuns DEF KernelStep
<1>2. word'["fifo"] = word["fifo"]
  OBVIOUS
<1>3. NextCall(0) \in {"enter", "finish", "exit"}
  BY DEF NextCall, AfterLoop
<1>4. \A t \in Tasks : \/ pc'[t] = pc[t] /\ reg'[t] = reg[t]
                       \/ pc[t] = "none" /\ pc'[t] \in {"enter", "finish", "exit"}
  BY <1>3
<1>5. opened' = opened
  OBVIOUS
<1>6. GateShut => GateShut'
  BY <1>4, <1>5 DEF GateShut
<1>7. NoReadTaken => NoReadTaken'
  BY <1>4 DEF NoReadTaken
<1> QED
  BY <1>1, <1>2, <1>6, <1>7 DEF GateWhileCopying, MayCopy, Copying, hostVars, writerVars

\* ... then the steps of a task that leave the FIFO event alone, ...
LEMMA OtherTaskKeepsGate ==
  ASSUME IInv, FifoTypeOK, AfterKernel, GateWhileCopying, KernelStep,
         NEW t \in Tasks,
         BarrierStep(t) \/ Work(t) \/ Exit(t) \/ ExitStore(t)
  PROVE  GateWhileCopying'
<1> USE GroupAssumption, FifoAssumption DEF Threads, Events, IInv, TypeOK
<1>1. UNCHANGED <<hostVars, writerVars>> /\ pc[Main] # "closed"
  BY KernelRuns DEF KernelStep
<1>2. /\ word'["fifo"] = word["fifo"]
      /\ \A u \in Tasks \ {t} : pc'[u] = pc[u] /\ reg'[u] = reg[u]
      /\ pc[t] \notin {"fifoWait", "fifoWaitStore"}
      /\ pc'[t] \notin {"fifoLocked", "fifoWaitStore"}
  <2>1. NextCall(round[t]) \in {"enter", "finish", "exit"}
    BY DEF NextCall, AfterLoop
  <2>2. AfterSignal(reg[t] - 1) \in {"wait", "fifo"}
    BY DEF AfterSignal, LastTurn
  <2> QED
    BY <2>1, <2>2 DEF BarrierStep, Enter, EnterStore, Signal, SignalStore, Wait, WaitStore, Reset,
       ResetStore, Open, OpenStore, Work, Exit, ExitStore, Take, Restore, Goto, Store
<1>3. NoReadTaken => NoReadTaken'
  BY <1>2 DEF NoReadTaken
<1>4. ASSUME GateShut
      PROVE  GateShut'
  <2>1. CASE \E u \in Tasks : pc[u] \in {"fifoWait", "fifoWaitStore"}
    BY <1>2, <2>1 DEF GateShut
  <2>2. CASE /\ opened = 0
             /\ \A u \in Tasks :
                  pc[u] \notin {"fifoRelock", "fifoRelocked", "work"} \cup InReset \cup InOpen
    <3>1. opened' = 0
      BY <2>2 DEF BarrierStep, Enter, EnterStore, Signal, SignalStore, Wait, WaitStore,
         Reset, ResetStore, Open, OpenStore, Work, Exit, ExitStore, Take, Restore, Goto,
         InOpen
    <3>2. pc[t] = "waitStore" => reg[t] # go[t]
      <4>1. Sense(opened) # Sense(opened + 1)
        BY SenseFacts DEF READ, WRITE
      <4>2. round[t] + 1 # opened
        BY <2>2
      <4> QED
        BY <4>1, <4>2 DEF ReleaseSense, RoundSense, AtBarrier, Waiting
    <3>3. pc'[t] \notin {"fifoRelock", "fifoRelocked", "work"} \cup InReset \cup InOpen
      <4>1. AfterSignal(reg[t] - 1) \in {"wait", "fifo"}
        BY DEF AfterSignal, LastTurn
      <4>2. NextCall(round[t]) \in {"enter", "finish", "exit"}
        BY DEF NextCall, AfterLoop
      <4> QED
        BY <2>2, <3>2, <4>1, <4>2 DEF BarrierStep, Enter, EnterStore, Signal, SignalStore, Wait,
           WaitStore, Reset, ResetStore, Open, OpenStore, Work, Exit, ExitStore, Take,
           Restore, Goto, InReset, InOpen
    <3> QED
      BY <1>2, <2>2, <3>1, <3>3 DEF GateShut
  <2> QED
    BY <1>4, <2>1, <2>2 DEF GateShut
<1> QED
  BY <1>1, <1>2, <1>3, <1>4 DEF GateWhileCopying, MayCopy, Copying, hostVars, writerVars

\* ... and those that take or store it.
LEMMA FifoTaskKeepsGate ==
  ASSUME IInv, FifoTypeOK, AfterKernel, GateWhileCopying, KernelStep,
         NEW t \in Tasks,
         FifoStep(t) \/ Finish(t)
  PROVE  GateWhileCopying'
<1> USE GroupAssumption DEF Threads, Events, IInv, TypeOK, Take, Restore, Goto, Store,
        LOCK, READ, WRITE, END_FIFO_OPERATION
<1>1. UNCHANGED <<hostVars, writerVars>> /\ pc[Main] # "closed" /\ pc'[Main] # "closed"
  BY KernelRuns DEF KernelStep, FifoStep, Finish, FifoLock, FifoFull, FifoAsk, FifoWait,
     FifoWaitStore, FifoRelock, FifoDone
<1>2. /\ opened' = opened
      /\ \A u \in Tasks \ {t} : pc'[u] = pc[u] /\ reg'[u] = reg[u]
  BY DEF FifoStep, Finish, FifoLock, FifoFull, FifoAsk, FifoWait, FifoWaitStore, FifoRelock,
     FifoDone
<1>3. Copying' = Copying /\ ~ (hpc = "fifoStore")
  BY <1>1 DEF Copying, hostVars, writerVars, AfterKernel
<1>4. MayCopy' => Copying \/ word'["fifo"] = WRITE
  BY <1>1, <1>3 DEF MayCopy, hostVars
<1>5. Copying => GateShut /\ NoReadTaken /\ word["fifo"] # READ
  BY <1>1 DEF GateWhileCopying, MayCopy
<1>6. \A u \in Tasks : pc[t] \in InFifo /\ pc[u] \in InFifo => u = t
  BY DEF LastIsAlone, Last
<1>7. pc[t] \in {"fifoRelock", "fifoRelocked"} => ~ GateShut
  BY <1>6 DEF GateShut, InFifo
<1>8. CASE FifoLock(t)
  <2>1. /\ pc[t] = "fifo" /\ pc'[t] = "fifoLocked" /\ word'["fifo"] = 0
        /\ reg'[t] = word["fifo"]
    BY <1>8 DEF FifoLock
  <2>2. GateShut => GateShut'
    BY <1>2, <2>1 DEF GateShut, InReset, InOpen
  <2>3. Copying => NoReadTaken'
    BY <1>2, <1>5, <2>1 DEF NoReadTaken
  <2> QED
    BY <1>3, <1>4, <1>5, <2>1, <2>2, <2>3 DEF GateWhileCopying
<1>9. CASE FifoFull(t)
  <2>1. ~ Copying /\ word'["fifo"] = 3
    BY <1>5, <1>9 DEF FifoFull, NoReadTaken
  <2> QED
    BY <1>3, <1>4, <2>1 DEF GateWhileCopying
<1>10. CASE FifoAsk(t)
  <2>1. pc[t] = "fifoLocked" /\ pc'[t] = "fifoWait" /\ word'["fifo"] = 2
    BY <1>10 DEF FifoAsk
  <2>2. GateShut'
    BY <2>1 DEF GateShut
  <2>3. NoReadTaken'
    BY <1>2, <1>6, <2>1 DEF NoReadTaken, InFifo
  <2> QED
    BY <2>1, <2>2, <2>3 DEF GateWhileCopying
<1>11. CASE FifoWait(t)
  <2>1. /\ pc[t] = "fifoWait" /\ pc'[t] = "fifoWaitStore" /\ word'["fifo"] = 0
        /\ reg'[t] = word["fifo"]
    BY <1>11 DEF FifoWait
  <2>2. GateShut'
    BY <2>1 DEF GateShut
  <2>3. Copying => NoReadTaken'
    BY <1>2, <1>5, <2>1 DEF NoReadTaken
  <2> QED
    BY <1>3, <1>4, <2>1, <2>2, <2>3 DEF GateWhileCopying
<1>12. CASE FifoWaitStore(t)
  <2>1. CASE reg[t] = READ
    <3>1. ~ Copying /\ word'["fifo"] = 1
      BY <1>5, <1>12, <2>1 DEF FifoWaitStore, NoReadTaken
    <3> QED
      BY <1>3, <1>4, <3>1 DEF GateWhileCopying
  <2>2. CASE reg[t] # READ
    <3>1. pc[t] = "fifoWaitStore" /\ pc'[t] = "fifoWait" /\ word'["fifo"] # 1
      BY <1>12, <2>2 DEF FifoWaitStore
    <3>2. GateShut'
      BY <3>1 DEF GateShut
    <3>3. NoReadTaken'
      BY <1>2, <1>6, <3>1 DEF NoReadTaken, InFifo
    <3> QED
      BY <3>1, <3>2, <3>3 DEF GateWhileCopying
  <2> QED
    BY <2>1, <2>2
<1>13. CASE FifoRelock(t) \/ FifoDone(t)
  <2>1. ~ Copying /\ word'["fifo"] \in {0, 3}
    BY <1>5, <1>7, <1>13 DEF FifoRelock, FifoDone
  <2> QED
    BY <1>3, <1>4, <2>1 DEF GateWhileCopying
<1>14. CASE Finish(t)
  <2>1. pc[t] = "finish" /\ pc'[t] = "exit" /\ word'["fifo"] = 3
    BY <1>14 DEF Finish
  <2>2. GateShut => GateShut'
    BY <1>2, <2>1 DEF GateShut, InReset, InOpen
  <2>3. NoReadTaken => NoReadTaken'
    BY <1>2, <2>1 DEF NoReadTaken
  <2> QED
    BY <1>3, <1>4, <1>5, <2>1, <2>2, <2>3 DEF GateWhileCopying
<1> QED
  BY <1>8, <1>9, <1>10, <1>11, <1>12, <1>13, <1>14 DEF FifoStep

LEMMA KeepsGate ==
  ASSUME IInv, FifoTypeOK, AfterKernel, GateWhileCopying, [FifoNext]_fifoVars
  PROVE  GateWhileCopying'
<1>1. CASE KernelStep
  BY <1>1, MainKeepsGate, OtherTaskKeepsGate, FifoTaskKeepsGate
     DEF KernelStep, KernelTask, Consume
<1>2. CASE UNCHANGED fifoVars
  BY <1>2 DEF fifoVars, hostVars, writerVars, vars, GateWhileCopying, MayCopy, Copying,
     GateShut, NoReadTaken
<1> QED
  BY <1>1, <1>2, WriterKeepsGate, HostKeepsGate DEF FifoNext

-----------------------------------------------------------------------------
\* While a chunk may be copied every task is held in the barrier.
LEMMA GateHolds ==
  ASSUME IInv, GateWhileCopying
  PROVE  NoCopyWhileReading
<1> SUFFICES ASSUME wpc = "copy", NEW t \in Reading
             PROVE  FALSE
  BY DEF NoCopyWhileReading
<1>1. t \in Tasks /\ (pc[t] = "work" \/ round[t] < opened)
  BY DEF Reading
<1>2. GateShut
  BY DEF GateWhileCopying, MayCopy, Copying
<1>3. CASE \E u \in Tasks : pc[u] \in {"fifoWait", "fifoWaitStore"}
  <2>1. Arrived = Tasks
    BY <1>3 DEF IInv, LastIsAlone, Last, InFifo
  <2>2. round[t] = opened /\ pc[t] # "work"
    BY <1>1, <2>1 DEF Arrived, AtBarrier, Waiting, Last, InFifo, InReset, InOpen
  <2> QED
    BY <1>1, <2>2 DEF IInv, TypeOK
<1>4. CASE opened = 0 /\ pc[t] # "work"
  BY <1>1, <1>4 DEF IInv, TypeOK
<1> QED
  BY <1>1, <1>2, <1>3, <1>4 DEF GateShut

\* The cells of the buffer.
LEMMA KeepsCopiedCells ==
  ASSUME FifoTypeOK, CopiedCells, [FifoNext]_fifoVars
  PROVE  CopiedCells'
<1> USE DEF CopiedCells, FifoTypeOK
<1>1. CASE KernelStep \/ UNCHANGED fifoVars
  BY <1>1 DEF KernelStep, fifoVars, writerVars
<1>2. CASE HostStep
  <2>1. UNCHANGED <<sent, copied, mem>> /\ (wpc' = wpc \/ wpc = "none")
    BY <1>2 DEF HostStep, HostWrite, HostLaunch, HostFifoLock, HostFifoRestore,
       HostFifoJoin, HostExitLock, HostExitRestore, HostGet, HostLock, HostRestore,
       writerVars
  <2>2. wpc' # wpc => wpc' \in {"poll", "done"}
    BY <1>2 DEF HostStep, HostWrite, HostLaunch, HostFifoLock, HostFifoRestore,
       HostFifoJoin, HostExitLock, HostExitRestore, HostGet, HostLock, HostRestore,
       writerVars
  <2> QED
    BY <2>1, <2>2
<1>3. ASSUME NEW t \in Tasks, WriterCopy(t)
      PROVE  CopiedCells'
  <2>1. copied' = copied \cup {t} /\ sent' = sent /\ mem' = [mem EXCEPT ![t] = sent + 1]
    BY <1>3 DEF WriterCopy
  <2>2. wpc' = IF copied' = Tasks THEN "announce" ELSE "copy"
    BY <1>3 DEF WriterCopy
  <2> QED
    BY <2>1, <2>2
<1>4. CASE WriterAnnounce
  BY <1>4 DEF WriterAnnounce
<1>5. CASE WriterLock \/ WriterRestore
  BY <1>5 DEF WriterLock, WriterRestore
<1> QED
  BY <1>1, <1>2, <1>3, <1>4, <1>5 DEF FifoNext, WriterStep

\* While anybody reads the buffer it holds one chunk.
LEMMA OneChunkInBuffer ==
  ASSUME FifoTypeOK, CopiedCells, NoCopyWhileReading, Reading # {},
         NEW t \in Tasks, NEW u \in Tasks
  PROVE  mem[t] = mem[u]
<1>1. copied = {} \/ copied = Tasks
  BY DEF CopiedCells, NoCopyWhileReading
<1> QED
  BY <1>1 DEF CopiedCells

\* The history got, against a task's read ...
LEMMA ConsumeKeepsReads ==
  ASSUME IInv, FifoTypeOK, CopiedCells, NoCopyWhileReading, OneReadPerRound,
         SameForTheRest, RoundReadsOneChunk,
         NEW t \in Tasks, Consume(t), UNCHANGED writerVars
  PROVE  OneReadPerRound' /\ SameForTheRest' /\ RoundReadsOneChunk'
<1> USE GroupAssumption DEF Threads
<1>1. /\ pc[t] = "work" /\ pc'[t] # "work"
      /\ \A u \in Tasks \ {t} : pc'[u] = pc[u] /\ got'[u] = got[u]
      /\ round' = round /\ opened' = opened /\ mem' = mem
      /\ got'[t] = Append(got[t], mem[t])
  <2>1. NextCall(round[t]) # "work"
    BY DEF NextCall, AfterLoop
  <2> QED
    BY <2>1 DEF Consume, Work, Goto, writerVars, IInv, TypeOK, FifoTypeOK
<1>2. round[t] = opened /\ opened \in Nat /\ t \in Reading
  BY <1>1 DEF IInv, RoundSense, Waiting, TypeOK, Reading
<1>3. \A u \in Tasks : round[u] \in Nat /\ got[u] \in Seq(Nat) /\ round[u] <= opened
  <2>1. \A u \in Tasks : round[u] \in Nat /\ got[u] \in Seq(Nat)
    BY DEF IInv, TypeOK, FifoTypeOK
  <2>2. \A u \in Tasks : round[u] = opened \/ round[u] + 1 = opened
    BY DEF IInv, RoundSense
  <2> QED
    BY <1>2, <2>1, <2>2
<1>4. /\ Len(got[t]) = opened - 1 /\ Len(got'[t]) = opened
      /\ \A k \in 1 .. opened - 1 : got'[t][k] = got[t][k]
      /\ got'[t][opened] = mem[t]
  <2>1. mem[t] \in Nat /\ got[t] \in Seq(Nat) /\ Len(got[t]) = opened - 1
    BY <1>1, <1>2, <1>3 DEF OneReadPerRound, FifoTypeOK
  <2> QED
    BY <1>1, <1>2, <2>1
<1>5. OneReadPerRound'
  BY <1>1, <1>2, <1>4 DEF OneReadPerRound
<1>6. Reading' = Reading \ {t}
  BY <1>1, <1>2 DEF Reading
<1>7. SameForTheRest'
  <2> SUFFICES ASSUME NEW x \in Tasks \ Reading', NEW u \in Reading'
               PROVE  mem'[u] = got'[x][opened']
    BY DEF SameForTheRest
  <2>1. CASE x = t
    BY <1>1, <1>2, <1>4, <1>6, <2>1, OneChunkInBuffer DEF Reading
  <2>2. CASE x # t
    BY <1>1, <1>6, <2>2 DEF SameForTheRest
  <2> QED
    BY <2>1, <2>2
<1>8. \A u \in Tasks \ {t} : \A k \in DOMAIN got'[t] \cap DOMAIN got'[u] :
        got'[t][k] = got'[u][k]
  <2> SUFFICES ASSUME NEW u \in Tasks \ {t}, NEW k \in DOMAIN got'[t] \cap DOMAIN got'[u]
               PROVE  got'[t][k] = got'[u][k]
    OBVIOUS
  <2>1. got'[u] = got[u] /\ k \in 1 .. opened /\ k \in 1 .. Len(got[u])
    <3>1. got'[t] \in Seq(Nat)
      BY <1>1, <1>3 DEF FifoTypeOK
    <3>2. got'[u] = got[u] /\ got[u] \in Seq(Nat)
      BY <1>1, <1>3
    <3> QED
      BY <1>4, <3>1, <3>2, SMTT(30)
  <2>2. CASE k = opened
    <3>1. u \notin Reading
      BY <1>2, <1>3, <2>1, <2>2 DEF OneReadPerRound, Reading
    <3> QED
      BY <1>2, <1>4, <2>1, <2>2, <3>1 DEF SameForTheRest
  <2>3. CASE k \in 1 .. opened - 1
    <3>1. k \in DOMAIN got[t] \cap DOMAIN got[u]
      BY <1>3, <1>4, <2>1, <2>3
    <3> QED
      BY <1>4, <2>1, <2>3, <3>1 DEF RoundReadsOneChunk
  <2> QED
    BY <1>2, <2>1, <2>2, <2>3
<1>9. RoundReadsOneChunk'
  <2> SUFFICES ASSUME NEW x \in Tasks, NEW u \in Tasks,
                      NEW k \in DOMAIN got'[x] \cap DOMAIN got'[u]
               PROVE  got'[x][k] = got'[u][k]
    BY DEF RoundReadsOneChunk
  <2>1. CASE x # t /\ u # t
    BY <1>1, <2>1 DEF RoundReadsOneChunk
  <2> QED
    BY <1>8, <2>1
<1> QED
  BY <1>5, <1>7, <1>9

\* ... and against every other step of the kernel.
LEMMA OtherKeepsReads ==
  ASSUME IInv, FifoTypeOK, OneReadPerRound, SameForTheRest, RoundReadsOneChunk,
         UNCHANGED <<writerVars, got>>,
         \/ MainStep
         \/ \E t \in Tasks :
              BarrierStep(t) \/ FifoStep(t) \/ Finish(t) \/ Exit(t) \/ ExitStore(t)
  PROVE  OneReadPerRound' /\ SameForTheRest' /\ RoundReadsOneChunk'
<1> USE GroupAssumption DEF Threads, IInv, TypeOK
<1>1. RoundReadsOneChunk'
  BY DEF RoundReadsOneChunk
<1>2. CASE \E t \in Tasks : OpenStore(t)
  <2>1. PICK t \in Tasks : OpenStore(t)
    BY <1>2
  <2>2. /\ pc[t] = "openStore" /\ pc'[t] = "work" /\ round'[t] = round[t] + 1
        /\ opened' = opened + 1
        /\ \A u \in Tasks \ {t} : pc'[u] = pc[u] /\ round'[u] = round[u]
    BY <2>1 DEF OpenStore, Goto
  <2>3. Arrived = Tasks
    BY <2>2 DEF LastIsAlone, Last, InOpen
  <2>4. Reading' = Tasks
    BY <2>2, <2>3 DEF Reading, Arrived
  <2>5. OneReadPerRound'
    BY <2>2 DEF OneReadPerRound
  <2> QED
    BY <1>1, <2>4, <2>5 DEF SameForTheRest
<1>3. CASE \E t \in Tasks : WaitStore(t)
  <2>1. PICK t \in Tasks : WaitStore(t)
    BY <1>3
  <2>2. /\ pc[t] = "waitStore" /\ opened' = opened
        /\ \A u \in Tasks \ {t} : pc'[u] = pc[u] /\ round'[u] = round[u]
        /\ \/ reg[t] # go[t] /\ pc'[t] = "wait" /\ round'[t] = round[t]
           \/ reg[t] = go[t] /\ pc'[t] = "work" /\ round'[t] = round[t] + 1
    BY <2>1 DEF WaitStore, Restore, Goto
  <2>3. reg[t] = go[t] => round[t] + 1 = opened
    <3>1. reg[t] = Sense(opened) /\ Sense(opened) # Sense(opened + 1)
      BY <2>2, SenseFacts DEF ReleaseSense, READ, WRITE
    <3> QED
      BY <2>2, <3>1 DEF RoundSense, AtBarrier, Waiting
  <2>4. Reading' = Reading
    BY <2>2, <2>3 DEF Reading
  <2>5. OneReadPerRound'
    BY <2>2 DEF OneReadPerRound
  <2>6. SameForTheRest'
    BY <2>2, <2>4 DEF SameForTheRest, writerVars
  <2> QED
    BY <1>1, <2>5, <2>6
<1>4. ASSUME ~ (\E t \in Tasks : OpenStore(t) \/ WaitStore(t))
      PROVE  OneReadPerRound' /\ SameForTheRest' /\ RoundReadsOneChunk'
  <2>1. /\ opened' = opened /\ round' = round
        /\ \A u \in Tasks : pc'[u] = "work" <=> pc[u] = "work"
    <3>1. CASE MainStep
      <4>1. NextCall(0) # "work"
        BY DEF NextCall, AfterLoop
      <4> QED
        BY <3>1, <4>1 DEF MainStep, Spawn, Create, JoinLock, JoinStore, Close, Take, Restore, Goto
    <3>2. ASSUME NEW t \in Tasks,
                 \/ FifoStep(t) \/ Finish(t) \/ Exit(t) \/ ExitStore(t)
                 \/ BarrierStep(t) /\ ~ OpenStore(t) /\ ~ WaitStore(t)
          PROVE  /\ opened' = opened /\ round' = round
                 /\ \A u \in Tasks : pc'[u] = "work" <=> pc[u] = "work"
      <4>1. AfterSignal(reg[t] - 1) # "work"
        BY DEF AfterSignal, LastTurn
      <4> QED
        BY <3>2, <4>1 DEF BarrierStep, FifoStep, Enter, EnterStore, Signal, SignalStore, Wait,
           FifoLock, FifoFull, FifoAsk, FifoWait, FifoWaitStore, FifoRelock, FifoDone, Reset,
           ResetStore, Open, Finish, Exit, ExitStore, Take, Restore, Goto
    <3> QED
      BY <1>4, <3>1, <3>2
  <2>2. Reading' = Reading
    BY <2>1 DEF Reading
  <2> QED
    BY <1>1, <2>1, <2>2 DEF OneReadPerRound, SameForTheRest, writerVars
<1> QED
  BY <1>2, <1>3, <1>4

\* A copy happens while nobody reads; the host changes nothing else the
\* history is compared with.
LEMMA HostKeepsReads ==
  ASSUME FifoTypeOK, NoCopyWhileReading, OneReadPerRound, SameForTheRest,
         RoundReadsOneChunk, HostStep \/ WriterStep \/ UNCHANGED fifoVars
  PROVE  OneReadPerRound' /\ SameForTheRest' /\ RoundReadsOneChunk'
<1>1. UNCHANGED <<deviceVars, got>>
  BY DEF HostStep, HostWrite, HostLaunch, HostFifoLock, HostFifoRestore, HostFifoJoin,
     HostExitLock, HostExitRestore, HostGet, HostLock, HostRestore, WriterStep, WriterLock,
     WriterRestore, WriterCopy, WriterAnnounce, fifoVars, vars, deviceVars
<1>2. mem' = mem \/ wpc = "copy"
  BY DEF HostStep, HostWrite, HostLaunch, HostFifoLock, HostFifoRestore, HostFifoJoin,
     HostExitLock, HostExitRestore, HostGet, HostLock, HostRestore, WriterStep, WriterLock,
     WriterRestore, WriterCopy, WriterAnnounce, fifoVars, writerVars
<1>3. Reading' = Reading
  BY <1>1 DEF deviceVars, Reading
<1>4. OneReadPerRound' /\ RoundReadsOneChunk'
  BY <1>1 DEF deviceVars, OneReadPerRound, RoundReadsOneChunk
<1>5. SameForTheRest'
  BY <1>1, <1>2, <1>3 DEF deviceVars, SameForTheRest, NoCopyWhileReading
<1> QED
  BY <1>4, <1>5

-----------------------------------------------------------------------------
(***************************************************************************)
(* The order of the chunks.  A READ that is in the word, or that somebody  *)
(* has taken and will store back, announces a chunk no task has read; the  *)
(* last task spends it before it opens the barrier.                        *)
(***************************************************************************)

\* A shut gate keeps every task in the barrier, with nobody past the FIFO.
LEMMA ShutGate ==
  ASSUME IInv, GateShut
  PROVE  Reading = {} /\ ~ GatePassed
<1> USE DEF GatePassed, GateLeft, PastGate, InReset, InOpen
<1>1. CASE \E u \in Tasks : pc[u] \in {"fifoWait", "fifoWaitStore"}
  <2>1. PICK u \in Tasks : pc[u] \in {"fifoWait", "fifoWaitStore"}
    BY <1>1
  <2>2. Arrived = Tasks /\ \A t \in Tasks : pc[t] \in Last => t = u
    BY <2>1 DEF IInv, LastIsAlone, Last, InFifo
  <2>3. ~ GatePassed
    BY <2>1, <2>2 DEF Last, InFifo
  <2>4. Reading = {}
    BY <2>2 DEF Reading, Arrived, AtBarrier, Waiting, Last, InFifo, IInv, TypeOK
  <2> QED
    BY <2>3, <2>4
<1>2. CASE /\ opened = 0
           /\ \A t \in Tasks :
                pc[t] \notin {"fifoRelock", "fifoRelocked", "work"} \cup InReset \cup InOpen
  BY <1>2 DEF Reading, IInv, TypeOK
<1> QED
  BY <1>1, <1>2 DEF GateShut

\* A task that has been let past the gate is the last one: nobody reads.
LEMMA PassedIsAlone ==
  ASSUME IInv, NEW t \in Tasks, pc[t] \in Last
  PROVE  Reading = {} /\ \A u \in Tasks \ {t} : pc[u] \in Waiting
<1>1. Arrived = Tasks /\ \A u \in Tasks : pc[u] \in Last => u = t
  BY DEF IInv, LastIsAlone
<1>2. Reading = {}
  BY <1>1 DEF Reading, Arrived, AtBarrier, Waiting, Last, InFifo, InReset, InOpen, IInv, TypeOK
<1> QED
  BY <1>1, <1>2 DEF Arrived, AtBarrier

\* The host's main thread leaves the buffer's event alone as long as the
\* kernel runs.
LEMMA HostLeavesFifo ==
  ASSUME IInv, AfterKernel, pc[Main] # "closed", HostStep \/ UNCHANGED fifoVars
  PROVE  /\ word'["fifo"] = word["fifo"]
         /\ UNCHANGED <<deviceVars, got, wreg, sent>>
         /\ wpc' = "store" => wpc = "store"
BY DEF HostStep, HostWrite, HostLaunch, HostFifoLock, HostFifoRestore, HostFifoJoin,
   HostExitLock, HostExitRestore, HostGet, HostLock, HostRestore, AfterKernel, vars,
   deviceVars, writerVars, fifoVars, Store, IInv, TypeOK, Events

\* The steps of a task that have nothing to do with the FIFO: they let nobody
\* past the gate, and only the last task lets others read.
LEMMA OtherTaskStep ==
  ASSUME IInv, NEW t \in Tasks, BarrierStep(t) \/ Work(t) \/ Exit(t) \/ ExitStore(t)
  PROVE  /\ word'["fifo"] = word["fifo"]
         /\ \A u \in Tasks \ {t} : pc'[u] = pc[u] /\ reg'[u] = reg[u]
         /\ pc'[t] \notin {"fifoLocked", "fifoWaitStore", "fifoRelock"}
         /\ pc'[t] \in PastGate => pc[t] \in PastGate
         /\ Reading' \subseteq Reading \/ GateLeft
<1> USE GroupAssumption, FifoAssumption DEF Threads, Events, IInv, TypeOK
<1>1. NextCall(round[t]) \in {"enter", "finish", "exit"}
  BY DEF NextCall, AfterLoop
<1>2. AfterSignal(reg[t] - 1) \in {"wait", "fifo"}
  BY DEF AfterSignal, LastTurn
<1>3. /\ word'["fifo"] = word["fifo"]
      /\ \A u \in Tasks \ {t} : pc'[u] = pc[u] /\ reg'[u] = reg[u]
      /\ pc'[t] \notin {"fifoLocked", "fifoWaitStore", "fifoRelock"}
      /\ pc'[t] \in PastGate => pc[t] \in PastGate
  BY <1>1, <1>2 DEF BarrierStep, Enter, EnterStore, Signal, SignalStore, Wait, WaitStore,
     Reset, ResetStore, Open, OpenStore, Work, Exit, ExitStore, Take, Restore, Goto, Store,
     PastGate, InReset, InOpen
<1>4. CASE OpenStore(t)
  <2>1. pc[t] \in PastGate
    BY <1>4 DEF OpenStore, Goto, PastGate, InOpen
  <2> QED
    BY <1>3, <2>1 DEF GateLeft
<1>5. CASE WaitStore(t)
  <2>1. /\ pc[t] = "waitStore" /\ opened' = opened
        /\ \A u \in Tasks \ {t} : round'[u] = round[u]
        /\ reg[t] # go[t] => round'[t] = round[t] /\ pc'[t] = "wait"
    BY <1>5 DEF WaitStore, Restore, Goto
  <2>2. reg[t] = go[t] => t \in Reading
    <3>1. reg[t] = Sense(opened) /\ Sense(opened) # Sense(opened + 1)
      BY <2>1, SenseFacts DEF ReleaseSense, READ, WRITE
    <3> QED
      BY <2>1, <3>1 DEF RoundSense, AtBarrier, Waiting, Reading
  <2>3. ASSUME NEW u \in Tasks, u \in Reading'
        PROVE  u \in Reading
    <3>1. CASE u = t
      <4>1. reg[t] # go[t] => round'[t] = round[t] /\ pc'[t] # "work"
        BY <2>1
      <4> QED
        BY <2>1, <2>2, <2>3, <3>1, <4>1 DEF Reading
    <3>2. CASE u # t
      BY <1>3, <2>1, <2>3, <3>2 DEF Reading
    <3> QED
      BY <3>1, <3>2
  <2>4. Reading' \subseteq Tasks
    BY DEF Reading
  <2> QED
    BY <1>3, <2>3, <2>4
<1>6. ASSUME ~ OpenStore(t), ~ WaitStore(t)
      PROVE  Reading' \subseteq Reading
  <2>1. opened' = opened /\ round' = round /\ pc'[t] # "work"
    BY <1>1, <1>2, <1>6 DEF BarrierStep, Enter, EnterStore, Signal, SignalStore, Wait, Reset,
       ResetStore, Open, Work, Exit, ExitStore, Take, Goto
  <2> QED
    BY <1>3, <2>1 DEF Reading
<1> QED
  BY <1>3, <1>4, <1>5, <1>6

\* The main thread of the kernel neither.
LEMMA MainStepFifo ==
  ASSUME IInv, MainStep
  PROVE  /\ word'["fifo"] = word["fifo"]
         /\ \A t \in Tasks : \/ pc'[t] = pc[t] /\ reg'[t] = reg[t]
                             \/ pc[t] = "none" /\ pc'[t] \in {"enter", "finish", "exit"}
         /\ UNCHANGED <<round, opened>>
<1> USE GroupAssumption, FifoAssumption
    DEF MainStep, Spawn, Create, JoinLock, JoinStore, Close, Take, Restore, Goto, Store,
        Threads, Events, IInv, TypeOK
<1>1. NextCall(0) \in {"enter", "finish", "exit"}
  BY DEF NextCall, AfterLoop
<1> QED
  BY <1>1

\* READ is taken with the lock, and nobody disturbs its holder: the kernel ...
LEMMA KernelKeepsReadHeld ==
  ASSUME IInv, FifoTypeOK, GateWhileCopying, ReadIsHeldAlone, KernelStep
  PROVE  ReadIsHeldAlone'
<1> USE GroupAssumption DEF Threads
<1>1. pc[Main] # "closed" /\ UNCHANGED <<wpc, wreg>>
  BY KernelRuns DEF KernelStep, writerVars
<1>2. CASE MainStep
  <2>1. NoReadTaken' = NoReadTaken
    BY <1>2, MainStepFifo DEF NoReadTaken
  <2>2. \A t \in Tasks : pc'[t] = "fifoRelock" => pc[t] = "fifoRelock"
    BY <1>2, MainStepFifo
  <2>3. word'["fifo"] = word["fifo"]
    BY <1>2, MainStepFifo
  <2> QED
    BY <1>1, <2>1, <2>2, <2>3 DEF ReadIsHeldAlone
<1>3. ASSUME NEW t \in Tasks, BarrierStep(t) \/ Work(t) \/ Exit(t) \/ ExitStore(t)
      PROVE  ReadIsHeldAlone'
  <2>1. NoReadTaken => NoReadTaken'
    BY <1>3, OtherTaskStep DEF NoReadTaken
  <2>2. \A u \in Tasks : pc'[u] = "fifoRelock" => pc[u] = "fifoRelock"
    BY <1>3, OtherTaskStep
  <2>3. word'["fifo"] = word["fifo"]
    BY <1>3, OtherTaskStep
  <2> QED
    BY <1>1, <2>1, <2>2, <2>3 DEF ReadIsHeldAlone
<1>4. ASSUME NEW t \in Tasks, FifoStep(t)
      PROVE  ReadIsHeldAlone'
  <2> USE <1>4 DEF Events, IInv, TypeOK, Take, Restore, Goto, Store, LOCK, READ, WRITE,
          END_FIFO_OPERATION
  <2>1. /\ pc[t] \in Last
        /\ \A u \in Tasks \ {t} : pc'[u] = pc[u] /\ reg'[u] = reg[u]
    BY DEF FifoStep, FifoLock, FifoFull, FifoAsk, FifoWait, FifoWaitStore, FifoRelock,
       FifoDone, Last, InFifo
  <2>2. \A u \in Tasks \ {t} : pc'[u] \notin {"fifoLocked", "fifoWaitStore", "fifoRelock"}
    BY <2>1, PassedIsAlone DEF Waiting
  <2>3. CASE FifoLock(t) \/ FifoWait(t)
    <3>1. word'["fifo"] = LOCK /\ reg'[t] = word["fifo"] /\ pc'[t] # "fifoRelock"
      BY <2>3 DEF FifoLock, FifoWait
    <3>2. wpc = "store" => NoReadTaken'
      BY <1>1, <2>2, <3>1 DEF ReadIsHeldAlone, NoReadTaken
    <3> QED
      BY <1>1, <3>1, <3>2 DEF ReadIsHeldAlone
  <2>4. CASE FifoFull(t) \/ FifoAsk(t) \/ FifoDone(t)
    <3>1. word'["fifo"] # READ
          /\ pc'[t] \notin {"fifoLocked", "fifoWaitStore", "fifoRelock"}
      BY <2>4 DEF FifoFull, FifoAsk, FifoDone
    <3>2. NoReadTaken'
      BY <2>2, <3>1 DEF NoReadTaken
    <3> QED
      BY <1>1, <2>2, <3>1, <3>2 DEF ReadIsHeldAlone
  <2>5. CASE FifoWaitStore(t)
    <3>1. /\ pc[t] = "fifoWaitStore" /\ word'["fifo"] = reg[t]
          /\ pc'[t] \in {"fifoWait", "fifoRelock"}
          /\ pc'[t] = "fifoRelock" => reg[t] = READ
      BY <2>5 DEF FifoWaitStore
    <3>2. NoReadTaken'
      BY <2>2, <3>1 DEF NoReadTaken
    <3>3. wpc = "store" => reg[t] # READ
      BY <1>1, <3>1 DEF ReadIsHeldAlone, NoReadTaken
    <3> QED
      BY <1>1, <2>2, <3>1, <3>2, <3>3 DEF ReadIsHeldAlone
  <2>6. CASE FifoRelock(t)
    <3>1. word'["fifo"] = LOCK /\ pc'[t] = "fifoRelocked"
      BY <2>6 DEF FifoRelock
    <3>2. NoReadTaken'
      BY <2>2, <3>1 DEF NoReadTaken
    <3> QED
      BY <1>1, <2>2, <3>1, <3>2 DEF ReadIsHeldAlone
  <2> QED
    BY <2>3, <2>4, <2>5, <2>6 DEF FifoStep
<1>5. ASSUME NEW t \in Tasks, Finish(t)
      PROVE  ReadIsHeldAlone'
  <2>1. /\ pc[t] = "finish" /\ pc' = [pc EXCEPT ![t] = "exit"] /\ reg' = reg
        /\ word'["fifo"] = END_FIFO_OPERATION
    BY <1>5 DEF Finish, Goto, Store, IInv, TypeOK, Events
  <2>2. \A u \in Tasks : pc[u] \notin {"fifoLocked", "fifoWaitStore", "fifoRelock"}
    BY <2>1, PassedIsAlone DEF Waiting, Last, InFifo
  <2>3. \A u \in Tasks : pc'[u] \notin {"fifoLocked", "fifoWaitStore", "fifoRelock"}
    BY <2>1, <2>2 DEF IInv, TypeOK
  <2> QED
    BY <1>1, <2>1, <2>3 DEF ReadIsHeldAlone, NoReadTaken, END_FIFO_OPERATION, READ
<1> QED
  BY <1>2, <1>3, <1>4, <1>5 DEF KernelStep, KernelTask, Consume

\* ... and the host.
LEMMA KeepsReadHeld ==
  ASSUME IInv, FifoTypeOK, AfterKernel, GateWhileCopying, ReadIsHeldAlone,
         [FifoNext]_fifoVars
  PROVE  ReadIsHeldAlone'
<1>1. CASE HostStep \/ UNCHANGED fifoVars
  <2> SUFFICES ASSUME pc'[Main] # "closed"
               PROVE  ReadIsHeldAlone'
    BY DEF ReadIsHeldAlone
  <2>1. pc[Main] # "closed"
    BY <1>1 DEF HostStep, HostWrite, HostLaunch, HostFifoLock, HostFifoRestore, HostFifoJoin,
       HostExitLock, HostExitRestore, HostGet, HostLock, HostRestore, vars, deviceVars,
       fifoVars
  <2>2. /\ word'["fifo"] = word["fifo"] /\ UNCHANGED deviceVars
        /\ wpc' = "store" => wpc = "store"
    BY <1>1, <2>1, HostLeavesFifo
  <2> QED
    BY <2>1, <2>2 DEF ReadIsHeldAlone, NoReadTaken, deviceVars
<1>2. CASE WriterStep
  <2> SUFFICES ASSUME pc'[Main] # "closed"
               PROVE  ReadIsHeldAlone'
    BY DEF ReadIsHeldAlone
  <2>1. UNCHANGED deviceVars
    BY <1>2 DEF WriterStep, WriterLock, WriterRestore, WriterCopy, WriterAnnounce, vars,
       deviceVars
  <2>2. pc[Main] # "closed" /\ NoReadTaken' = NoReadTaken
    BY <2>1 DEF deviceVars, NoReadTaken
  <2>3. CASE WriterLock
    <3>1. /\ word["fifo"] # LOCK /\ word'["fifo"] = LOCK
      BY <2>3 DEF WriterLock, Store, IInv, TypeOK, Events
    <3> QED
      BY <2>1, <2>2, <3>1 DEF ReadIsHeldAlone, deviceVars, LOCK, READ
  <2>4. CASE WriterRestore
    <3>1. wpc = "store" /\ wpc' # "store"
      BY <2>4 DEF WriterRestore
    <3> QED
      BY <2>1, <2>2, <3>1 DEF ReadIsHeldAlone
  <2>5. CASE \E t \in Tasks : WriterCopy(t)
    <3>1. wpc' # "store" /\ word' = word
      BY <2>5 DEF WriterCopy, vars
    <3> QED
      BY <2>1, <2>2, <3>1 DEF ReadIsHeldAlone
  <2>6. CASE WriterAnnounce
    <3>1. wpc = "announce" /\ wpc' # "store"
      BY <2>6 DEF WriterAnnounce
    <3>2. NoReadTaken
      BY <2>2, <3>1 DEF GateWhileCopying, MayCopy, Copying
    <3> QED
      BY <2>2, <3>1, <3>2 DEF ReadIsHeldAlone
  <2> QED
    BY <1>2, <2>3, <2>4, <2>5, <2>6 DEF WriterStep
<1> QED
  BY <1>1, <1>2, KernelKeepsReadHeld DEF FifoNext

\* A chunk is read by a task that may read it: nothing is being copied, so
\* the cell belongs to the chunk announced last, which the task has not read.
LEMMA ConsumeReadsNew ==
  ASSUME IInv, FifoTypeOK, GateWhileCopying, CopiedCells, GotAnnounced, ChunksInOrder,
         NEW t \in Tasks, Consume(t), UNCHANGED writerVars
  PROVE  GotAnnounced' /\ ChunksInOrder'
<1> USE GroupAssumption DEF Threads
<1>1. /\ pc[t] = "work" /\ pc'[t] # "work"
      /\ \A u \in Tasks \ {t} : pc'[u] = pc[u] /\ got'[u] = got[u]
      /\ round' = round /\ opened' = opened /\ sent' = sent
      /\ got'[t] = Append(got[t], mem[t])
  <2>1. NextCall(round[t]) # "work"
    BY DEF NextCall, AfterLoop
  <2> QED
    BY <2>1 DEF Consume, Work, Goto, writerVars, IInv, TypeOK, FifoTypeOK
<1>2. t \in Reading /\ Reading' = Reading \ {t}
  <2>1. round[t] = opened /\ opened \in Nat
    BY <1>1 DEF IInv, RoundSense, Waiting, TypeOK
  <2> QED
    BY <1>1, <2>1 DEF Reading
<1>3. mem[t] = sent
  <2>1. t \notin copied
    BY <1>2, ShutGate DEF CopiedCells, GateWhileCopying, MayCopy, Copying
  <2> QED
    BY <2>1 DEF CopiedCells
<1>4. /\ DOMAIN got'[t] = 1 .. Len(got[t]) + 1 /\ DOMAIN got[t] = 1 .. Len(got[t])
      /\ Len(got[t]) \in Nat
      /\ got'[t][Len(got[t]) + 1] = sent
      /\ \A k \in 1 .. Len(got[t]) : got'[t][k] = got[t][k] /\ got[t][k] < sent
  <2>1. got[t] \in Seq(Nat) /\ mem[t] \in Nat
    BY DEF FifoTypeOK
  <2>2. \A k \in DOMAIN got[t] : got[t][k] < sent
    BY <1>2 DEF GotAnnounced
  <2> QED
    BY <1>1, <1>3, <2>1, <2>2
<1>5. GotAnnounced'
  <2> SUFFICES ASSUME NEW u \in Tasks, NEW k \in DOMAIN got'[u]
               PROVE  got'[u][k] <= sent' /\ (u \in Reading' => got'[u][k] < sent')
    BY DEF GotAnnounced
  <2>1. CASE u = t
    <3>1. k \in 1 .. Len(got[t]) \/ k = Len(got[t]) + 1
      BY <1>4, <2>1
    <3>2. sent \in Nat
      BY DEF FifoTypeOK
    <3>3. got'[t][k] <= sent
      <4>1. CASE k = Len(got[t]) + 1
        BY <1>4, <3>2, <4>1
      <4>2. CASE k \in 1 .. Len(got[t])
        <5>1. got[t][k] \in Nat
          BY <4>2 DEF FifoTypeOK
        <5> QED
          BY <1>4, <3>2, <4>2, <5>1
      <4> QED
        BY <3>1, <4>1, <4>2
    <3> QED
      BY <1>1, <1>2, <2>1, <3>3
  <2>2. CASE u # t
    BY <1>1, <1>2, <2>2 DEF GotAnnounced
  <2> QED
    BY <2>1, <2>2
<1>6. ChunksInOrder'
  <2> SUFFICES ASSUME NEW u \in Tasks, NEW k \in DOMAIN got'[u], NEW l \in DOMAIN got'[u],
                      k < l
               PROVE  got'[u][k] < got'[u][l]
    BY DEF ChunksInOrder
  <2>1. CASE u = t
    <3>1. k \in 1 .. Len(got[t]) /\ (l \in 1 .. Len(got[t]) \/ l = Len(got[t]) + 1)
      BY <1>4, <2>1
    <3>2. CASE l \in 1 .. Len(got[t])
      <4>1. got[t][k] < got[t][l]
        BY <1>4, <3>1, <3>2 DEF ChunksInOrder
      <4> QED
        BY <1>4, <2>1, <3>1, <3>2, <4>1
    <3>3. CASE l = Len(got[t]) + 1
      BY <1>4, <2>1, <3>1, <3>3
    <3> QED
      BY <3>1, <3>2, <3>3
  <2>2. CASE u # t
    BY <1>1, <2>2 DEF ChunksInOrder
  <2> QED
    BY <2>1, <2>2
<1> QED
  BY <1>5, <1>6

\* Every other step leaves the history alone, and lets a task read only when
\* the chunk announced last is unread.
LEMMA KeepsOrder ==
  ASSUME IInv, FifoTypeOK, GateWhileCopying, CopiedCells, ReadMeansUnread, GotAnnounced,
         ChunksInOrder, [FifoNext]_fifoVars
  PROVE  GotAnnounced' /\ ChunksInOrder'
<1>1. CASE \E t \in Tasks : Consume(t) /\ KernelStep
  BY <1>1, ConsumeReadsNew DEF KernelStep
<1>2. CASE KernelStep /\ UNCHANGED got
  <2>1. pc[Main] # "closed" /\ sent' = sent
    BY <1>2, KernelRuns DEF KernelStep, writerVars
  <2>2. Reading' \subseteq Reading \/ GateLeft
    <3>1. CASE MainStep
      <4>1. \A t \in Tasks : pc'[t] = "work" => pc[t] = "work"
        BY <3>1, MainStepFifo
      <4> QED
        BY <3>1, <4>1, MainStepFifo DEF Reading
    <3>2. ASSUME NEW t \in Tasks, BarrierStep(t) \/ Work(t) \/ Exit(t) \/ ExitStore(t)
          PROVE  Reading' \subseteq Reading \/ GateLeft
      BY <3>2, OtherTaskStep
    <3>3. ASSUME NEW t \in Tasks, FifoStep(t) \/ Finish(t)
          PROVE  Reading' \subseteq Reading
      <4>1. round' = round /\ opened' = opened
            /\ \A u \in Tasks : pc'[u] = "work" => pc[u] = "work"
        BY <3>3 DEF FifoStep, Finish, FifoLock, FifoFull, FifoAsk, FifoWait, FifoWaitStore,
           FifoRelock, FifoDone, Take, Restore, Goto, Threads, IInv, TypeOK
      <4> QED
        BY <4>1 DEF Reading
    <3> QED
      BY <1>2, <3>1, <3>2, <3>3 DEF KernelStep, KernelTask, Consume
  <2>3. GateLeft => Unread
    BY <2>1 DEF ReadMeansUnread, GatePassed
  <2> QED
    BY <1>2, <2>1, <2>2, <2>3 DEF GotAnnounced, ChunksInOrder, Unread
<1>3. CASE HostStep \/ WriterStep \/ UNCHANGED fifoVars
  <2>1. UNCHANGED <<deviceVars, got>>
    BY <1>3 DEF HostStep, HostWrite, HostLaunch, HostFifoLock, HostFifoRestore,
       HostFifoJoin, HostExitLock, HostExitRestore, HostGet, HostLock, HostRestore,
       WriterStep, WriterLock, WriterRestore, WriterCopy, WriterAnnounce, fifoVars, vars,
       deviceVars
  <2>2. sent' = sent \/ sent' = sent + 1
    BY <1>3 DEF HostStep, HostWrite, HostLaunch, HostFifoLock, HostFifoRestore,
       HostFifoJoin, HostExitLock, HostExitRestore, HostGet, HostLock, HostRestore,
       WriterStep, WriterLock, WriterRestore, WriterCopy, WriterAnnounce, fifoVars,
       writerVars
  <2>3. Reading' = Reading /\ got' = got
    BY <2>1 DEF deviceVars, Reading
  <2>4. \A t \in Tasks : \A k \in DOMAIN got[t] : got[t][k] \in Nat
    BY DEF FifoTypeOK
  <2>5. \A t \in Tasks : \A k \in DOMAIN got[t] :
          got[t][k] <= sent' /\ (t \in Reading => got[t][k] < sent')
    BY <2>2, <2>4 DEF GotAnnounced, FifoTypeOK
  <2> QED
    BY <2>3, <2>5 DEF GotAnnounced, ChunksInOrder
<1> QED
  BY <1>1, <1>2, <1>3 DEF FifoNext, KernelStep, KernelTask

\* The kernel spends a READ it finds before it lets anybody read.
LEMMA KernelSpendsRead ==
  ASSUME IInv, FifoTypeOK, ReadIsHeldAlone, ReadMeansUnread, KernelStep
  PROVE  ReadMeansUnread'
<1> USE GroupAssumption DEF Threads
<1>1. pc[Main] # "closed" /\ UNCHANGED <<wpc, wreg, sent>>
  BY KernelRuns DEF KernelStep, writerVars
<1>2. /\ ReadAround \/ GatePassed => Unread
      /\ Reading # {} \/ GateLeft => ~ ReadAround
  BY <1>1 DEF ReadMeansUnread
<1> USE <1>1, <1>2
<1>3. CASE MainStep /\ UNCHANGED got
  <2>1. NoReadTaken' = NoReadTaken /\ word'["fifo"] = word["fifo"]
    BY <1>3, MainStepFifo DEF NoReadTaken
  <2>2. GateLeft' = GateLeft /\ GatePassed' = GatePassed
    BY <1>3, MainStepFifo DEF GateLeft, GatePassed, PastGate, InReset, InOpen
  <2>3. Reading' = Reading
    BY <1>3, MainStepFifo DEF Reading
  <2> QED
    BY <1>3, <2>1, <2>2, <2>3 DEF ReadMeansUnread, ReadAround, Unread
<1>4. ASSUME NEW t \in Tasks, Consume(t)
      PROVE  ReadMeansUnread'
  <2>1. pc[t] = "work" /\ t \in Reading /\ Work(t)
    BY <1>4 DEF Consume, Work, Goto, Reading
  <2>2. \A u \in Tasks : pc[u] \notin Last
    BY <2>1, PassedIsAlone
  <2>3. ~ ReadAround'
    <3>1. NoReadTaken => NoReadTaken'
      BY <2>1, OtherTaskStep DEF NoReadTaken
    <3> QED
      BY <2>1, <3>1, OtherTaskStep DEF ReadAround
  <2>4. ~ GatePassed'
    BY <2>1, <2>2, OtherTaskStep DEF GatePassed, GateLeft, PastGate, Last, InFifo
  <2> QED
    BY <2>3, <2>4 DEF ReadMeansUnread
<1>5. ASSUME NEW t \in Tasks, BarrierStep(t) \/ Exit(t) \/ ExitStore(t), UNCHANGED got
      PROVE  ReadMeansUnread'
  <2>1. ReadAround' => ReadAround
    <3>1. NoReadTaken => NoReadTaken'
      BY <1>5, OtherTaskStep DEF NoReadTaken
    <3> QED
      BY <1>5, <3>1, OtherTaskStep DEF ReadAround
  <2>2. GatePassed' => GatePassed
    BY <1>5, OtherTaskStep DEF GatePassed, GateLeft
  <2>3. Reading' # {} \/ GateLeft' => Reading # {} \/ GateLeft
    BY <1>5, OtherTaskStep DEF GateLeft
  <2> QED
    BY <1>5, <2>1, <2>2, <2>3 DEF ReadMeansUnread, Unread
<1>6. ASSUME NEW t \in Tasks, FifoStep(t), UNCHANGED got
      PROVE  ReadMeansUnread'
  <2> USE <1>6 DEF Events, IInv, TypeOK, Take, Restore, Goto, Store, LOCK, READ, WRITE,
          END_FIFO_OPERATION
  <2>1. /\ pc[t] \in InFifo /\ pc'[t] \in Last
        /\ round' = round /\ opened' = opened
        /\ \A u \in Tasks \ {t} : pc'[u] = pc[u] /\ reg'[u] = reg[u]
    BY DEF FifoStep, FifoLock, FifoFull, FifoAsk, FifoWait, FifoWaitStore, FifoRelock,
       FifoDone, Last, InFifo, InReset
  <2>2. \A u \in Tasks \ {t} : pc[u] \in Waiting
    BY <2>1, PassedIsAlone DEF Last
  <2>3. Reading' = {}
    <3>1. Reading = {}
      BY <2>1, PassedIsAlone DEF Last
    <3> QED
      BY <2>1, <3>1 DEF Reading, Last, InFifo, InReset, InOpen
  <2>4. Unread' = Unread
    BY DEF Unread
  <2>5. CASE FifoLock(t) \/ FifoWait(t)
    <3>1. /\ pc[t] \in {"fifo", "fifoWait"} /\ pc'[t] \in {"fifoLocked", "fifoWaitStore"}
          /\ word'["fifo"] = LOCK /\ reg'[t] = word["fifo"]
      BY <2>5 DEF FifoLock, FifoWait
    <3>2. ~ GatePassed'
      BY <2>1, <2>2, <3>1 DEF GatePassed, GateLeft, PastGate, Waiting, InReset, InOpen
    <3>3. ReadAround' => ReadAround
      BY <2>1, <2>2, <3>1 DEF ReadAround, NoReadTaken, Waiting
    <3> QED
      BY <2>3, <2>4, <3>2, <3>3 DEF ReadMeansUnread, GatePassed
  <2>6. CASE FifoAsk(t)
    <3>1. pc'[t] = "fifoWait" /\ word'["fifo"] = WRITE
      BY <2>6 DEF FifoAsk
    <3>2. ~ GatePassed'
      BY <2>1, <2>2, <3>1 DEF GatePassed, GateLeft, PastGate, Waiting, InReset, InOpen
    <3>3. ReadAround' => ReadAround
      BY <2>1, <2>2, <3>1 DEF ReadAround, NoReadTaken, Waiting
    <3> QED
      BY <2>3, <2>4, <3>2, <3>3 DEF ReadMeansUnread, GatePassed
  <2>7. CASE FifoFull(t)
    <3>1. /\ pc[t] = "fifoLocked" /\ reg[t] = READ
          /\ word'["fifo"] = END_FIFO_OPERATION /\ pc'[t] = "reset"
      BY <2>7 DEF FifoFull
    <3>2. Unread /\ wpc # "store"
      BY <3>1 DEF ReadAround, NoReadTaken, ReadIsHeldAlone
    <3>3. ~ ReadAround'
      BY <2>1, <2>2, <3>1, <3>2 DEF ReadAround, NoReadTaken, Waiting
    <3> QED
      BY <2>4, <3>2, <3>3 DEF ReadMeansUnread
  <2>8. CASE FifoWaitStore(t)
    <3>1. /\ pc[t] = "fifoWaitStore" /\ word'["fifo"] = reg[t] /\ reg' = reg
          /\ pc'[t] = IF reg[t] = READ THEN "fifoRelock" ELSE "fifoWait"
      BY <2>8 DEF FifoWaitStore
    <3>2. ~ GateLeft'
      BY <2>1, <2>2, <3>1 DEF GateLeft, PastGate, Waiting, InReset, InOpen
    <3>3. GatePassed' => ReadAround
      BY <2>1, <2>2, <3>1 DEF GatePassed, GateLeft, PastGate, Waiting, InReset, InOpen,
         ReadAround, NoReadTaken
    <3>4. ReadAround' => ReadAround
      BY <2>1, <2>2, <3>1 DEF ReadAround, NoReadTaken, Waiting
    <3> QED
      BY <2>3, <2>4, <3>2, <3>3, <3>4 DEF ReadMeansUnread
  <2>9. CASE FifoRelock(t)
    <3>1. /\ pc[t] = "fifoRelock" /\ word["fifo"] # LOCK
          /\ word'["fifo"] = LOCK /\ pc'[t] = "fifoRelocked"
      BY <2>9 DEF FifoRelock
    <3>2. wpc # "store" /\ Unread
      BY <3>1 DEF ReadIsHeldAlone, GatePassed
    <3>3. ~ ReadAround'
      BY <2>1, <2>2, <3>1, <3>2 DEF ReadAround, NoReadTaken, Waiting
    <3> QED
      BY <2>4, <3>2, <3>3 DEF ReadMeansUnread
  <2>10. CASE FifoDone(t)
    <3>1. /\ pc[t] = "fifoRelocked" /\ word'["fifo"] = END_FIFO_OPERATION
          /\ pc'[t] = "reset"
      BY <2>10 DEF FifoDone
    <3>2. GateLeft
      BY <3>1 DEF GateLeft, PastGate
    <3>3. Unread /\ ~ ReadAround
      BY <3>2 DEF GatePassed
    <3>4. ~ ReadAround'
      BY <2>1, <2>2, <3>1, <3>3 DEF ReadAround, NoReadTaken, Waiting
    <3> QED
      BY <2>4, <3>3, <3>4 DEF ReadMeansUnread
  <2> QED
    BY <2>5, <2>6, <2>7, <2>8, <2>9, <2>10 DEF FifoStep
<1>7. ASSUME NEW t \in Tasks, Finish(t), UNCHANGED got
      PROVE  ReadMeansUnread'
  <2>1. /\ pc[t] = "finish" /\ pc' = [pc EXCEPT ![t] = "exit"]
        /\ UNCHANGED <<reg, round, opened>>
        /\ word'["fifo"] = END_FIFO_OPERATION
    BY <1>7 DEF Finish, Goto, Store, IInv, TypeOK, Events
  <2>2. ReadAround' => ReadAround
    BY <2>1 DEF ReadAround, NoReadTaken, IInv, TypeOK, END_FIFO_OPERATION, READ
  <2>3. GatePassed' = GatePassed /\ GateLeft' = GateLeft
    BY <2>1 DEF GatePassed, GateLeft, PastGate, InReset, InOpen, IInv, TypeOK
  <2>4. Reading' = Reading
    BY <2>1 DEF Reading, IInv, TypeOK
  <2> QED
    BY <1>7, <2>2, <2>3, <2>4 DEF ReadMeansUnread, Unread
<1> QED
  BY <1>3, <1>4, <1>5, <1>6, <1>7 DEF KernelStep, KernelTask

\* The host announces a chunk while the gate is shut, and it is a new one.
LEMMA KeepsReadUnread ==
  ASSUME IInv, FifoTypeOK, AfterKernel, GateWhileCopying, ReadIsHeldAlone,
         ReadMeansUnread, GotAnnounced, [FifoNext]_fifoVars
  PROVE  ReadMeansUnread'
<1>1. CASE HostStep \/ UNCHANGED fifoVars
  <2> SUFFICES ASSUME pc'[Main] # "closed"
               PROVE  ReadMeansUnread'
    BY DEF ReadMeansUnread
  <2>1. pc[Main] # "closed"
    BY <1>1 DEF HostStep, HostWrite, HostLaunch, HostFifoLock, HostFifoRestore, HostFifoJoin,
       HostExitLock, HostExitRestore, HostGet, HostLock, HostRestore, vars, deviceVars,
       fifoVars
  <2>2. /\ word'["fifo"] = word["fifo"] /\ UNCHANGED <<deviceVars, got, wreg, sent>>
        /\ wpc' = "store" => wpc = "store"
    BY <1>1, <2>1, HostLeavesFifo
  <2>3. /\ ReadAround' => ReadAround
        /\ Reading' = Reading /\ GateLeft' = GateLeft /\ GatePassed' = GatePassed
        /\ Unread' = Unread
    BY <2>2 DEF deviceVars, ReadAround, NoReadTaken, Reading, GateLeft, GatePassed, Unread
  <2> QED
    BY <2>1, <2>3 DEF ReadMeansUnread
<1>2. CASE WriterStep
  <2> SUFFICES ASSUME pc'[Main] # "closed"
               PROVE  ReadMeansUnread'
    BY DEF ReadMeansUnread
  <2>1. UNCHANGED <<deviceVars, got>>
    BY <1>2 DEF WriterStep, WriterLock, WriterRestore, WriterCopy, WriterAnnounce, vars,
       deviceVars
  <2>2. /\ pc[Main] # "closed" /\ NoReadTaken' = NoReadTaken
        /\ Reading' = Reading /\ GateLeft' = GateLeft /\ GatePassed' = GatePassed
    BY <2>1 DEF deviceVars, NoReadTaken, Reading, GateLeft, GatePassed
  <2>3. CASE WriterLock \/ WriterRestore \/ \E t \in Tasks : WriterCopy(t)
    <3>1. ReadAround' => ReadAround
      BY <2>2, <2>3 DEF ReadAround, WriterLock, WriterRestore, WriterCopy, Store, vars, IInv,
         TypeOK, Events, LOCK, READ
    <3>2. sent' = sent
      BY <2>3 DEF WriterLock, WriterRestore, WriterCopy
    <3>3. Unread' = Unread
      BY <2>1, <3>2 DEF Unread
    <3> QED
      BY <2>2, <3>1, <3>3 DEF ReadMeansUnread
  <2>4. CASE WriterAnnounce
    <3>1. wpc = "announce" /\ sent' = sent + 1
      BY <2>4 DEF WriterAnnounce
    <3>2. Reading = {} /\ ~ GatePassed
      BY <3>1, ShutGate DEF GateWhileCopying, MayCopy, Copying
    <3>3. Unread'
      <4>1. \A t \in Tasks : \A k \in DOMAIN got[t] : got[t][k] \in Nat
        BY DEF FifoTypeOK
      <4> QED
        BY <2>1, <3>1, <4>1 DEF Unread, GotAnnounced, FifoTypeOK
    <3> QED
      BY <2>2, <3>2, <3>3 DEF ReadMeansUnread, GatePassed
  <2> QED
    BY <1>2, <2>3, <2>4 DEF WriterStep
<1> QED
  BY <1>1, <1>2, KernelSpendsRead DEF FifoNext

-----------------------------------------------------------------------------
LEMMA FifoInitIInv == FifoInit => FifoIInv
<1> SUFFICES ASSUME FifoInit
             PROVE  FifoIInv
  OBVIOUS
<1> USE GroupAssumption DEF FifoInit, Init, Threads
<1>1. IInv /\ FifoTypeOK
  BY FifoInitType
<1>2. AfterKernel
  BY DEF AfterKernel
<1>3. \A t \in Tasks : pc[t] = "none" /\ round[t] = 0 /\ got[t] = <<>> /\ mem[t] = 0
  OBVIOUS
<1>4. GateWhileCopying
  BY <1>3 DEF GateWhileCopying, GateShut, NoReadTaken, Copying, InReset, InOpen
<1>5. CopiedCells
  BY <1>3 DEF CopiedCells
<1>6. OneReadPerRound /\ RoundReadsOneChunk
  BY <1>3 DEF OneReadPerRound, RoundReadsOneChunk
<1>7. SameForTheRest
  BY <1>3 DEF SameForTheRest, Reading
<1>8. ChunksInOrder /\ GotAnnounced /\ Unread
  BY <1>3 DEF ChunksInOrder, GotAnnounced, Unread
<1>9. ReadIsHeldAlone /\ ReadMeansUnread
  <2>1. NoReadTaken /\ Reading = {} /\ ~ GateLeft
    BY <1>3 DEF NoReadTaken, Reading, GateLeft, PastGate, InReset, InOpen
  <2>2. wpc # "store"
    OBVIOUS
  <2> QED
    BY <1>8, <2>1, <2>2 DEF ReadIsHeldAlone, ReadMeansUnread
<1> QED
  BY <1>1, <1>2, <1>4, <1>5, <1>6, <1>7, <1>8, <1>9 DEF FifoIInv

LEMMA FifoNextIInv ==
  ASSUME ~ FifoFirst
  PROVE  FifoIInv /\ [FifoNext]_fifoVars => FifoIInv'
<1> SUFFICES ASSUME FifoIInv, [FifoNext]_fifoVars
             PROVE  FifoIInv'
  OBVIOUS
<1> USE DEF FifoIInv
<1>1. IInv' /\ FifoTypeOK' /\ AfterKernel' /\ GateWhileCopying' /\ CopiedCells'
  BY FifoKeepsIInv, FifoKeepsType, KeepsAfterKernel, KeepsGate, KeepsCopiedCells
<1>2. NoCopyWhileReading
  BY GateHolds
<1>3. OneReadPerRound' /\ SameForTheRest' /\ RoundReadsOneChunk'
  <2>1. CASE KernelStep
    <3>1. UNCHANGED writerVars
      BY <2>1 DEF KernelStep
    <3>2. \/ \E t \in Tasks : Consume(t)
          \/ /\ UNCHANGED got
             /\ \/ MainStep
                \/ \E t \in Tasks :
                     BarrierStep(t) \/ FifoStep(t) \/ Finish(t) \/ Exit(t) \/ ExitStore(t)
      BY <2>1 DEF KernelStep, KernelTask
    <3> QED
      BY <1>2, <3>1, <3>2, ConsumeKeepsReads, OtherKeepsReads
  <2> QED
    BY <1>2, <2>1, HostKeepsReads DEF FifoNext
<1>4. ReadIsHeldAlone' /\ ReadMeansUnread' /\ GotAnnounced' /\ ChunksInOrder'
  BY KeepsReadHeld, KeepsReadUnread, KeepsOrder
<1> QED
  BY <1>1, <1>3, <1>4

\* The inductive invariant of the kernel-first order, which the theorems below
\* follow from.
THEOREM KernelFirstInvariance ==
  ASSUME ~ FifoFirst
  PROVE  FifoSpec => []FifoIInv
BY FifoInitIInv, FifoNextIInv, PTL DEF FifoSpec

\* A host that waits for the kernel before the FIFO copies a chunk only while
\* every task is held in mango_barrier.
THEOREM NoChunkIsOverwritten ==
  ASSUME ~ FifoFirst
  PROVE  FifoSpec => []NoCopyWhileReading
<1>1. FifoIInv => NoCopyWhileReading
  BY GateHolds DEF FifoIInv
<1> QED
  BY <1>1, KernelFirstInvariance, PTL

\* With such a host no round of the kernel sees two chunks.
THEOREM RoundsAreWhole ==
  ASSUME ~ FifoFirst
  PROVE  FifoSpec => []RoundReadsOneChunk
<1>1. FifoIInv => RoundReadsOneChunk
  BY DEF FifoIInv
<1> QED
  BY <1>1, KernelFirstInvariance, PTL

\* ... and no task reads a chunk twice, or an old one after a new one.
THEOREM ChunksComeInOrder ==
  ASSUME ~ FifoFirst
  PROVE  FifoSpec => []ChunksInOrder
<1>1. FifoIInv => ChunksInOrder
  BY DEF FifoIInv
<1> QED
  BY <1>1, KernelFirstInvariance, PTL

-----------------------------------------------------------------------------
\* The stream of chunks.

\* A chunk is announced when all tasks have read equally often.
LEMMA AnnouncesBetweenRounds ==
  ASSUME FifoIInv, WriterAnnounce
  PROVE  CS!Announce
<1>1. Reading = {}
  BY ShutGate DEF FifoIInv, GateWhileCopying, MayCopy, Copying, WriterAnnounce
<1>2. \A t \in Tasks : round[t] = opened
  BY <1>1 DEF Reading, FifoIInv, IInv, TypeOK, RoundSense
<1>3. \A t \in Tasks : Len(got[t]) = opened
  BY <1>1, <1>2 DEF Reading, FifoIInv, OneReadPerRound
<1> QED
  BY <1>3 DEF WriterAnnounce, CS!Announce

\* A task reads the chunk announced last, has not read it before, and no other
\* task has read less often.
LEMMA ConsumesFromStream ==
  ASSUME FifoIInv, NEW t \in Tasks, Consume(t), UNCHANGED writerVars
  PROVE  CS!Take(t)
<1> USE DEF FifoIInv
<1>1. pc[t] = "work" /\ got' = [got EXCEPT ![t] = Append(@, mem[t])] /\ sent' = sent
  BY DEF Consume, Work, Goto, writerVars
<1>2. opened \in Nat /\ \A u \in Tasks : round[u] \in Nat
  BY GroupAssumption DEF IInv, TypeOK
<1>2a. round[t] = opened
  BY <1>1, <1>2 DEF IInv, RoundSense, Waiting
<1>3. t \in Reading
  BY <1>1 DEF Reading
<1>4. mem[t] = sent
  <2>1. t \notin copied
    BY <1>3, ShutGate DEF CopiedCells, GateWhileCopying, MayCopy, Copying
  <2> QED
    BY <2>1 DEF CopiedCells
<1>5. \A k \in DOMAIN got[t] : got[t][k] < sent
  BY <1>3 DEF GotAnnounced
<1>6. \A u \in Tasks : Len(got[t]) <= Len(got[u])
  <2> TAKE u \in Tasks
  <2>1. Len(got[t]) = opened - 1
    BY <1>1, <1>2, <1>2a DEF OneReadPerRound
  <2>2. round[u] = opened \/ (round[u] + 1 = opened /\ pc[u] # "work")
    BY DEF IInv, RoundSense, Waiting
  <2> QED
    BY <1>2, <2>1, <2>2 DEF OneReadPerRound
<1> QED
  BY <1>1, <1>4, <1>5, <1>6 DEF CS!Take

LEMMA OthersLeaveStream ==
  ASSUME FifoIInv, FifoNext, ~ WriterAnnounce,
         \A t \in Tasks : ~ (Consume(t) /\ UNCHANGED writerVars)
  PROVE  UNCHANGED <<sent, got>>
<1>1. CASE KernelStep
  BY <1>1 DEF KernelStep, KernelTask, writerVars
<1>2. CASE WriterStep
  BY <1>2 DEF WriterStep, WriterLock, WriterRestore, WriterCopy
<1>3. CASE HostStep
  BY <1>3 DEF HostStep, HostWrite, HostLaunch, HostFifoLock, HostFifoRestore, HostFifoJoin,
     HostExitLock, HostExitRestore, HostGet, HostLock, HostRestore, writerVars
<1> QED
  BY <1>1, <1>2, <1>3 DEF FifoNext

\* With a host that waits for the kernel first, the cells, the event and the
\* threads implement module ChunkStream: all tasks read the same chunks, whole,
\* each newer than the last, however the host and the kernel interleave.
THEOREM StreamRefinement ==
  ASSUME ~ FifoFirst
  PROVE  FifoSpec => ImplementsChunkStream
<1>1. FifoInit => CS!StreamInit
  BY DEF FifoInit, CS!StreamInit
<1>2. FifoIInv /\ [FifoNext]_fifoVars => [CS!StreamNext]_(CS!streamVars)
  <2> SUFFICES ASSUME FifoIInv, [FifoNext]_fifoVars
               PROVE  CS!StreamNext \/ UNCHANGED <<sent, got>>
    BY DEF CS!streamVars
  <2>1. CASE WriterAnnounce
    BY <2>1, AnnouncesBetweenRounds DEF CS!StreamNext
  <2>2. CASE \E t \in Tasks : Consume(t) /\ UNCHANGED writerVars
    BY <2>2, ConsumesFromStream DEF CS!StreamNext
  <2>3. CASE UNCHANGED fifoVars
    BY <2>3 DEF fifoVars, writerVars
  <2> QED
    BY <2>1, <2>2, <2>3, OthersLeaveStream
<1> QED
  BY <1>1, <1>2, KernelFirstInvariance, PTL DEF FifoSpec, ImplementsChunkStream, CS!StreamSpec
=============================================================================
