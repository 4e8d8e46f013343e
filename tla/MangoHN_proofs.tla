--------------------------- MODULE MangoHN_proofs ---------------------------
(***************************************************************************)
(* For every group of tasks, every number of rounds, with and without a    *)
(* FIFO: the words of a work group implement a barrier and a join.         *)
(*                                                                         *)
(* IInv of MangoHNProps is shown inductive one family of steps at a time.  *)
(* Only three facts need more than the provers' set theory: a word that    *)
(* was held by one thread still is (LockTaken, LockReturned,               *)
(* LockUntouched), the sense of the release word alternates (SenseFacts),  *)
(* and the barrier counts a finite set (ArrivedFinite, LastOne).           *)
(***************************************************************************)
EXTENDS MangoHNProps, FiniteSetTheorems, TLAPS

\* The release word is READ or WRITE and each release flips it.
LEMMA SenseFacts ==
  ASSUME NEW k \in Nat
  PROVE  /\ Sense(k) \in {READ, WRITE}
         /\ Sense(k + 1) = IF Sense(k) = READ THEN WRITE ELSE READ
BY DEF Sense, READ, WRITE

\* The range given to mango_spawn is a number.
LEMMA NTasksType == NTasks \in Nat
BY GroupAssumption, FS_CardinalityType DEF NTasks

\* The barrier's count of arrivals is a number between 0 and NTasks.
LEMMA ArrivedFinite ==
  /\ IsFiniteSet(Arrived)
  /\ Cardinality(Arrived) \in 0 .. NTasks
<1>1. Arrived \in SUBSET Tasks
  BY DEF Arrived
<1>2. IsFiniteSet(Arrived) /\ Cardinality(Arrived) <= NTasks
  BY <1>1, GroupAssumption, FS_Subset DEF NTasks
<1> QED
  BY <1>2, FS_CardinalityType, NTasksType

\* Likewise the count of exits.
LEMMA DoneFinite ==
  /\ IsFiniteSet(Done)
  /\ Cardinality(Done) \in 0 .. NTasks
<1>1. Done \in SUBSET Tasks
  BY DEF Done
<1>2. IsFiniteSet(Done) /\ Cardinality(Done) <= NTasks
  BY <1>1, GroupAssumption, FS_Subset DEF NTasks
<1> QED
  BY <1>2, FS_CardinalityType, NTasksType

\* One more task in a set of tasks counts one more, and a set of NTasks
\* tasks is all of them.
LEMMA AddTask ==
  ASSUME NEW S \in SUBSET Tasks, NEW t \in Tasks, t \notin S
  PROVE  /\ Cardinality(S \cup {t}) = Cardinality(S) + 1
         /\ Cardinality(S) \in 0 .. NTasks - 1
         /\ Cardinality(S) = NTasks - 1 => S \cup {t} = Tasks
<1>1. IsFiniteSet(S) /\ IsFiniteSet(S \cup {t})
  BY GroupAssumption, FS_Subset
<1>2. Cardinality(S \cup {t}) = Cardinality(S) + 1
  BY <1>1, FS_AddElement
<1>3. /\ Cardinality(S \cup {t}) <= NTasks
      /\ Cardinality(S \cup {t}) = NTasks => S \cup {t} = Tasks
  BY GroupAssumption, FS_Subset DEF NTasks
<1>4. Cardinality(S) \in Nat
  BY <1>1, FS_CardinalityType
<1> QED
  BY <1>2, <1>3, <1>4, NTasksType

-----------------------------------------------------------------------------
\* Taking a word that nobody holds makes the taker its one holder.
LEMMA LockTaken ==
  ASSUME TypeOK, NEW e, WordHeldByOne(e), NEW p \in Threads, NEW to,
         pc' = [pc EXCEPT ![p] = to], to \in Holding(e),
         word[e] # LOCK, word'[e] = LOCK
  PROVE  WordHeldByOne(e)'
BY DEF WordHeldByOne, TypeOK

\* The holder that stores a value other than 0 leaves the word to nobody.
LEMMA LockReturned ==
  ASSUME TypeOK, NEW e, WordHeldByOne(e), NEW p \in Threads, NEW to,
         pc' = [pc EXCEPT ![p] = to], pc[p] \in Holding(e), to \notin Holding(e),
         word'[e] # LOCK
  PROVE  WordHeldByOne(e)'
BY DEF WordHeldByOne, TypeOK

\* A step of a thread that does not hold a word, and leaves it alone.
LEMMA LockUntouched ==
  ASSUME TypeOK, NEW e, WordHeldByOne(e), NEW p \in Threads, NEW to,
         pc' = [pc EXCEPT ![p] = to], pc[p] \notin Holding(e), to \notin Holding(e),
         word'[e] = word[e]
  PROVE  WordHeldByOne(e)'
BY DEF WordHeldByOne, TypeOK

-----------------------------------------------------------------------------
\* A mango_lock that succeeds.
LEMMA TakeKeeps ==
  ASSUME IInv, NEW t \in Tasks, TakeStep(t)
  PROVE  IInv'
<1> USE GroupAssumption, NTasksType DEF IInv, TakeStep, Take, Goto, Enter, Signal,
        Wait, FifoLock, FifoWait, FifoRelock, Reset, Open, Exit, Events, Threads,
        TaskStates, MainStates, InBarrier, AtBarrier, Last, InFifo, InReset, InOpen,
        Waiting, Leaving, LOCK, READ, WRITE
<1>1. TypeOK'
  BY DEF TypeOK
<1>2. LocksAreHeld'
  <2> SUFFICES ASSUME Spawned', NEW e \in GroupWords
               PROVE  WordHeldByOne(e)'
    BY DEF LocksAreHeld
  <2>1. WordHeldByOne(e)
    BY DEF LocksAreHeld, Spawned, TypeOK
  <2>2. PICK to : pc' = [pc EXCEPT ![t] = to]
    OBVIOUS
  <2>3. pc[t] \notin Holding(e)
    BY DEF GroupWords, Holding
  <2>4. \/ to \in Holding(e) /\ word[e] # LOCK /\ word'[e] = LOCK
        \/ to \notin Holding(e) /\ word'[e] = word[e]
    BY <2>2 DEF TypeOK, GroupWords, Holding
  <2> QED
    BY <2>1, <2>2, <2>3, <2>4, LockTaken, LockUntouched
<1>3. NotSpawned' /\ NoneBarrier' /\ CallsInRound'
  BY DEF TypeOK, NotSpawned, NoneBarrier, CallsInRound, Spawned
<1>4. ReleaseSense' /\ RoundSense'
  BY SenseFacts DEF TypeOK, ReleaseSense, RoundSense, Spawned, NotSpawned
<1>5. Arrived' = Arrived
  BY DEF TypeOK, Arrived
<1>6. BarrierCount'
  <2>1. pc[t] = "signal" => \A u \in Tasks : pc[u] \notin InOpen
    BY DEF LastIsAlone, Arrived
  <2>2. \A u \in Tasks : pc'[u] \in InOpen =>
          pc[u] \in InOpen \/ (u = t /\ pc[t] = "resetStore")
    BY DEF TypeOK
  <2>3. \A u \in Tasks : pc[u] \in InOpen => pc'[u] \in InOpen
    BY DEF TypeOK
  <2> QED
    BY <1>5, <2>1, <2>2, <2>3 DEF TypeOK, BarrierCount, Spawned, NotSpawned
<1>7. LastIsAlone'
  BY <1>5 DEF TypeOK, LastIsAlone
<1>8. Done' = Done
  BY DEF TypeOK, Done
<1>9. ExitCount' /\ JoinedAll'
  BY <1>8 DEF TypeOK, ExitCount, JoinedAll, Spawned, Holding, NotSpawned
<1> QED
  BY <1>1, <1>2, <1>3, <1>4, <1>6, <1>7, <1>9

\* go is computed and the release word given back unchanged.
LEMMA EnterStoreKeeps ==
  ASSUME IInv, NEW t \in Tasks, EnterStore(t)
  PROVE  IInv'
<1> USE GroupAssumption, NTasksType DEF IInv, EnterStore, Goto, Store, Events, Threads,
        TaskStates, MainStates, InBarrier, AtBarrier, Last, InFifo, InReset, InOpen,
        Waiting, Leaving, LOCK, READ, WRITE
<1>1. TypeOK'
  BY DEF TypeOK
<1>2. LocksAreHeld'
  <2> SUFFICES ASSUME Spawned', NEW e \in GroupWords
               PROVE  WordHeldByOne(e)'
    BY DEF LocksAreHeld
  <2>1. WordHeldByOne(e) /\ "signal" \notin Holding(e)
    BY DEF LocksAreHeld, Spawned, TypeOK, GroupWords, Holding
  <2>2. CASE e = "r"
    <3>1. word'[e] # LOCK /\ pc[t] \in Holding(e)
      BY <2>2, SenseFacts DEF TypeOK, ReleaseSense, Holding
    <3> QED
      BY <2>1, <3>1, LockReturned
  <2>3. CASE e # "r"
    <3>1. word'[e] = word[e] /\ pc[t] \notin Holding(e)
      BY <2>3 DEF TypeOK, GroupWords, Holding
    <3> QED
      BY <2>1, <3>1, LockUntouched
  <2> QED
    BY <2>2, <2>3
<1>3. NotSpawned' /\ NoneBarrier' /\ CallsInRound'
  BY DEF TypeOK, NotSpawned, NoneBarrier, CallsInRound, Spawned
<1>4. ReleaseSense' /\ RoundSense'
  BY SenseFacts DEF TypeOK, ReleaseSense, RoundSense, Spawned
<1>5. Arrived' = Arrived
  BY DEF TypeOK, Arrived
<1>6. BarrierCount' /\ LastIsAlone'
  BY <1>5 DEF TypeOK, BarrierCount, LastIsAlone, Spawned
<1>7. Done' = Done
  BY DEF TypeOK, Done
<1>8. ExitCount' /\ JoinedAll'
  BY <1>7 DEF TypeOK, ExitCount, JoinedAll, Spawned, Holding
<1> QED
  BY <1>1, <1>2, <1>3, <1>4, <1>6, <1>8

\* A task is counted: the step that decides who is last.
LEMMA SignalStoreKeeps ==
  ASSUME IInv, NEW t \in Tasks, SignalStore(t)
  PROVE  IInv'
<1> USE GroupAssumption, NTasksType DEF IInv, SignalStore, Goto, Store, Events, Threads,
        TaskStates, MainStates, InBarrier, AtBarrier, Last, InFifo, InReset, InOpen,
        Waiting, Leaving, LOCK, READ, WRITE
<1> DEFINE count == reg[t] - 1
<1>1. t \notin Arrived /\ Arrived \in SUBSET Tasks
  BY DEF Arrived
<1>2. /\ Cardinality(Arrived \cup {t}) = Cardinality(Arrived) + 1
      /\ Cardinality(Arrived) \in 0 .. NTasks - 1
      /\ Cardinality(Arrived) = NTasks - 1 => Arrived \cup {t} = Tasks
  BY <1>1, AddTask
<1>3. count = NTasks - Cardinality(Arrived) /\ count \in Nat \ {0}
  BY <1>2 DEF BarrierCount
<1>4. \/ count > 1 /\ AfterSignal(count) = "wait"
      \/ count = 1 /\ AfterSignal(count) \in {"fifo", "reset"}
  <2>1. LastTurn \in {"fifo", "reset"}
    BY DEF LastTurn
  <2>2. count \in Nat /\ (count > 1 \/ count = 1)
    BY <1>2, <1>3 DEF TypeOK
  <2> QED
    BY <2>1, <2>2 DEF AfterSignal, TypeOK
<1>5. TypeOK'
  BY <1>3, <1>4 DEF TypeOK
<1>6. LocksAreHeld'
  BY <1>3, <1>4, LockReturned, LockUntouched
     DEF TypeOK, LocksAreHeld, GroupWords, Holding, Spawned
<1>7. NotSpawned' /\ NoneBarrier' /\ CallsInRound'
  BY <1>4 DEF TypeOK, NotSpawned, NoneBarrier, CallsInRound, Spawned
<1>8. ReleaseSense' /\ RoundSense'
  BY <1>4, SenseFacts DEF TypeOK, ReleaseSense, RoundSense, Spawned
<1>9. Arrived' = Arrived \cup {t}
  BY <1>4 DEF TypeOK, Arrived, RoundSense
<1>10. \A u \in Tasks : pc[u] \notin Last
  BY <1>1 DEF LastIsAlone
<1>11. BarrierCount'
  <2>1. \A u \in Tasks : pc'[u] \notin InOpen
    BY <1>4, <1>10 DEF TypeOK
  <2>2. \A u \in Tasks : pc'[u] # "signalStore"
    <3>1. WordHeldByOne("b")
      BY DEF LocksAreHeld, GroupWords, NotSpawned
    <3> QED
      BY <1>4, <3>1 DEF TypeOK, WordHeldByOne, Holding
  <2>3. word'["b"] = NTasks + 1 - Cardinality(Arrived')
    BY <1>2, <1>3, <1>9 DEF TypeOK
  <2> QED
    BY <2>1, <2>2, <2>3 DEF BarrierCount
<1>12. LastIsAlone'
  BY <1>2, <1>3, <1>4, <1>9, <1>10 DEF TypeOK, LastIsAlone
<1>13. Done' = Done
  BY <1>4 DEF TypeOK, Done
<1>14. ExitCount' /\ JoinedAll'
  BY <1>4, <1>13 DEF TypeOK, ExitCount, JoinedAll, Spawned, Holding
<1> QED
  BY <1>5, <1>6, <1>7, <1>8, <1>11, <1>12, <1>14

\* A poll of the release word: the task leaves when the sense has changed.
LEMMA WaitStoreKeeps ==
  ASSUME IInv, NEW t \in Tasks, WaitStore(t)
  PROVE  IInv'
<1> USE GroupAssumption, NTasksType DEF IInv, WaitStore, Restore, Goto, Store, Events, Threads,
        TaskStates, MainStates, InBarrier, AtBarrier, Last, InFifo, InReset, InOpen,
        Waiting, Leaving, LOCK, READ, WRITE
<1>1. reg[t] = Sense(opened) /\ reg[t] \in {READ, WRITE}
  BY SenseFacts DEF TypeOK, ReleaseSense
<1>2. reg[t] = go[t] => round[t] + 1 = opened
  <2>1. Sense(opened) # Sense(opened + 1)
    BY <1>1, SenseFacts DEF TypeOK
  <2>2. \/ round[t] = opened /\ go[t] = Sense(opened + 1)
        \/ round[t] + 1 = opened
    BY DEF RoundSense
  <2> QED
    BY <1>1, <2>1, <2>2
<1>3. TypeOK'
  BY <1>1 DEF TypeOK, CallsInRound
<1>4. LocksAreHeld'
  <2> SUFFICES ASSUME Spawned', NEW e \in GroupWords
               PROVE  WordHeldByOne(e)'
    BY DEF LocksAreHeld
  <2>1. WordHeldByOne(e)
    BY DEF LocksAreHeld, Spawned, TypeOK
  <2>2. PICK to \in {"wait", "work"} : pc' = [pc EXCEPT ![t] = to]
    OBVIOUS
  <2>3. to \notin Holding(e)
    BY DEF GroupWords, Holding
  <2>4. CASE e = "r"
    <3>1. word'[e] # LOCK /\ pc[t] \in Holding(e)
      BY <1>1, <2>4 DEF TypeOK, Holding
    <3> QED
      BY <2>1, <2>2, <2>3, <3>1, LockReturned
  <2>5. CASE e # "r"
    <3>1. word'[e] = word[e] /\ pc[t] \notin Holding(e)
      BY <2>5 DEF TypeOK, GroupWords, Holding
    <3> QED
      BY <2>1, <2>2, <2>3, <3>1, LockUntouched
  <2> QED
    BY <2>4, <2>5
<1>5. NotSpawned' /\ NoneBarrier' /\ CallsInRound'
  BY DEF TypeOK, NotSpawned, NoneBarrier, CallsInRound, Spawned
<1>6. ReleaseSense' /\ RoundSense'
  BY <1>1, <1>2, SenseFacts DEF TypeOK, ReleaseSense, RoundSense, Spawned
<1>7. Arrived' = Arrived
  BY <1>2 DEF TypeOK, Arrived
<1>8. BarrierCount' /\ LastIsAlone'
  BY <1>7 DEF TypeOK, BarrierCount, LastIsAlone, Spawned
<1>9. Done' = Done
  BY DEF TypeOK, Done
<1>10. ExitCount' /\ JoinedAll'
  BY <1>9 DEF TypeOK, ExitCount, JoinedAll, Spawned, Holding
<1> QED
  BY <1>3, <1>4, <1>5, <1>6, <1>8, <1>10

\* What the last task does with the FIFO event concerns no other word.
FifoStore(t) == FifoFull(t) \/ FifoAsk(t) \/ FifoWaitStore(t) \/ FifoDone(t)

LEMMA FifoStoreKeeps ==
  ASSUME IInv, NEW t \in Tasks, FifoStore(t)
  PROVE  IInv'
<1> USE GroupAssumption, NTasksType DEF IInv, FifoStore, FifoFull, FifoAsk,
        FifoWaitStore, FifoDone, Restore, END_FIFO_OPERATION, Goto, Store, Events, Threads,
        TaskStates, MainStates, InBarrier, AtBarrier, Last, InFifo, InReset, InOpen,
        Waiting, Leaving, LOCK, READ, WRITE
<1>1. PICK to \in {"reset", "fifoWait", "fifoRelock"} : pc' = [pc EXCEPT ![t] = to]
  OBVIOUS
<1>2. /\ pc[t] \in {"fifoLocked", "fifoWaitStore", "fifoRelocked"}
      /\ \A e \in GroupWords : word'[e] = word[e]
  BY DEF TypeOK, GroupWords
<1>3. TypeOK'
  BY DEF TypeOK
<1>4. LocksAreHeld'
  <2> SUFFICES ASSUME Spawned', NEW e \in GroupWords
               PROVE  WordHeldByOne(e)'
    BY DEF LocksAreHeld
  <2>1. WordHeldByOne(e)
    BY DEF LocksAreHeld, Spawned, TypeOK
  <2>2. to \notin Holding(e) /\ pc[t] \notin Holding(e)
    BY <1>2 DEF GroupWords, Holding
  <2> QED
    BY <1>1, <1>2, <2>1, <2>2, LockUntouched
<1>5. NotSpawned' /\ NoneBarrier' /\ CallsInRound'
  BY DEF TypeOK, NotSpawned, NoneBarrier, CallsInRound, Spawned
<1>6. ReleaseSense' /\ RoundSense'
  BY SenseFacts DEF TypeOK, ReleaseSense, RoundSense, Spawned
<1>7. Arrived' = Arrived
  BY <1>1, <1>2 DEF TypeOK, Arrived
<1>8. BarrierCount' /\ LastIsAlone'
  BY <1>1, <1>2, <1>7 DEF TypeOK, BarrierCount, LastIsAlone, Spawned
<1>9. Done' = Done
  BY <1>1, <1>2 DEF TypeOK, Done
<1>10. ExitCount' /\ JoinedAll'
  BY <1>1, <1>2, <1>9 DEF TypeOK, ExitCount, JoinedAll, Spawned, Holding
<1> QED
  BY <1>3, <1>4, <1>5, <1>6, <1>8, <1>10

\* The barrier word is back at ntasks+1 before anyone is released.
LEMMA ResetStoreKeeps ==
  ASSUME IInv, NEW t \in Tasks, ResetStore(t)
  PROVE  IInv'
<1> USE GroupAssumption, NTasksType DEF IInv, ResetStore, Goto, Store, Events, Threads,
        TaskStates, MainStates, InBarrier, AtBarrier, Last, InFifo, InReset, InOpen,
        Waiting, Leaving, LOCK, READ, WRITE
<1>1. TypeOK'
  BY DEF TypeOK
<1>2. LocksAreHeld'
  <2> SUFFICES ASSUME Spawned', NEW e \in GroupWords
               PROVE  WordHeldByOne(e)'
    BY DEF LocksAreHeld
  <2>1. WordHeldByOne(e) /\ "open" \notin Holding(e)
    BY DEF LocksAreHeld, Spawned, TypeOK, GroupWords, Holding
  <2>2. CASE e = "b"
    <3>1. word'[e] # LOCK /\ pc[t] \in Holding(e)
      BY <2>2 DEF TypeOK, Holding
    <3> QED
      BY <2>1, <3>1, LockReturned
  <2>3. CASE e # "b"
    <3>1. word'[e] = word[e] /\ pc[t] \notin Holding(e)
      BY <2>3 DEF TypeOK, GroupWords, Holding
    <3> QED
      BY <2>1, <3>1, LockUntouched
  <2> QED
    BY <2>2, <2>3
<1>3. NotSpawned' /\ NoneBarrier' /\ CallsInRound'
  BY DEF TypeOK, NotSpawned, NoneBarrier, CallsInRound, Spawned
<1>4. ReleaseSense' /\ RoundSense'
  BY SenseFacts DEF TypeOK, ReleaseSense, RoundSense, Spawned
<1>5. Arrived' = Arrived
  BY DEF TypeOK, Arrived
<1>6. BarrierCount'
  <2>1. word'["b"] = NTasks + 1 /\ pc'[t] \in InOpen
    BY DEF TypeOK
  <2>2. \A u \in Tasks : pc'[u] # "signalStore"
    BY DEF TypeOK, LastIsAlone, Arrived
  <2> QED
    BY <2>1, <2>2 DEF BarrierCount
<1>7. LastIsAlone'
  BY <1>5 DEF TypeOK, LastIsAlone
<1>8. Done' = Done
  BY DEF TypeOK, Done
<1>9. ExitCount' /\ JoinedAll'
  BY <1>8 DEF TypeOK, ExitCount, JoinedAll, Spawned, Holding
<1> QED
  BY <1>1, <1>2, <1>3, <1>4, <1>6, <1>7, <1>9

\* The release: everybody else is in mango_wait, and the sense flips.
LEMMA OpenStoreKeeps ==
  ASSUME IInv, NEW t \in Tasks, OpenStore(t)
  PROVE  IInv'
<1> USE GroupAssumption, NTasksType DEF IInv, OpenStore, Goto, Store, Events, Threads,
        TaskStates, MainStates, InBarrier, AtBarrier, Last, InFifo, InReset, InOpen,
        Waiting, Leaving, LOCK, READ, WRITE
<1>1. /\ Arrived = Tasks
      /\ \A u \in Tasks : pc[u] \in Last => u = t
  BY DEF LastIsAlone
<1>2. \A u \in Tasks : round[u] = opened /\ pc[u] \in AtBarrier
  BY <1>1 DEF Arrived
<1>3. \A u \in Tasks : go[u] = Sense(opened + 1) /\ (u # t => pc[u] \in Waiting)
  BY <1>1, <1>2 DEF TypeOK, RoundSense
<1>4. go[t] \in {READ, WRITE}
  BY <1>3, SenseFacts DEF TypeOK
<1>5. WordHeldByOne("r")
  BY <1>2 DEF LocksAreHeld, NotSpawned, GroupWords
<1>6. \A u \in Tasks : u # t => pc[u] = "wait"
  BY <1>3, <1>5 DEF WordHeldByOne, Holding
<1>7. TypeOK'
  BY <1>2, <1>4 DEF TypeOK, CallsInRound
<1>8. LocksAreHeld'
  <2> SUFFICES ASSUME Spawned', NEW e \in GroupWords
               PROVE  WordHeldByOne(e)'
    BY DEF LocksAreHeld
  <2>1. WordHeldByOne(e) /\ "work" \notin Holding(e)
    BY DEF LocksAreHeld, Spawned, TypeOK, GroupWords, Holding
  <2>2. CASE e = "r"
    <3>1. word'[e] # LOCK /\ pc[t] \in Holding(e)
      BY <1>4, <2>2 DEF TypeOK, Holding
    <3> QED
      BY <2>1, <3>1, LockReturned
  <2>3. CASE e # "r"
    <3>1. word'[e] = word[e] /\ pc[t] \notin Holding(e)
      BY <2>3 DEF TypeOK, GroupWords, Holding
    <3> QED
      BY <2>1, <3>1, LockUntouched
  <2> QED
    BY <2>2, <2>3
<1>9. NotSpawned' /\ NoneBarrier' /\ CallsInRound'
  BY <1>2, <1>6 DEF TypeOK, NotSpawned, NoneBarrier, CallsInRound, Spawned
<1>10. \A u \in Tasks :
         \/ u = t /\ pc'[u] = "work" /\ round'[u] = opened'
         \/ u # t /\ pc'[u] = "wait" /\ round'[u] + 1 = opened' /\ go'[u] = Sense(opened')
  BY <1>2, <1>3, <1>6 DEF TypeOK
<1>11. ReleaseSense' /\ RoundSense'
  BY <1>3, <1>10 DEF TypeOK, ReleaseSense, RoundSense
<1>12. Arrived' = {}
  BY <1>10 DEF TypeOK, Arrived
<1>13. BarrierCount'
  <2>1. word["b"] # LOCK /\ word["b"] = NTasks + 1
    <3>1. WordHeldByOne("b")
      BY <1>2 DEF LocksAreHeld, NotSpawned, GroupWords
    <3>2. Spawned /\ word["b"] # LOCK
      BY <1>2, <1>6, <3>1 DEF TypeOK, WordHeldByOne, Holding, NotSpawned, Spawned
    <3> QED
      BY <3>2 DEF BarrierCount
  <2>2. Cardinality(Arrived') = 0
    BY <1>12, FS_EmptySet
  <2>3. \A u \in Tasks : pc'[u] \notin InOpen /\ pc'[u] # "signalStore"
    BY <1>10
  <2> QED
    BY <2>1, <2>2, <2>3 DEF TypeOK, BarrierCount
<1>14. LastIsAlone'
  BY <1>10 DEF LastIsAlone
<1>15. Done' = Done
  BY DEF TypeOK, Done
<1>16. ExitCount' /\ JoinedAll'
  BY <1>15 DEF TypeOK, ExitCount, JoinedAll, Spawned, Holding
<1> QED
  BY <1>7, <1>8, <1>9, <1>11, <1>13, <1>14, <1>16

\* The kernel's own code between barriers, and its blind store to the FIFO.
LEMMA WorkKeeps ==
  ASSUME IInv, NEW t \in Tasks, Work(t) \/ Finish(t)
  PROVE  IInv'
<1> USE GroupAssumption, NTasksType DEF IInv, Work, Finish, END_FIFO_OPERATION, Goto, Store, Events, Threads,
        TaskStates, MainStates, InBarrier, AtBarrier, Last, InFifo, InReset, InOpen,
        Waiting, Leaving, LOCK, READ, WRITE
<1>1. PICK to : pc' = [pc EXCEPT ![t] = to]
  OBVIOUS
<1>2. AfterLoop \in {"finish", "exit"}
  BY DEF AfterLoop
<1>3. /\ to \in {"enter", "finish", "exit"}
      /\ to = "enter" => round[t] < Rounds
      /\ to # "enter" => round[t] = Rounds
  BY <1>1, <1>2 DEF TypeOK, NextCall, CallsInRound
<1>4. /\ pc[t] \in {"work", "finish"}
      /\ \A e \in GroupWords : word'[e] = word[e]
  BY DEF TypeOK, GroupWords
<1>5. UNCHANGED <<reg, go, round, opened>>
  OBVIOUS
<1>6. TypeOK'
  BY <1>1, <1>3 DEF TypeOK
<1>7. LocksAreHeld'
  <2> SUFFICES ASSUME Spawned', NEW e \in GroupWords
               PROVE  WordHeldByOne(e)'
    BY DEF LocksAreHeld
  <2>1. WordHeldByOne(e)
    BY DEF LocksAreHeld, Spawned, TypeOK
  <2>2. to \notin Holding(e) /\ pc[t] \notin Holding(e)
    BY <1>3, <1>4 DEF GroupWords, Holding
  <2> QED
    BY <1>1, <1>4, <2>1, <2>2, LockUntouched
<1>8. NotSpawned' /\ NoneBarrier' /\ CallsInRound'
  BY <1>1, <1>3, <1>4, <1>5 DEF TypeOK, NotSpawned, NoneBarrier, CallsInRound, Spawned
<1>9. ReleaseSense' /\ RoundSense'
  BY <1>1, <1>3, <1>4, <1>5, SenseFacts
     DEF TypeOK, ReleaseSense, RoundSense, Spawned, GroupWords
<1>10. Arrived' = Arrived
  BY <1>1, <1>3, <1>4, <1>5 DEF TypeOK, Arrived
<1>11. BarrierCount' /\ LastIsAlone'
  BY <1>1, <1>3, <1>4, <1>5, <1>10
     DEF TypeOK, BarrierCount, LastIsAlone, Spawned, GroupWords
<1>12. Done' = Done
  BY <1>1, <1>3, <1>4 DEF TypeOK, Done
<1>13. ExitCount' /\ JoinedAll'
  BY <1>1, <1>3, <1>4, <1>5, <1>12
     DEF TypeOK, ExitCount, JoinedAll, Spawned, Holding, GroupWords
<1> QED
  BY <1>6, <1>7, <1>8, <1>9, <1>11, <1>13

\* A task signs off.
LEMMA ExitStoreKeeps ==
  ASSUME IInv, NEW t \in Tasks, ExitStore(t)
  PROVE  IInv'
<1> USE GroupAssumption, NTasksType DEF IInv, ExitStore, Goto, Store, Events, Threads,
        TaskStates, MainStates, InBarrier, AtBarrier, Last, InFifo, InReset, InOpen,
        Waiting, Leaving, LOCK, READ, WRITE
<1>1. t \notin Done /\ Done \in SUBSET Tasks
  BY DEF Done
<1>2. /\ Cardinality(Done \cup {t}) = Cardinality(Done) + 1
      /\ Cardinality(Done) \in 0 .. NTasks - 1
  BY <1>1, AddTask
<1>3. reg[t] - 1 = NTasks - Cardinality(Done) /\ reg[t] - 1 \in Nat /\ reg[t] - 1 # 0
  BY <1>2 DEF ExitCount, Holding, TypeOK
<1>4. TypeOK'
  BY <1>3 DEF TypeOK
<1>5. LocksAreHeld'
  <2> SUFFICES ASSUME Spawned', NEW e \in GroupWords
               PROVE  WordHeldByOne(e)'
    BY DEF LocksAreHeld
  <2>1. WordHeldByOne(e) /\ "done" \notin Holding(e)
    BY DEF LocksAreHeld, Spawned, TypeOK, GroupWords, Holding
  <2>2. CASE e = "a"
    <3>1. word'[e] # LOCK /\ pc[t] \in Holding(e)
      BY <1>3, <2>2 DEF TypeOK, Holding
    <3> QED
      BY <2>1, <3>1, LockReturned
  <2>3. CASE e # "a"
    <3>1. word'[e] = word[e] /\ pc[t] \notin Holding(e)
      BY <2>3 DEF TypeOK, GroupWords, Holding
    <3> QED
      BY <2>1, <3>1, LockUntouched
  <2> QED
    BY <2>2, <2>3
<1>6. NotSpawned' /\ NoneBarrier' /\ CallsInRound'
  BY DEF TypeOK, NotSpawned, NoneBarrier, CallsInRound, Spawned
<1>7. ReleaseSense' /\ RoundSense'
  BY SenseFacts DEF TypeOK, ReleaseSense, RoundSense, Spawned
<1>8. Arrived' = Arrived
  BY DEF TypeOK, Arrived
<1>9. BarrierCount' /\ LastIsAlone'
  BY <1>8 DEF TypeOK, BarrierCount, LastIsAlone, Spawned
<1>10. Done' = Done \cup {t}
  BY DEF TypeOK, Done
<1>11. \A p \in Threads : pc'[p] \notin Holding("a")
  <2>1. WordHeldByOne("a")
    BY DEF LocksAreHeld, GroupWords, NotSpawned
  <2> QED
    BY <2>1 DEF TypeOK, WordHeldByOne, Holding
<1>12. ExitCount' /\ JoinedAll'
  BY <1>1, <1>2, <1>3, <1>10, <1>11 DEF TypeOK, ExitCount, JoinedAll, Done
<1> QED
  BY <1>4, <1>5, <1>6, <1>7, <1>9, <1>12

-----------------------------------------------------------------------------
\* The main thread sets the words up before there is any task.
LEMMA SpawnKeeps ==
  ASSUME IInv, Spawn
  PROVE  IInv'
<1> USE GroupAssumption, NTasksType DEF IInv, Spawn, Goto, Store, Events, Threads,
        TaskStates, MainStates, InBarrier, AtBarrier, Last, InFifo, InReset, InOpen,
        Waiting, Leaving, LOCK, READ, WRITE
<1>1. opened = 0 /\ \A t \in Tasks : pc[t] = "none" /\ round[t] = 0
  BY DEF NotSpawned, Spawned
<1>2. PICK to \in {"join", "create"} : pc' = [pc EXCEPT ![Main] = to]
  OBVIOUS
<1>3. /\ word'["a"] = NTasks + 1 /\ word'["b"] = NTasks + 1 /\ word'["r"] = WRITE
      /\ UNCHANGED <<reg, go, round, opened>>
  BY DEF TypeOK
<1>4. TypeOK'
  BY <1>2 DEF TypeOK
<1>5. \A p \in Threads : pc'[p] \in {"none", "join", "create"}
  BY <1>1, <1>2 DEF TypeOK
<1>6. LocksAreHeld'
  <2> SUFFICES ASSUME Spawned', NEW e \in GroupWords
               PROVE  WordHeldByOne(e)'
    BY DEF LocksAreHeld
  <2>1. word'[e] # LOCK /\ \A p \in Threads : pc'[p] \notin Holding(e)
    BY <1>3, <1>5 DEF GroupWords, Holding
  <2> QED
    BY <2>1 DEF WordHeldByOne
<1>7. NotSpawned' /\ NoneBarrier' /\ CallsInRound'
  BY <1>1, <1>2, <1>3, <1>5 DEF TypeOK, NotSpawned, NoneBarrier, CallsInRound, Spawned
<1>8. ReleaseSense' /\ RoundSense'
  <2>1. \A t \in Tasks : pc'[t] = "none" /\ round'[t] = opened'
    BY <1>1, <1>2, <1>3 DEF TypeOK
  <2>2. word'["r"] = Sense(opened')
    BY <1>1, <1>3 DEF Sense
  <2> QED
    BY <2>1, <2>2 DEF ReleaseSense, RoundSense
<1>9. Arrived' = {} /\ Done' = {}
  BY <1>5 DEF Arrived, Done
<1>10. Cardinality(Arrived') = 0 /\ Cardinality(Done') = 0
  BY <1>9, FS_EmptySet
<1>11. BarrierCount' /\ LastIsAlone'
  BY <1>3, <1>5, <1>10 DEF BarrierCount, LastIsAlone
<1>12. ExitCount' /\ JoinedAll'
  BY <1>2, <1>3, <1>5, <1>10 DEF TypeOK, ExitCount, JoinedAll, Holding
<1> QED
  BY <1>4, <1>6, <1>7, <1>8, <1>11, <1>12

\* A new task starts at its first call.
LEMMA CreateKeeps ==
  ASSUME IInv, NEW t \in Tasks, Create(t)
  PROVE  IInv'
<1> USE GroupAssumption, NTasksType DEF IInv, Create, Goto, Store, Events, Threads,
        TaskStates, MainStates, InBarrier, AtBarrier, Last, InFifo, InReset, InOpen,
        Waiting, Leaving, LOCK, READ, WRITE
<1>1. AfterLoop \in {"finish", "exit"}
  BY DEF AfterLoop
<1>2. /\ NextCall(0) \in {"enter", "finish", "exit"}
      /\ NextCall(0) = "enter" => 0 < Rounds
      /\ NextCall(0) # "enter" => 0 = Rounds
  BY <1>1 DEF NextCall
<1>3. PICK to \in {"join", "create"} :
        pc' = [pc EXCEPT ![t] = NextCall(0), ![Main] = to]
  OBVIOUS
<1>4. round[t] = 0 /\ opened = 0
  BY DEF NoneBarrier
<1>5. TypeOK'
  BY <1>2, <1>3 DEF TypeOK
<1>6. \A p \in Threads :
        \/ p \in {t, Main} /\ pc[p] \in {"none", "create"}
             /\ pc'[p] \in {"enter", "finish", "exit", "join", "create"}
        \/ p \notin {t, Main} /\ pc'[p] = pc[p]
  BY <1>2, <1>3 DEF TypeOK
<1>7. LocksAreHeld'
  <2> SUFFICES ASSUME Spawned', NEW e \in GroupWords
               PROVE  WordHeldByOne(e)'
    BY DEF LocksAreHeld
  <2>1. WordHeldByOne(e)
    BY DEF LocksAreHeld, Spawned, GroupWords
  <2>2. \A x \in {"none", "create", "enter", "finish", "exit", "join"} : x \notin Holding(e)
    BY DEF GroupWords, Holding
  <2>3. \A p \in Threads : pc'[p] \in Holding(e) <=> pc[p] \in Holding(e)
    BY <1>6, <2>2
  <2> QED
    BY <2>1, <2>3 DEF WordHeldByOne, GroupWords
<1>8. NotSpawned' /\ NoneBarrier' /\ CallsInRound'
  BY <1>2, <1>3, <1>4 DEF TypeOK, NotSpawned, NoneBarrier, CallsInRound, Spawned
<1>9. ReleaseSense' /\ RoundSense'
  BY <1>2, <1>3, <1>4 DEF TypeOK, ReleaseSense, RoundSense, Spawned
<1>10. Arrived' = Arrived
  BY <1>2, <1>3 DEF TypeOK, Arrived
<1>11. BarrierCount' /\ LastIsAlone'
  BY <1>2, <1>3, <1>10 DEF TypeOK, BarrierCount, LastIsAlone, Spawned
<1>12. Done' = Done
  BY <1>2, <1>3 DEF TypeOK, Done
<1>13. ExitCount' /\ JoinedAll'
  BY <1>2, <1>3, <1>6, <1>12 DEF TypeOK, ExitCount, JoinedAll, Spawned, Holding
<1> QED
  BY <1>5, <1>7, <1>8, <1>9, <1>11, <1>13

\* mango_join polls event_a; it returns when the count is down to READ.
JoinOrClose == JoinLock \/ JoinStore \/ Close

LEMMA JoinKeeps ==
  ASSUME IInv, JoinOrClose
  PROVE  IInv'
<1> USE GroupAssumption, NTasksType DEF IInv, JoinOrClose, JoinLock,
        JoinStore, Close, Take, Restore, Goto, Store, Events, Threads,
        TaskStates, MainStates, InBarrier, AtBarrier, Last, InFifo, InReset, InOpen,
        Waiting, Leaving, LOCK, READ, WRITE
<1>1. PICK to \in {"join", "joinStore", "close", "closed"} : pc' = [pc EXCEPT ![Main] = to]
  OBVIOUS
<1>2. pc[Main] = "joinStore" => reg[Main] = NTasks + 1 - Cardinality(Done)
  BY DEF ExitCount, Holding
<1>3. pc[Main] = "joinStore" => reg[Main] \in Nat \ {0}
  BY <1>2, DoneFinite DEF TypeOK
<1>4. /\ Spawned /\ Spawned'
      /\ word'["b"] = word["b"] /\ word'["r"] = word["r"]
      /\ UNCHANGED <<go, round, opened>>
      /\ \A t \in Tasks : pc'[t] = pc[t] /\ reg'[t] = reg[t]
  BY <1>1 DEF TypeOK, Spawned
<1>5. TypeOK'
  BY DEF TypeOK
<1>6. LocksAreHeld'
  <2> SUFFICES ASSUME Spawned', NEW e \in GroupWords
               PROVE  WordHeldByOne(e)'
    BY DEF LocksAreHeld
  <2>1. WordHeldByOne(e)
    BY <1>4 DEF LocksAreHeld
  <2>2. CASE e = "a" /\ JoinLock
    <3>1. /\ pc' = [pc EXCEPT ![Main] = "joinStore"]
          /\ word[e] # LOCK /\ word'[e] = LOCK /\ "joinStore" \in Holding(e)
      BY <2>2 DEF TypeOK, Holding
    <3> QED
      BY <2>1, <3>1, LockTaken
  <2>3. CASE e = "a" /\ JoinStore
    <3>1. word'[e] # LOCK /\ pc[Main] \in Holding(e)
      BY <1>3, <2>3 DEF TypeOK, Holding
    <3>2. to \in {"join", "close"}
      BY <1>1, <2>3 DEF TypeOK
    <3>3. to \notin Holding(e)
      BY <2>3, <3>2 DEF Holding
    <3> QED
      BY <1>1, <2>1, <3>1, <3>3, LockReturned
  <2>4. CASE e # "a" \/ Close
    <3>1. word'[e] = word[e] /\ pc[Main] \notin Holding(e) /\ to \notin Holding(e)
      BY <1>1, <2>4 DEF TypeOK, GroupWords, Holding
    <3> QED
      BY <1>1, <2>1, <3>1, LockUntouched
  <2> QED
    BY <2>2, <2>3, <2>4
<1>7. NotSpawned' /\ NoneBarrier' /\ CallsInRound'
  BY <1>4 DEF NotSpawned, NoneBarrier, CallsInRound
<1>8. ReleaseSense' /\ RoundSense'
  BY <1>4 DEF ReleaseSense, RoundSense
<1>9. Arrived' = Arrived /\ Done' = Done
  BY <1>4 DEF Arrived, Done
<1>10. BarrierCount' /\ LastIsAlone'
  BY <1>4, <1>9 DEF BarrierCount, LastIsAlone
<1>11. ExitCount'
  BY <1>1, <1>2, <1>4, <1>9 DEF TypeOK, ExitCount, Holding
<1>12. JoinedAll'
  <2>1. pc[Main] = "joinStore" /\ reg[Main] = READ => Done = Tasks
    <3>1. Done \in SUBSET Tasks
      BY DEF Done
    <3>2. Cardinality(Done) = NTasks => Done = Tasks
      BY <3>1, FS_Subset DEF NTasks
    <3> QED
      BY <1>2, <3>2, DoneFinite
  <2> QED
    BY <1>1, <1>9, <2>1 DEF TypeOK, JoinedAll
<1> QED
  BY <1>5, <1>6, <1>7, <1>8, <1>10, <1>11, <1>12

-----------------------------------------------------------------------------
\* Nothing has happened yet.
LEMMA InitIInv == Init => IInv
<1> SUFFICES ASSUME Init
             PROVE  IInv
  OBVIOUS
<1> USE GroupAssumption DEF Init, Events, Threads, LOCK, READ, WRITE
<1>1. TypeOK
  BY DEF TypeOK, TaskStates, MainStates
<1>2. Spawned = FALSE
  BY DEF Spawned
<1>3. \A p \in Threads : pc[p] \in {"none", "spawn"}
  OBVIOUS
<1>4. \A t \in Tasks : pc[t] = "none" /\ round[t] = 0 /\ opened = 0
  OBVIOUS
<1>5. LocksAreHeld /\ NotSpawned /\ NoneBarrier
  BY <1>2, <1>4 DEF LocksAreHeld, NotSpawned, NoneBarrier
<1>6. ReleaseSense /\ RoundSense
  BY <1>2, <1>4 DEF ReleaseSense, RoundSense, Waiting, AtBarrier, Last, InFifo, InReset,
     InOpen
<1>7. CallsInRound /\ LastIsAlone /\ BarrierCount
  BY <1>2, <1>4 DEF CallsInRound, LastIsAlone, BarrierCount, InBarrier, AtBarrier, Waiting,
     Last, InFifo, InReset, InOpen, Leaving
<1>8. ExitCount /\ JoinedAll
  BY <1>2, <1>3 DEF ExitCount, JoinedAll, Holding
<1> QED
  BY <1>1, <1>5, <1>6, <1>7, <1>8 DEF IInv

\* The host stores only in words the work group does not use.
LEMMA OtherWord ==
  ASSUME IInv, NEW e \in {"fifo", "exit"}, NEW v \in Nat, Store(e, v),
         UNCHANGED <<pc, reg, go, round, opened>>
  PROVE  IInv'
<1> USE DEF IInv, Store, Events
<1>1. /\ word'["a"] = word["a"] /\ word'["b"] = word["b"] /\ word'["r"] = word["r"]
      /\ Arrived' = Arrived /\ Done' = Done /\ Spawned' = Spawned
  BY DEF TypeOK, Arrived, Done, Spawned
<1>2. TypeOK'
  BY DEF TypeOK
<1>3. LocksAreHeld'
  BY <1>1 DEF LocksAreHeld, GroupWords, WordHeldByOne
<1>4. NotSpawned' /\ NoneBarrier' /\ CallsInRound' /\ RoundSense' /\ JoinedAll'
  BY <1>1 DEF NotSpawned, NoneBarrier, CallsInRound, RoundSense, JoinedAll
<1>5. ReleaseSense' /\ BarrierCount' /\ ExitCount'
  BY <1>1 DEF ReleaseSense, BarrierCount, ExitCount
<1>6. LastIsAlone'
  BY <1>1 DEF LastIsAlone
<1> QED
  BY <1>2, <1>3, <1>4, <1>5, <1>6

\* Every step of the kernel process, and of the host, keeps the invariant.
LEMMA NextIInv == IInv /\ [Next]_vars => IInv'
<1> SUFFICES ASSUME IInv, [Next]_vars
             PROVE  IInv'
  OBVIOUS
<1>1. CASE MainStep
  BY <1>1, SpawnKeeps, CreateKeeps, JoinKeeps DEF MainStep, JoinOrClose
<1>2. ASSUME NEW t \in Tasks, TaskStep(t)
      PROVE  IInv'
  <2>1. \/ TakeStep(t) \/ EnterStore(t) \/ SignalStore(t) \/ WaitStore(t)
        \/ FifoStore(t) \/ ResetStore(t) \/ OpenStore(t) \/ Work(t) \/ Finish(t)
        \/ ExitStore(t)
    BY <1>2 DEF TaskStep, BarrierStep, FifoStep, TakeStep, FifoStore
  <2> QED
    BY <2>1, TakeKeeps, EnterStoreKeeps, SignalStoreKeeps, WaitStoreKeeps,
       FifoStoreKeeps, ResetStoreKeeps, OpenStoreKeeps, WorkKeeps, ExitStoreKeeps
<1>3. CASE UNCHANGED vars
  BY <1>3 DEF vars, IInv, TypeOK, LocksAreHeld, WordHeldByOne, NotSpawned, NoneBarrier,
     ReleaseSense, RoundSense, CallsInRound, BarrierCount, LastIsAlone, ExitCount,
     JoinedAll, Spawned, Arrived, Done
<1>4. ASSUME NEW e \in {"fifo", "exit"}, NEW v \in HostStatus(e), HostStore(e, v)
      PROVE  IInv'
  <2>1. v \in Nat
    BY DEF HostStatus, LOCK, READ, WRITE, END_FIFO_OPERATION
  <2> QED
    BY <1>4, <2>1, OtherWord DEF HostStore
<1> QED
  BY <1>1, <1>2, <1>3, <1>4 DEF Next

\* The inductive invariant of the device side holds for every group.
THEOREM Invariance == Spec => []IInv
BY InitIInv, NextIInv, PTL DEF Spec

\* mango_barrier is a barrier: whoever is one barrier ahead sees the others
\* still waiting in it, and nobody is ever two ahead.
THEOREM BarrierIsSafe == Spec => []BarrierSafety
<1>1. IInv => BarrierSafety
  BY DEF IInv, TypeOK, RoundSense, BarrierSafety
<1> QED
  BY <1>1, Invariance, PTL

\* The last task's unconditional store to the barrier word is safe.
THEOREM ResetIsSafe == Spec => []ResetLosesNoArrival
<1>1. IInv => ResetLosesNoArrival
  <2> SUFFICES ASSUME IInv, NEW t \in Tasks, NEW u \in Tasks, pc[t] \in Last, t # u
               PROVE  pc[u] \in Waiting /\ round[u] = round[t]
    BY DEF ResetLosesNoArrival
  <2>1. Arrived = Tasks /\ pc[u] \notin Last
    BY DEF IInv, LastIsAlone
  <2> QED
    BY <2>1 DEF Arrived, AtBarrier
<1> QED
  BY <1>1, Invariance, PTL

\* mango_join returns only when every task has finished.
THEOREM JoinIsSafe == Spec => []JoinWaitsForAll
<1>1. IInv => JoinWaitsForAll
  BY DEF IInv, JoinedAll, Done, CallsInRound, Leaving, JoinWaitsForAll
<1> QED
  BY <1>1, Invariance, PTL

-----------------------------------------------------------------------------
(***************************************************************************)
(* The refinement of WorkGroup.  A task arrives when it has decremented    *)
(* the barrier word and leaves when mango_barrier returns; every other     *)
(* step but the last one of the kernel process stutters.                   *)
(***************************************************************************)
Inside == [t \in Tasks |-> pc[t] \in AtBarrier]

\* A step that leaves the group's state alone.
LEMMA Stutter ==
  ASSUME UNCHANGED round,
         \A t \in Tasks : pc'[t] \in AtBarrier <=> pc[t] \in AtBarrier,
         pc'[Main] = "closed" <=> pc[Main] = "closed"
  PROVE  UNCHANGED WG!groupVars
<1>1. Inside' = Inside
  BY DEF Inside
<1> QED
  BY <1>1 DEF WG!groupVars, Inside

\* A task that is counted arrives.
LEMMA SignalStoreArrives ==
  ASSUME IInv, NEW t \in Tasks, SignalStore(t)
  PROVE  WG!Arrive(t)
<1> USE GroupAssumption DEF Threads
<1>1. round[t] < Rounds /\ pc[t] \notin AtBarrier
  BY DEF IInv, CallsInRound, SignalStore, Goto, InBarrier, AtBarrier, Waiting, Last, InFifo,
     InReset, InOpen
<1>2. AfterSignal(reg[t] - 1) \in AtBarrier
  <2>1. LastTurn \in AtBarrier
    BY DEF LastTurn, AtBarrier, Last, InFifo, InReset
  <2> QED
    BY <2>1 DEF AfterSignal, AtBarrier, Waiting
<1>3. /\ pc'[t] \in AtBarrier
      /\ \A p \in Threads : p # t => pc'[p] = pc[p]
      /\ round' = round
  BY <1>2 DEF IInv, TypeOK, SignalStore, Goto
<1>4. Inside' = [Inside EXCEPT ![t] = TRUE]
  BY <1>3 DEF Inside
<1> QED
  BY <1>1, <1>3, <1>4 DEF WG!Arrive, Inside

\* A task whose mango_barrier returns leaves, and may.
LEMMA ReturnLeaves ==
  ASSUME IInv, NEW t \in Tasks,
         pc[t] \in AtBarrier, pc' = [pc EXCEPT ![t] = "work"],
         round' = [round EXCEPT ![t] = @ + 1],
         \A u \in Tasks : WG!Reached(u, t)
  PROVE  WG!Leave(t)
<1> USE GroupAssumption DEF Threads
<1>1. "work" \notin AtBarrier
  BY DEF AtBarrier, Waiting, Last, InFifo, InReset, InOpen
<1>2. Inside' = [Inside EXCEPT ![t] = FALSE] /\ pc'[Main] = pc[Main]
  <2>1. /\ pc'[t] \notin AtBarrier
        /\ \A p \in Threads : p # t => pc'[p] = pc[p]
    BY <1>1 DEF IInv, TypeOK
  <2>2. Inside'[t] = (pc'[t] \in AtBarrier) /\ (pc'[t] \in AtBarrier) = FALSE
    BY <2>1 DEF Inside
  <2>3. Inside'[t] = FALSE
    BY <2>2
  <2>4. \A u \in Tasks : u # t => Inside'[u] = Inside[u]
    BY <2>1 DEF Inside
  <2>5. /\ Inside = [u \in Tasks |-> Inside[u]]
        /\ Inside' = [u \in Tasks |-> Inside'[u]]
    BY DEF Inside
  <2> QED
    BY <2>1, <2>3, <2>4, <2>5
<1> QED
  BY <1>2 DEF WG!Leave, Inside

LEMMA WaitStoreLeaves ==
  ASSUME IInv, NEW t \in Tasks, WaitStore(t)
  PROVE  WG!Leave(t) \/ UNCHANGED WG!groupVars
<1> USE GroupAssumption DEF Threads
<1>1. CASE reg[t] = go[t]
  <2>1. /\ pc[t] \in AtBarrier /\ pc' = [pc EXCEPT ![t] = "work"]
        /\ round' = [round EXCEPT ![t] = @ + 1]
    BY <1>1 DEF IInv, TypeOK, WaitStore, Restore, Goto, AtBarrier, Waiting
  <2>2. round[t] + 1 = opened
    <3>1. reg[t] = Sense(opened) /\ Sense(opened) # Sense(opened + 1)
      BY SenseFacts DEF IInv, TypeOK, ReleaseSense, WaitStore, Restore, Goto, READ, WRITE
    <3> QED
      BY <1>1, <2>1, <3>1 DEF IInv, RoundSense
  <2>3. \A u \in Tasks :
          \/ round[u] = opened
          \/ round[u] = round[t] /\ pc[u] \in AtBarrier
    <3> SUFFICES ASSUME NEW u \in Tasks
                 PROVE  \/ round[u] = opened
                        \/ round[u] = round[t] /\ pc[u] \in AtBarrier
      OBVIOUS
    <3>1. round[u] \in Nat /\ round[t] \in Nat
      BY GroupAssumption DEF IInv, TypeOK
    <3>2. \/ round[u] = opened
          \/ round[u] + 1 = opened /\ pc[u] \in AtBarrier
      BY DEF IInv, RoundSense, AtBarrier
    <3> QED
      BY <2>2, <3>1, <3>2
  <2>4. \A u \in Tasks : WG!Reached(u, t)
    <3>1. round[t] \in Nat /\ opened > round[t]
      BY <2>2, GroupAssumption DEF IInv, TypeOK
    <3> QED
      BY <2>3, <3>1 DEF WG!Reached
  <2> QED
    BY <2>1, <2>4, ReturnLeaves
<1>2. CASE reg[t] # go[t]
  <2>1. pc' = [pc EXCEPT ![t] = "wait"] /\ pc[t] = "waitStore" /\ round' = round
    BY <1>2 DEF IInv, TypeOK, WaitStore, Restore, Goto
  <2> QED
    BY <2>1, Stutter DEF IInv, TypeOK, AtBarrier, Waiting
<1> QED
  BY <1>1, <1>2

LEMMA OpenStoreLeaves ==
  ASSUME IInv, NEW t \in Tasks, OpenStore(t)
  PROVE  WG!Leave(t)
<1>1. /\ pc[t] \in AtBarrier /\ pc[t] \in Last /\ pc' = [pc EXCEPT ![t] = "work"]
      /\ round' = [round EXCEPT ![t] = @ + 1]
  BY DEF OpenStore, Goto, AtBarrier, Last, InOpen
<1>2. \A u \in Tasks : round[u] = round[t] /\ pc[u] \in AtBarrier
  BY <1>1 DEF IInv, LastIsAlone, Arrived
<1>3. \A u \in Tasks : WG!Reached(u, t)
  BY <1>2 DEF WG!Reached
<1> QED
  BY <1>1, <1>3, ReturnLeaves

LEMMA CloseCloses ==
  ASSUME IInv, Close
  PROVE  WG!CloseGroup
<1> USE GroupAssumption DEF Threads
<1>1. \A t \in Tasks : round[t] = Rounds
  BY DEF IInv, Close, Goto, JoinedAll, Done, CallsInRound, Leaving
<1>2. /\ pc[Main] = "close" /\ pc'[Main] = "closed" /\ round' = round
      /\ \A t \in Tasks : pc'[t] = pc[t]
  BY DEF IInv, TypeOK, Close, Goto
<1>3. Inside' = Inside
  BY <1>2 DEF Inside
<1> QED
  BY <1>1, <1>2, <1>3 DEF WG!CloseGroup, Inside

\* Every other step of a thread stutters.
LEMMA OtherStutters ==
  ASSUME IInv,
         \/ Spawn \/ JoinLock \/ JoinStore
         \/ \E t \in Tasks :
              \/ Create(t) \/ TakeStep(t) \/ EnterStore(t) \/ FifoStore(t)
              \/ ResetStore(t) \/ Work(t) \/ Finish(t) \/ ExitStore(t)
  PROVE  UNCHANGED WG!groupVars
<1> USE GroupAssumption DEF Threads, AtBarrier, Waiting, Last, InFifo, InReset, InOpen
<1>1. CASE Spawn \/ JoinLock \/ JoinStore
  <2>1. /\ round' = round /\ \A t \in Tasks : pc'[t] = pc[t]
        /\ pc[Main] # "closed" /\ pc'[Main] # "closed"
    BY <1>1 DEF IInv, TypeOK, Spawn, JoinLock, JoinStore, Take, Restore, Goto
  <2> QED
    BY <2>1, Stutter
<1>2. ASSUME NEW t \in Tasks, Create(t) \/ Work(t)
      PROVE  UNCHANGED WG!groupVars
  <2>1. \A r \in Nat : NextCall(r) \notin AtBarrier
    <3>1. AfterLoop \notin AtBarrier
      BY DEF AfterLoop
    <3> QED
      BY <3>1 DEF NextCall
  <2>2. /\ round' = round
        /\ pc[t] \notin AtBarrier /\ pc'[t] \notin AtBarrier
        /\ \A u \in Tasks : u # t => pc'[u] = pc[u]
        /\ pc'[Main] = "closed" <=> pc[Main] = "closed"
    BY <1>2, <2>1 DEF IInv, TypeOK, Create, Work, Goto
  <2> QED
    BY <2>2, Stutter
<1>3. ASSUME NEW t \in Tasks,
             \/ TakeStep(t) \/ EnterStore(t) \/ FifoStore(t) \/ ResetStore(t) \/ Finish(t)
             \/ ExitStore(t)
      PROVE  UNCHANGED WG!groupVars
  <2>1. /\ round' = round
        /\ pc'[t] \in AtBarrier <=> pc[t] \in AtBarrier
        /\ \A p \in Threads : p # t => pc'[p] = pc[p]
    BY <1>3 DEF IInv, TypeOK, TakeStep, Enter, Signal, Wait, FifoLock, FifoWait, FifoRelock,
       Reset, Open, Exit, EnterStore, FifoStore, FifoFull, FifoAsk, FifoWaitStore, FifoDone,
       ResetStore, Finish, ExitStore, Take, Restore, Goto
  <2> QED
    BY <2>1, Stutter
<1> QED
  BY <1>1, <1>2, <1>3

\* mango_spawn, mango_barrier, mango_exit, mango_join and mango_close over
\* three shared words implement a work group.
THEOREM Refinement == Spec => ImplementsWorkGroup
<1>1. Init => WG!GroupInit
  <2> SUFFICES ASSUME Init
               PROVE  WG!GroupInit
    OBVIOUS
  <2>1. pc[Main] = "spawn" /\ \A t \in Tasks : pc[t] = "none"
    BY GroupAssumption DEF Init, Threads
  <2>2. "none" \notin AtBarrier
    BY DEF AtBarrier, Waiting, Last, InFifo, InReset, InOpen
  <2>3. \A t \in Tasks : (pc[t] \in AtBarrier) = FALSE
    BY <2>1, <2>2
  <2>4. [t \in Tasks |-> pc[t] \in AtBarrier] = [t \in Tasks |-> FALSE]
    BY <2>3
  <2>5. (pc[Main] = "closed") = FALSE
    BY <2>1
  <2> QED
    BY <2>4, <2>5 DEF Init, WG!GroupInit
<1>2. IInv /\ [Next]_vars => [WG!GroupNext]_(WG!groupVars)
  <2> SUFFICES ASSUME IInv, [Next]_vars
               PROVE  [WG!GroupNext]_(WG!groupVars)
    OBVIOUS
  <2>1. CASE MainStep
    BY <2>1, CloseCloses, OtherStutters DEF MainStep, WG!GroupNext
  <2>2. ASSUME NEW t \in Tasks, TaskStep(t)
        PROVE  [WG!GroupNext]_(WG!groupVars)
    <3>1. \/ TakeStep(t) \/ EnterStore(t) \/ SignalStore(t) \/ WaitStore(t)
          \/ FifoStore(t) \/ ResetStore(t) \/ OpenStore(t) \/ Work(t) \/ Finish(t)
          \/ ExitStore(t)
      BY <2>2 DEF TaskStep, BarrierStep, FifoStep, TakeStep, FifoStore
    <3> QED
      BY <3>1, SignalStoreArrives, WaitStoreLeaves, OpenStoreLeaves, OtherStutters
         DEF WG!GroupNext
  <2>3. CASE UNCHANGED vars
    BY <2>3, Stutter DEF vars
  <2>4. ASSUME NEW e \in {"fifo", "exit"}, NEW v \in HostStatus(e), HostStore(e, v)
        PROVE  [WG!GroupNext]_(WG!groupVars)
    BY <2>4, Stutter DEF HostStore
  <2> QED
    BY <2>1, <2>2, <2>3, <2>4 DEF Next
<1> QED
  BY <1>1, <1>2, Invariance, PTL DEF Spec, ImplementsWorkGroup, WG!GroupSpec
=============================================================================
