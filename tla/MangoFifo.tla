----------------------------- MODULE MangoFifo ------------------------------
(***************************************************************************)
(* A FIFO buffer between the host and a kernel: the application of         *)
(* test/test_gn_fifo.c (host) and test/test_kernel_fifo.c (kernel).        *)
(*                                                                         *)
(* The kernel is module MangoHN with UseFifo: in each round the last task  *)
(* to arrive at mango_barrier waits for a chunk, and every task then reads *)
(* its own cell of the buffer.  The host has two threads: the one that     *)
(* BURST mode mango_write starts (FIFOBuffer::synch_write), which fills    *)
(* the buffer chunk by chunk, and the main thread, which waits for the     *)
(* FIFO and for the kernel (Event::wait).                                  *)
(*                                                                         *)
(* The buffer's event is polled by up to three threads.  A poll locks the  *)
(* word, looks at it and stores it back; a producer stores READ or WRITE   *)
(* without locking (Event::write).                                         *)
(***************************************************************************)
EXTENDS MangoHNProps, Sequences

CONSTANTS
  Chunks,     \* global_size / size: chunks the host has to send
  FifoFirst   \* the main thread waits for the FIFO, then for the kernel
              \* (as the test does), or the other way round

ASSUME FifoAssumption ==
  /\ UseFifo
  /\ Tasks # {}
  /\ Chunks \in Nat
  /\ FifoFirst \in BOOLEAN

VARIABLES
  hpc, hreg,   \* the host's main thread: where it is, what it locked
  wpc, wreg,   \* the host's FIFO thread, likewise
  sent,        \* chunks synch_write has announced with READ
  copied,      \* cells the memcpy under way has written
  mem,         \* mem[t]: the chunk that cell t of the buffer belongs to
  got          \* history: got[t], the chunks task t has read, in order

hostVars == <<hpc, hreg>>
writerVars == <<wpc, wreg, sent, copied, mem>>
deviceVars == <<pc, reg, go, round, opened>>
fifoVars == <<vars, hostVars, writerVars, got>>

-----------------------------------------------------------------------------
FifoInit ==
  /\ Init
  /\ hpc = "write" /\ hreg = 0
  /\ wpc = "none" /\ wreg = 0
  /\ sent = 0 /\ copied = {}
  /\ mem = [t \in Tasks |-> 0]
  /\ got = [t \in Tasks |-> <<>>]

\* FIFOBuffer::write returns as soon as the thread runs.
HostWrite ==
  /\ hpc = "write"
  /\ hpc' = "launch"
  /\ wpc' = IF Chunks = 0 THEN "done" ELSE "poll"
  /\ UNCHANGED <<vars, hreg, wreg, sent, copied, mem, got>>

\* Which wait the main thread is in, in the order the application chose.
AfterLaunch == IF FifoFirst THEN "fifoPoll" ELSE "exitPoll"
AfterJoin == IF FifoFirst THEN "exitPoll" ELSE "end"
AfterGet == IF FifoFirst THEN "end" ELSE "fifoPoll"

\* mango_start_kernel: from here on the kernel process may run.
HostLaunch ==
  /\ hpc = "launch"
  /\ hpc' = AfterLaunch
  /\ UNCHANGED <<vars, hreg, writerVars, got>>

Launched == hpc \notin {"write", "launch"}

\* Event::wait_state, a poll of event e: lock the word ...
HostLock(e, from, to) ==
  /\ hpc = from
  /\ word[e] # LOCK
  /\ hreg' = word[e]
  /\ Store(e, LOCK)
  /\ hpc' = to
  /\ UNCHANGED <<deviceVars, writerVars, got>>

\* ... store the value back, and go on if it was the one waited for.
HostRestore(e, state, from, again, done) ==
  /\ hpc = from
  /\ Store(e, hreg)
  /\ hpc' = IF hreg = state THEN done ELSE again
  /\ UNCHANGED <<hreg, deviceVars, writerVars, got>>

HostFifoLock == HostLock("fifo", "fifoPoll", "fifoStore")
HostFifoRestore ==
  HostRestore("fifo", END_FIFO_OPERATION, "fifoStore", "fifoPoll", "fifoJoin")

\* fifo_task->join()
HostFifoJoin ==
  /\ hpc = "fifoJoin"
  /\ wpc = "done"
  /\ hpc' = AfterJoin
  /\ UNCHANGED <<vars, hreg, writerVars, got>>

HostExitLock == HostLock("exit", "exitPoll", "exitStore")
HostExitRestore == HostRestore("exit", 1, "exitStore", "exitPoll", "get")

\* gn_kernel_out->get(): the kernel process is gone
HostGet ==
  /\ hpc = "get"
  /\ pc[Main] = "closed"
  /\ hpc' = AfterGet
  /\ UNCHANGED <<vars, hreg, writerVars, got>>

HostStep ==
  HostWrite \/ HostLaunch \/ HostFifoLock \/ HostFifoRestore \/ HostFifoJoin
    \/ HostExitLock \/ HostExitRestore \/ HostGet

-----------------------------------------------------------------------------
\* FIFOBuffer::synch_write, one turn of its loop: wait_state(WRITE) ...
WriterLock ==
  /\ wpc = "poll"
  /\ word["fifo"] # LOCK
  /\ wreg' = word["fifo"]
  /\ Store("fifo", LOCK)
  /\ wpc' = "store"
  /\ UNCHANGED <<deviceVars, hostVars, sent, copied, mem, got>>

WriterRestore_AnyState ==   \* mutant: the value polled is not compared
  /\ wpc = "store"
  /\ Store("fifo", wreg)
  /\ wpc' = "copy"
  /\ UNCHANGED <<deviceVars, hostVars, wreg, sent, copied, mem, got>>

WriterRestore ==
  /\ wpc = "store"
  /\ Store("fifo", wreg)
  /\ wpc' = IF wreg = WRITE THEN "copy" ELSE "poll"
  /\ UNCHANGED <<deviceVars, hostVars, wreg, sent, copied, mem, got>>

\* ... a memcpy, which writes the cells in no particular order ...
WriterCopy(t) ==
  /\ wpc = "copy"
  /\ t \notin copied
  /\ mem' = [mem EXCEPT ![t] = sent + 1]
  /\ copied' = copied \cup {t}
  /\ wpc' = IF copied' = Tasks THEN "announce" ELSE "copy"
  /\ UNCHANGED <<vars, hostVars, wreg, sent, got>>

\* ... and a blind store of READ.
WriterAnnounce ==
  /\ wpc = "announce"
  /\ Store("fifo", READ)
  /\ sent' = sent + 1
  /\ copied' = {}
  /\ wpc' = IF sent' = Chunks THEN "done" ELSE "poll"
  /\ UNCHANGED <<deviceVars, hostVars, wreg, mem, got>>

WriterStep ==
  WriterLock \/ WriterRestore \/ (\E t \in Tasks : WriterCopy(t)) \/ WriterAnnounce

-----------------------------------------------------------------------------
\* The kernel: between barriers a task reads its cell of the buffer.
Consume(t) ==
  /\ Work(t)
  /\ got' = [got EXCEPT ![t] = Append(@, mem[t])]

KernelTask(t) ==
  \/ Consume(t)
  \/ /\ BarrierStep(t) \/ FifoStep(t) \/ Finish(t) \/ Exit(t) \/ ExitStore(t)
     /\ UNCHANGED got

KernelStep ==
  /\ Launched
  /\ \/ MainStep /\ UNCHANGED got
     \/ \E t \in Tasks : KernelTask(t)
  /\ UNCHANGED <<hostVars, writerVars>>

FifoNext == HostStep \/ WriterStep \/ KernelStep

FifoSpec == FifoInit /\ [][FifoNext]_fifoVars
-----------------------------------------------------------------------------
\* The host's variables keep the types the code gives them.
HostStates == {"write", "launch", "exitPoll", "exitStore", "get", "fifoPoll",
               "fifoStore", "fifoJoin", "end"}
WriterStates == {"none", "poll", "store", "copy", "announce", "done"}

FifoTypeOK ==
  /\ hpc \in HostStates /\ hreg \in Nat
  /\ wpc \in WriterStates /\ wreg \in Nat
  /\ hpc = "write" => wpc = "none"
  /\ sent \in Nat
  /\ copied \in SUBSET Tasks
  /\ mem \in [Tasks -> Nat]
  /\ got \in [Tasks -> Seq(Nat)]

\* A main thread that waits for the kernel first polls the FIFO event only
\* when the kernel is gone.
AfterKernel ==
  hpc \in {"fifoPoll", "fifoStore", "fifoJoin", "end"} => pc[Main] = "closed"

\* The FIFO thread has seen WRITE and has not announced its chunk.
Copying == wpc \in {"copy", "announce"} \/ (wpc = "store" /\ wreg = WRITE)

\* Somebody may still see WRITE, or store it back.
MayCopy == Copying \/ word["fifo"] = WRITE \/ (hpc = "fifoStore" /\ hreg = WRITE)

\* The last task of a barrier is waiting for the host, or no barrier has got
\* past its FIFO step yet.
GateShut ==
  \/ \E t \in Tasks : pc[t] \in {"fifoWait", "fifoWaitStore"}
  \/ /\ opened = 0
     /\ \A t \in Tasks :
          pc[t] \notin {"fifoRelock", "fifoRelocked", "work"} \cup InReset \cup InOpen

\* No task is about to act on a READ it took from the word.
NoReadTaken ==
  \A t \in Tasks : pc[t] \in {"fifoLocked", "fifoWaitStore"} => reg[t] # READ

GateWhileCopying ==
  MayCopy =>
    /\ GateShut
    /\ pc[Main] = "closed" \/ (NoReadTaken /\ (Copying => word["fifo"] # READ))

-----------------------------------------------------------------------------
\* Tasks that may read the buffer: released from a barrier, though perhaps
\* without having seen it yet, and not at the next one.
Reading == {t \in Tasks : pc[t] = "work" \/ round[t] < opened}

\* synch_write copies a chunk into the buffer only while every task is held
\* in mango_barrier: none has been released to read the chunk before.
NoCopyWhileReading == wpc = "copy" => Reading = {}

\* In one round all the tasks read cells of one chunk, whatever the order in
\* which they and the memcpy of synch_write run.
RoundReadsOneChunk ==
  \A t, u \in Tasks : \A k \in DOMAIN got[t] \cap DOMAIN got[u] : got[t][k] = got[u][k]

\* Cells the memcpy has written belong to the next chunk, the others to the
\* last one announced.
CopiedCells ==
  /\ copied # {} => wpc \in {"copy", "announce"}
  /\ wpc = "announce" => copied = Tasks
  /\ \A t \in Tasks : mem[t] = IF t \in copied THEN sent + 1 ELSE sent

\* A task has read once per barrier it has left, except the last if it is
\* still to read.
OneReadPerRound ==
  \A t \in Tasks : Len(got[t]) = IF pc[t] = "work" THEN round[t] - 1 ELSE round[t]

\* What is still to be read in this round is what others have read.
SameForTheRest ==
  \A t \in Tasks \ Reading, u \in Reading : mem[u] = got[t][opened]

\* A task never reads a chunk twice, nor an older one after a newer one:
\* mango_barrier does not let it go again before synch_write has refilled the
\* buffer.
ChunksInOrder ==
  \A t \in Tasks : \A k, l \in DOMAIN got[t] : k < l => got[t][k] < got[t][l]

\* READ is in the word, or whoever took it will store it back.
ReadAround ==
  word["fifo"] = READ \/ ~ NoReadTaken \/ (wpc = "store" /\ wreg = READ)

\* The last task has found READ and has not opened the barrier yet; it leaves
\* the gate when it takes the word for the last time.
PastGate == {"fifoRelocked"} \cup InReset \cup InOpen
GateLeft == \E t \in Tasks : pc[t] \in PastGate
GatePassed == GateLeft \/ \E t \in Tasks : pc[t] = "fifoRelock"

\* The chunk announced last is one that no task has read.
Unread == \A t \in Tasks : \A k \in DOMAIN got[t] : got[t][k] < sent

\* Whoever holds READ has the word locked; the FIFO thread finds no READ
\* between its lock and its store but the one it took.
ReadIsHeldAlone ==
  pc[Main] # "closed" =>
    /\ ~ NoReadTaken => word["fifo"] = LOCK
    /\ wpc = "store" =>
         /\ NoReadTaken /\ word["fifo"] # READ
         /\ \A t \in Tasks : pc[t] = "fifoRelock" => word["fifo"] = LOCK

\* One READ of the host lets the group through one barrier: while there is a
\* READ its chunk is unread, and there is none while a chunk is being read.
ReadMeansUnread ==
  pc[Main] # "closed" =>
    /\ ReadAround \/ GatePassed => Unread
    /\ Reading # {} \/ GateLeft => ~ ReadAround

GotAnnounced ==
  \A t \in Tasks : \A k \in DOMAIN got[t] :
    got[t][k] <= sent /\ (t \in Reading => got[t][k] < sent)

\* The inductive invariant of the kernel-first order.
FifoIInv ==
  /\ IInv
  /\ FifoTypeOK
  /\ AfterKernel
  /\ GateWhileCopying
  /\ CopiedCells
  /\ OneReadPerRound
  /\ SameForTheRest
  /\ RoundReadsOneChunk
  /\ ReadIsHeldAlone
  /\ ReadMeansUnread
  /\ GotAnnounced
  /\ ChunksInOrder

\* Host, FIFO thread and kernel together are a stream of chunks (module
\* ChunkStream): every step of one of them is a step of it or a stutter.
CS == INSTANCE ChunkStream WITH chunk <- sent, taken <- got

ImplementsChunkStream == CS!StreamSpec

\* The k-th round of the kernel reads the k-th chunk of the host's buffer:
\* the whole area that mango_write was given reaches the kernel.
EveryChunkIsRead ==
  \A t \in Tasks : \A k \in DOMAIN got[t] : got[t][k] = k
=============================================================================
