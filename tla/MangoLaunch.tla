----------------------------- MODULE MangoLaunch -----------------------------
(***************************************************************************)
(* Launching kernels (kernel_arguments.h, start_kernel and ~Context of     *)
(* context.h, process.c) and DIRECT transfers (buffer.h), on top of the    *)
(* bookkeeping of MangoContext: the host packs the addresses a kernel is   *)
(* to use, starts it as a process of its own, which shares the memory, and *)
(* waits for the event mango_start_kernel has returned.                    *)
(*                                                                         *)
(* A byte of the memory is the buffer it was stored for, or foreign: part  *)
(* of an event's word, when there are more events than fit below the       *)
(* buffers, or stored by a kernel through the address of a buffer that has *)
(* no place.  A process takes four steps, in the middle of whatever the    *)
(* host does: it stores results through its arguments, stores 1 in its     *)
(* completion event, and exits; or it crashes.  mango_start_kernel is      *)
(* always given NULL, so that every start keeps its future in the event    *)
(* with id 0 (see StartKernel).                                            *)
(***************************************************************************)
EXTENDS MangoContext

CONSTANT MaxRuns   \* bound: kernels an application starts

ASSUME LaunchAssumption == MaxRuns \in Nat /\ BufferIds \cap {"nobody", "foreign"} = {}

VARIABLES
  loaded,   \* kernels whose KernelFunction has a GN version
  args,     \* args[k]: what mango_set_args(k, ...) has packed
  moved,    \* history: moved[k]: buffers that got a place since then
  procs,    \* the processes, in the order of their starts
  word,     \* word[k]: what is stored at k's completion event: 1, or 0: anything else
  future,   \* gn_kernel_out of event 0: NoFuture, a process, or Spent
  bytes,    \* bytes[a]: the buffer byte a was stored for, Nobody or Foreign
  host      \* what the host is doing

launchVars == <<loaded, args, moved, procs, word, future, bytes, host>>

NoFuture == 0
Spent == MaxRuns + 1   \* get() has been called
Nobody == "nobody"
Foreign == "foreign"
DeviceBytes == EventArea .. MemSize - 1

\* The buffers among the arguments, with their addresses and sizes.
Packages == [of : SUBSET BufferIds, address : [BufferIds -> Nat], size : [BufferIds -> Nat]]

Pack(bs, address, len) ==
  [of |-> bs, address |-> [b \in BufferIds |-> IF b \in bs THEN address[b] ELSE Unplaced],
   size |-> [b \in BufferIds |-> IF b \in bs THEN len[b] ELSE 0]]

NoPackage == Pack({}, place, size)

\* printable: every argument has 4 or 8 bytes.
NoArgs == [made |-> FALSE, printable |-> FALSE, pack |-> NoPackage]

LaunchInit ==
  /\ loaded = {} /\ args = [k \in KernelIds |-> NoArgs]
  /\ moved = [k \in KernelIds |-> {}] /\ procs = <<>>
  /\ word = [k \in KernelIds |-> 0] /\ future = NoFuture
  /\ bytes = [a \in DeviceBytes |-> Nobody] /\ host = "free"

Free == host = "free" /\ Idle
Running == host \in {"free", "replacing"}

Discarded ==
  /\ loaded' = {} /\ args' = [k \in KernelIds |-> NoArgs]
  /\ moved' = [k \in KernelIds |-> {}]
  /\ word' = [k \in KernelIds |-> 0]
  /\ bytes' = [a \in DeviceBytes |-> Nobody]

\* The host has dereferenced a null pointer, written through a pointer nobody
\* assigned, or left an exception uncaught: what is left of the program, and of
\* the memory, is not modelled.
Lost ==
  /\ host' = "lost"
  /\ procs' = <<>> /\ future' = NoFuture
  /\ Discarded
  /\ UNCHANGED contextVars

-----------------------------------------------------------------------------
\* The words of events among the bytes of buffers.

WordBytes(e) == WordSize * e .. WordSize * e + WordSize - 1

\* The bytes of k's completion word, or those it may get when k is registered
WordOf(k) ==
  IF k \in kernels THEN WordBytes(kernelEvent[k])
  ELSE {a \in 0 .. MemSize - 1 : WordSize * nextEvent <= a}

\* Data is stored in the bytes A: a completion word they touch holds anything.
StoreData(A) ==
  word' \in {w \in [KernelIds -> {0, 1}] : \A k \in KernelIds : WordOf(k) \cap A = {} => w[k] = word[k]}

\* The words of the events E are stored.
StoreWords(E) ==
  bytes' = [a \in DeviceBytes |-> IF \E e \in E : a \in WordBytes(e) THEN Foreign ELSE bytes[a]]

-----------------------------------------------------------------------------
\* mango_kernelfunction_init, mango_load_kernel(name, f, GN, t) and
\* mango_register_kernel(k, f, 0, 0).  load_gn refuses sources, and the C
\* interface says SUCCESS all the same.
LoadKernel(k, t) ==
  /\ Free
  /\ RegisterKernel(k)
  /\ loaded' = IF t = "BINARY" THEN loaded \cup {k} ELSE loaded
  /\ UNCHANGED <<args, moved, procs, word, future, bytes, host>>

\* One turn of MM::allocate_buffers, and what it means for arguments packed before.
Place ==
  /\ PlaceBuffer
  /\ moved' = [k \in KernelIds |-> moved[k] \cup {Head(todo)}]
  /\ UNCHANGED <<loaded, args, procs, word, future, bytes, host>>

\* allocate_events, the addresses of kernels, and WRITE in the buffers' events
Map ==
  /\ MapAll
  /\ StoreWords({bufferEvent[b] : b \in Elements(graph.buffers)})
  /\ UNCHANGED <<loaded, args, moved, procs, word, future, host>>

-----------------------------------------------------------------------------
\* Kernel arguments.

PackedAddress_Kept(k, b) ==   \* mutant: looked up only the first time
  IF b \in args[k].pack.of THEN args[k].pack.address[b] ELSE tlb[k][b]

\* a->value = kernel->tlb[buffer_a.id]: the address when the arguments are
\* packed, whatever the Arg object was made with.
PackedAddress(k, b) == tlb[k][b]

\* mango_arg for every buffer and mango_set_args.  The four events of the
\* kernel go first; its unit is dereferenced.
SetArgs(k, bs, printable) ==
  /\ Free
  /\ k \in units
  /\ args' = [args EXCEPT ![k] = [made |-> TRUE, printable |-> printable,
       pack |-> Pack(bs, [b \in BufferIds |-> PackedAddress(k, b)], size)]]
  /\ moved' = [moved EXCEPT ![k] = {}]
  /\ UNCHANGED <<contextVars, loaded, procs, word, future, bytes, host>>

SetArgsUnallocated(k) == Free /\ k \in kernels \ units /\ Lost

-----------------------------------------------------------------------------
\* The processes.

Ended(i) == procs[i].state = "ended"

\* The bytes process i takes for buffer b
RangeOf(i, b) ==
  procs[i].pack.address[b] .. procs[i].pack.address[b] + procs[i].pack.size[b] - 1

Step(i, from, to) ==
  /\ Running
  /\ procs[i].state = from
  /\ procs' = [procs EXCEPT ![i] =
       [kernel |-> @.kernel, pack |-> IF to = "ended" THEN NoPackage ELSE @.pack, state |-> to]]
  /\ UNCHANGED <<contextVars, loaded, args, moved, future, host>>

Assigned(i) == {b \in procs[i].pack.of : procs[i].pack.address[b] # Stray}

\* Where the stores for buffers without a place may go: each has an address of
\* its own, anywhere in the shared memory or, from MemSize on, outside.
StrayBytes(i) ==
  {UNION {start[b] .. start[b] + procs[i].pack.size[b] - 1 : b \in DOMAIN start} :
     start \in [procs[i].pack.of \ Assigned(i) -> 0 .. MemSize]}

\* The kernel's work group stores in its events, and the kernel to all its
\* buffers, in an order that is its own business; a null pointer, where its
\* table has no entry, it does not survive.
Stores(i) ==
  /\ \A b \in procs[i].pack.of : procs[i].pack.address[b] # Unplaced
  /\ Step(i, "running", "stored")
  /\ \E stray \in StrayBytes(i) :
       /\ bytes' = [a \in DeviceBytes |->
            IF \E b \in Assigned(i) : a \in RangeOf(i, b)
            THEN CHOOSE b \in Assigned(i) : a \in RangeOf(i, b)
            ELSE IF a \in stray \cup UNION {WordBytes(e) : e \in KernelEvents(procs[i].kernel)}
            THEN Foreign ELSE bytes[a]]
       /\ StoreData(stray \cup UNION {RangeOf(i, b) : b \in Assigned(i)})

\* mango_gn_close: the event, then the process.
Notifies(i) ==
  /\ Step(i, "stored", "notified")
  /\ word' = [word EXCEPT ![procs[i].kernel] = 1]
  /\ StoreWords({kernelEvent[procs[i].kernel]})

Exits(i) == Step(i, "notified", "ended") /\ UNCHANGED <<word, bytes>>

\* A crash, with the results stored or not, and the event never
Dies(i) ==
  /\ Step(i, "running", "ended") \/ Step(i, "stored", "ended")
  /\ UNCHANGED <<word, bytes>>

Process == \E i \in DOMAIN procs : Stores(i) \/ Notifies(i) \/ Exits(i) \/ Dies(i)

-----------------------------------------------------------------------------
\* The host waits for a list of events and then does what a call is for.  What
\* it waits for stays as it is until then, so the call is one step, taken when
\* the last of the waits is over.  (That a stray store takes away a 1 the host
\* has already seen is the same to it as a stray store that leaves the 1.)

WordIsOne(e) == \E k \in kernels : kernelEvent[k] = e /\ word[k] = 1

MayPass_OnWord(e) == WordIsOne(e)   \* mutant: the future is not asked

\* wait_state(1), and get() when the event has a future.  The word stays 1.
MayPass(e) ==
  /\ WordIsOne(e)
  /\ e = 0 /\ future \in DOMAIN procs => Ended(future)

\* mango_wait for every event of the list
Waited(list) ==
  /\ Free
  /\ Elements(list) \subseteq events
  /\ \A e \in Elements(list) : MayPass(e)
  /\ 0 \in Elements(list) => future # Spent

\* The future event 0 has after that
FutureAfter(list) == IF 0 \in Elements(list) /\ future # NoFuture THEN Spent ELSE future

\* The map has a null pointer for an id it does not know, and a future can be
\* asked once.
WaitFails(list) ==
  /\ Free
  /\ \E e \in Elements(list) :
       \/ e \notin events
       \/ e = 0 /\ future = Spent /\ WordIsOne(e)
  /\ Lost

\* mango_wait; and Buffer::read, which leaves everything as it is.
Wait(list) ==
  /\ Waited(list)
  /\ future' = FutureAfter(list)
  /\ UNCHANGED <<contextVars, loaded, args, moved, procs, word, bytes, host>>

Read(list, b) == b \in Placed /\ Wait(list)

\* Buffer::write, the whole buffer
Write(list, b) ==
  /\ Waited(list)
  /\ b \in Placed
  /\ bytes' = [a \in DeviceBytes |-> IF a \in place[b] .. place[b] + size[b] - 1 THEN b ELSE bytes[a]]
  /\ StoreData(place[b] .. place[b] + size[b] - 1)
  /\ future' = FutureAfter(list)
  /\ UNCHANGED <<contextVars, loaded, args, moved, procs, host>>

TransferFails(list, b) ==
  /\ Waited(list)
  /\ b \in buffers \ Placed
  /\ Lost

Start_Drops(list, k) ==   \* mutant: an earlier future is let go of, not waited for
  /\ Waited(list)
  /\ args[k].made /\ args[k].printable /\ k \in loaded
  /\ StartKernel(k)
  /\ procs' = Append(procs, [kernel |-> k, pack |-> args[k].pack, state |-> "running"])
  /\ future' = Len(procs')
  /\ UNCHANGED <<loaded, args, moved, word, bytes, host>>

\* mango_start_kernel: gn_execvp, then the future replaces the one event 0 has,
\* whose destructor waits for the process it belongs to.
Start(list, k) ==
  /\ Waited(list)
  /\ args[k].made /\ args[k].printable /\ k \in loaded
  /\ StartKernel(k)
  /\ procs' = Append(procs, [kernel |-> k, pack |-> args[k].pack, state |-> "running"])
  /\ IF FutureAfter(list) \in DOMAIN procs
     THEN host' = "replacing" /\ UNCHANGED future
     ELSE future' = Len(procs') /\ UNCHANGED host
  /\ UNCHANGED <<loaded, args, moved, word, bytes>>

Replace ==
  /\ host = "replacing"
  /\ Ended(future)
  /\ future' = Len(procs)
  /\ host' = "free"
  /\ UNCHANGED <<contextVars, loaded, args, moved, procs, word, bytes>>

\* gn_args returns NULL for a size it cannot print, and there is no name to
\* execute when the kernel was not loaded.
StartFails(list, k) ==
  /\ Waited(list)
  /\ args[k].made
  /\ ~ args[k].printable \/ k \notin loaded
  /\ Lost

\* The maps of the context are cleared.  The event goes, and its future with
\* it, unless a task graph still holds the event.
EventIsDestroyed == 0 \notin graph.events

\* mango_release: the memory is unmapped, and what is packed is of no use.
Release ==
  /\ Free
  /\ EventIsDestroyed /\ future \in DOMAIN procs => Ended(future)
  /\ host' = "closed"
  /\ Discarded
  /\ UNCHANGED <<contextVars, procs, future>>

-----------------------------------------------------------------------------
LaunchTypeOK ==
  /\ loaded \subseteq KernelIds
  /\ args \in [KernelIds -> [made : BOOLEAN, printable : BOOLEAN, pack : Packages]]
  /\ moved \in [KernelIds -> SUBSET BufferIds]
  /\ procs \in Seq([kernel : KernelIds, pack : Packages, state : {"running", "stored", "notified", "ended"}])
  /\ Len(procs) <= MaxRuns
  /\ word \in [KernelIds -> {0, 1}]
  /\ future \in {NoFuture, Spent} \cup DOMAIN procs
  /\ bytes \in [DeviceBytes -> BufferIds \cup {Nobody, Foreign}]
  /\ host \in {"free", "replacing", "closed", "lost"}

\* What mango_set_args has packed for a kernel that uses the buffer is where
\* the buffer is, until an allocation places the buffer again.
ArgumentsFresh ==
  Idle => \A k \in KernelIds : \A b \in (args[k].pack.of \cap Placed) \ moved[k] :
    k \in users[b] => args[k].pack.address[b] = place[b]

\* A store through an address that an allocation has given a buffer, by the
\* host or by a kernel with the addresses of whenever its arguments were
\* packed, is never in another buffer, after new allocations and
\* deregistrations.  Only what is no buffer's can get there: the word of an
\* event beyond EventArea, or what a kernel stores for a buffer that found no
\* room, which resource_allocation does not tell it.
BytesBelong ==
  \A b \in Placed : \A a \in place[b] .. place[b] + size[b] - 1 : bytes[a] \in {b, Nobody, Foreign}

\* When the host has waited for the event of the last start every process has
\* come to its end, also when the word it polls was left 1 by an earlier run,
\* or made 1 by a store that was meant for a buffer.
WaitMeansDone == future = Spent => \A i \in DOMAIN procs : Ended(i)

\* Kernels run one at a time, except while mango_start_kernel is replacing the
\* future of the last one; and when mango_release has returned none is left
\* that could store into the memory of another context, if the task graph was
\* destroyed before.
KernelsInTurn ==
  /\ host # "replacing" => \A i \in DOMAIN procs : i < Len(procs) => Ended(i)
  /\ host = "closed" /\ EventIsDestroyed => \A i \in DOMAIN procs : Ended(i)

-----------------------------------------------------------------------------
\* What holds in between, and makes the properties above inductive.

\* A package names no byte that is another buffer's, or may become one: places
\* are handed out upwards from last and never a second time.
Owned(pack) ==
  \A b \in BufferIds : pack.address[b] \notin {Unplaced, Stray} =>
    /\ pack.address[b] + pack.size[b] <= last
    /\ \A c \in Placed \ {b} :
         \/ pack.address[b] + pack.size[b] <= place[c]
         \/ place[c] + size[c] <= pack.address[b]

PackagesOwned ==
  /\ \A k \in KernelIds : Owned(args[k].pack)
  /\ \A i \in DOMAIN procs : Owned(procs[i].pack)

BytesBelowLast == \A a \in DeviceBytes : bytes[a] \in BufferIds => a < last

\* ArgumentsFresh, in the middle of an allocation too
PackedFresh ==
  \A k \in KernelIds : \A b \in (args[k].pack.of \cap Placed) \ moved[k] :
    k \in users[b] => args[k].pack.address[b] = place[b]

\* Where the future of event 0 has got to
FutureIsLast ==
  /\ future = NoFuture => procs = <<>>
  /\ host = "replacing" => future = Len(procs) - 1 /\ future # NoFuture
  /\ host # "replacing" /\ future \in DOMAIN procs => future = Len(procs)
  /\ \A i \in DOMAIN procs : i < future => Ended(i)
=============================================================================
