# A verification project for Software2Project

The repository holds several programs written for university courses. Three of them have a
core of their own worth modelling:

- **MANGO** (`ACA Project/API_CPP`, C and C++): a run-time library with which a host program
  starts compute kernels, gives them buffers, and synchronises with them through words of
  shared memory called events. This is the main subject here.
- **PowerEnjoy** (`Project/PowerEnjoy`, Java EE): a car-sharing web application with accounts,
  sessions and car reservations.
- **The walking bus** (`For_Challenge`, C and Python): programs for an optimisation problem,
  from Prim's algorithm over a first attempt to the solver that was submitted.

The TLA+ modules are translated from the sources. TLC checks them on small instances, and the
TLA+ proof system (TLAPS) checks the theorems, which hold for every value of the constants.
`PROJECT.json` lists components, runs, the lines each definition models, hazards, findings and
theorems.

## 1. Inventory

| component | state it keeps | operations | hard parts |
|---|---|---|---|
| Device run time, `src_dev/mango_hn.c`, `mango_hn_gn.c` | shared words (events), one thread per task, the kernel's main thread | `mango_spawn`, `mango_barrier`, `mango_exit`, `mango_join`, `mango_close`, and below them lock, store, wait, signal | threads interleave between lock and store; words count; a released task races into the next barrier |
| FIFO buffers and host events, `include/buffer.h`, `include/event.h`, `src/event.cpp` | a buffer shared by host and kernel, its event, the host's FIFO thread | `synch_write`, `wait_state`, `write`, waits for FIFO and kernel | three parties poll one event, and a poll stores back what it read; producers store without the lock |
| Host context and memory manager, `include/context.h`, `mm.h`, `task_graph.h`, `src/mango.cpp`, `src/context.cpp`, `src/mm.cpp` | registered kernels, buffers and events, address maps, the end of used memory | register, deregister, resize, task graph, resource allocation, start | allocation may fail half way and be repeated; ids outlive objects; nothing is given back |
| Kernel arguments and processes, `include/kernel_arguments.h`, `src/process.c` | packed addresses; processes and the future that waits for each | `mango_set_args`, start, wait, the kernel's stores, its exit or crash | addresses are looked up when packed and used later; a completion word stays 1; one future per event |
| OpenCL wrapper, `src/opencl_wrap.cpp` | one context over the C interface, ids of buffers | `cl*` calls | order of create, allocate, write; ids of its own; null pointers |
| BOSP integration | state in an external manager | callbacks | not in the repository |
| Accounts and sessions, `RegistrationServlet`, `LoginServlet`, `LogoutServlet` and their beans | user table, HTTP sessions, requests under way | register, log in, log out, session timeout, crash | check and insert in two transactions; three attributes set one by one; a session that ends in the middle |
| Reservations, `ReservationServlet`, `CarSearchBean`, `ReservationBean` | car table, reservation table | reserve a car | look, mark and book in three transactions; crash in between |
| Main page, helpers, entity facades | none that counts | read, format, mail | - |
| Walking bus, `walking_bus2.c`; checker `pedibus_checker.py` | a tree of lines with distances, a sorted queue of arcs | a pass that grows lines, a pass that moves leaves | distances left over from a line a stop has left; arcs queued under what was true then |
| Spanning tree and first attempt, `prims_alg.c`, `walking_bus.c` | a tree, the nearest tree node of every other | add a node, update distances | values noted earlier and taken as they are |
| Alloy model, documents, UML, animation tests | none | none | - |

How they interact. An application calls the host context to register what it needs. Resource
allocation gives buffers an address, events a word, and starts units. `mango_set_args` packs
the addresses of that moment. `mango_start_kernel` then runs the kernel as a process of its
own, which shares only the memory with the host, and keeps a future that ends with it. Host
and kernel from there on meet only in events, buffers and that future. The OpenCL wrapper sits
on top of the C interface and is used together with it. In PowerEnjoy every request runs in a thread of
the container, and requests meet in the database and in the attributes of a session. The three
programs of the repository do not call each other.

What makes each component correct:

- *Work group*: no task passes a barrier another has not reached; resetting the barrier loses
  no arrival; the kernel closes only after all tasks; everybody gets through in the end.
- *FIFO*: the buffer is not refilled while it is read; one round reads one chunk; chunks
  arrive in order; every chunk arrives.
- *Context*: buffers do not overlap; kernels and host agree on addresses; every event a kernel
  is passed has a word; a result SUCCESS means success.
- *Arguments and processes*: packed addresses stay right until a buffer moves, and do no harm
  after that; who has waited for a kernel finds it ended; kernels take turns.
- *Walking bus*: every stop's way leads to the school and is within alpha; lines are as many as
  were counted; the program ends. *Spanning tree*: it is one, and minimal.
- *PowerEnjoy*: a session names who has logged in to it; a booked car is marked and a marked car gets
  booked; names are unique and a car is in one reservation.

Hazards are in `PROJECT.json`, each at its line. Those with no property yet say why.

## 2. Modules

```
WorkGroup                      abstract: tasks in lock step
   ^ implemented by
MangoHN -> MangoHNProps -> MangoHN_proofs
               |
               +-> MangoFifo -> MangoFifo_proofs      (kernel + host threads + buffer)
                      | implements
                      v
                   ChunkStream          abstract: all tasks take the same chunks, in order

MangoContext -> MangoContext_proofs
   |  ^ implemented by
   +-> MangoLaunch -> OpenCLWrap -> MangoHost -> OpenCLWrap_proofs
                      (processes; the wrapper and an application; both uses of the bookkeeping)

PenjoySessions -> PenjoyReservations -> PenjoyReservations_proofs

BusStops -> WalkingBus -> WalkingBus_proofs
   |            +-> ArcSort ---------+
   +-> PrimsAlg -> PrimsAlg_proofs   |
           +-> WalkingBusDraft ------+-> Pedibus -> Pedibus_proofs
```

`X -> Y` reads "Y EXTENDS X". Each `MC...` module gives constants their values. `MangoHost` and
`Pedibus` put several programs into one specification: the variable `program` says which one a
run is of, the others do not move, and a property named for one program (`WrapInvariant`,
`BusInvariant`, `SortInvariant`, `PrimInvariant`, `MinimalTotal`, `DraftInvariant`) is about that
one. They are modules of their own, and not part of the `MC...` modules, so that what a run
checks is what is proved. In a definition's
name a suffix after `_` (such as `EnterStore_NoFlip`), or a comment "(a mutant ...)" before it,
marks a mutant: what a plausible bug in that code would look like. The specifications do not use them; each
property of a passing run has one that violates it.

### MangoHN: the device run time

`word[e]` is the shared word of an event: `a` counts running tasks, `b` is the barrier, `r`
the release word, `fifo` the event of the FIFO buffer, `exit` the end of the kernel. Every
access of the code to a word is under one process-shared semaphore and is either
read-and-zero (`mango_read_synchronization`) or a store (`mango_write_synchronization`), so
each of the two is one action. `mango_lock` spins while it reads 0, which the guard
`word[e] # LOCK` of `Take` stands for. All that is longer than that is several actions:
`mango_wait` is `Wait` and `WaitStore`, `mango_signal` is `Signal` and `SignalStore`, and so
on through `mango_barrier` in the order of its lines. `pc` and `reg` are the place and the
local value of each thread, `go` and `round` are `go` of `mango_barrier` and the loop index of
the kernel. `opened` is a history variable.

A kernel that was given no FIFO calls `mango_barrier` with NULL: `UseFifo` tells which. The
kernel itself is the loop of `test/test_kernel_fifo.c`: `Rounds` barriers per task, then
`mango_exit`. With a FIFO the kernel is an open system: `HostStore` lets the host lock the FIFO
and exit events and store into them whenever it likes, more often than it really does.
What a failing `mango_init` leads to is not modelled.

### WorkGroup: what the events are for

The abstract specification has no events: a task arrives at a barrier, leaves it when all
others have arrived or are past it, and the group closes when all tasks have run all rounds.
`ImplementsWorkGroup` instantiates it with `passed <- round`, `inside` the tasks between
their decrement of the barrier word and their return, and `closed` the end of the main thread.

### MangoFifo: host, FIFO thread and kernel

The application of `test/test_gn_fifo.c`. The main thread writes (which starts the FIFO
thread), launches the kernel, and waits for the FIFO and for the kernel, in the order
`FifoFirst` says. The FIFO thread is `FIFOBuffer::synch_write`: poll until WRITE, copy, store
READ. The memcpy is one action per cell, in any order, so that readers can see half of it.
`HostLock`/`HostRestore` and `WriterLock`/`WriterRestore` are `Event::wait_state`: lock,
look, store back. The kernel is MangoHN with `got`, the history of what each task has read.

### ChunkStream: what the FIFO is for

The abstract specification has two variables, the number of the chunk announced last and what
each task has taken. In a round every task takes the same chunk, newer than the one before, and
the next chunk is announced between rounds only. It says nothing of chunks that are skipped,
because the code does skip some (finding 1). `ImplementsChunkStream` instantiates it with
`chunk <- sent` and `taken <- got`.

### MangoContext: host bookkeeping

One action per call of the C interface, except that resource allocation, whose error path
matters, is four: begin, one turn of the placing loop, its end (by success or by
ERR_OUT_OF_MEMORY, which the caller drops), and the mapping passes. The host is
single-threaded, so nothing interleaves with an allocation. Memory is addresses only: events
at `WordSize * id`, buffers from `EventArea` (1024 in the code) up. `graph` names objects by
id as the code does, so that it can outlive them.

Two guards are the application's side of the contract. `ResizeMemory` keeps to "Do not resize
while in use" (`include/buffer.h`). `BeginAllocation` requires that the graph names nothing
that was deregistered, because the code looks ids up without asking; what would happen
otherwise is a hazard no property covers.

Two things go wrong inside that contract, and are modelled. After an allocation that ran out of
memory the mapping passes go on to map the buffers without a place: `phy_addr` is not
initialised, and the kernel's address of the buffer is then `Stray`, "some address". And no line
of the code limits the number of events: `MaxEvents` is a bound of the model only, and the words
of events from `EventArea` on lie in the memory that buffers are given (from the 257th event on,
in the code).

### MangoLaunch: arguments, processes, transfers and waits

`args[k]` is what `mango_set_args` has packed: the address each buffer had then (`PackedAddress`
is `kernel->tlb[buffer_a.id]`) and its size. `procs` are the processes in the order of their
starts. A process stores its results through its arguments, stores 1 in its completion event
and exits, with anything the host does in between; `Dies` is a crash before the notification.
`bytes[a]` is the buffer that byte `a` was last stored for, all that the properties need of
contents, or `Foreign`: part of an event's word, or of what a kernel has stored through a `Stray`
address. Each stray buffer of a process has an address of its own, anywhere in the memory or
outside it (`StrayBytes`); an address table without an entry gives a null pointer, which the
process does not survive. Stores into events are modelled where they meet buffers
(`StoreWords`), and stores of data where they meet the completion words (`StoreData`: such a word
may then read 1, or no longer). Two things are left out of `bytes`: a poll of the host, which
locks a word and stores the same value back, and the words of the kernel's barriers after its results are stored.

Waiting is `MayPass`: `wait_state(1)` on the word, which nobody resets, then `get()` on the
future if the event has one. Because `mango_start_kernel` is given NULL it takes event 0 for
every kernel (finding 4), so there is one future. A second start replaces it, and the
destructor of a future from `std::async` waits for its process: the host stands in
`"replacing"` until then. A call with a list of events is one action, taken when the waits are
over. That loses no behaviour: what a wait has found stays as it is until the host itself starts
the next kernel, except that a stray store may take away a 1 from a completion word the host has
already seen; to the host that is the same as a stray store that leaves the 1, which is there too.
Wait lists are empty or name one event, of a kernel or of none (`WaitLists`); longer lists are not
modelled.

`Lost` is where the code dereferences a null pointer, writes through an address nobody
assigned, or asks a future twice. The model ends there and promises nothing of it.

### OpenCLWrap: the wrapper and its application

One action per `cl*` call, with the C interface calls in between that the wrapper has none for,
as in `test/test_gn_app.c`. What is particular to the wrapper is here. `FreshIds` are the ids
of `buffer_id++`. `InvalidHostPtr` is its test of flags; a valid pointer leads to a write into
a buffer without a place (`clCreateBufferFrom`). For a buffer the kernel both reads and writes
`mango_register_memory` is told of two kernels and passed one, so the other is what `va_arg`
finds, and `poisoned` are the buffers for which that was no kernel. `clGetDeviceIDs` falls
through to "no device" for every type (`DeviceIDs`).

The application has one task graph at a time, which lists all its buffers, and sets arguments
for buffers it has. Every step of it is a step of `ContextSpec` or leaves the bookkeeping alone
(`WrapImplementsContext`, proved).

### PenjoySessions and PenjoyReservations

One action is what a request does between two accesses to something shared. A database
transaction is one action, and so is one `setAttribute`. `req[r]` is the place of request `r`
and its local variables. `GetSession` is `request.getSession(true)`, which makes a new session
when the cookie's has ended. `Expire` is the container's timeout, `Crash` the end of the
server: tables stay, requests and sessions go.

`users` is the table of committed rows, by id. `registerUser` draws the id when the row is
persisted and the row appears when the transaction commits, and others may commit in between;
so a row may get any id that is not in the table, ids are in no order, and a registration whose
commit fails leaves nothing. `GetUserId(n)` is the set of ids `getUserId` may return: the query
for a name is not ordered, so with two rows of one name it is any of the two, and may be another
one at logout than at login. Every transaction that writes may fail to commit: a login then ends
at the error page, a reservation after its car is marked leaves an orphan (`orphans`, which a
crash at that point makes too). `request.login` may throw between the login's transaction and
its session.

Two logins that come with the cookie of one session both pass `sessionCheck`, which asks before
`createSession` sets anything, and their `setAttribute` calls interleave: the session may end up
with the name of one visitor and the id of the other. No document forbids it. What is promised of
a session is therefore said relative to `visitors[s]`, the history of the names that have logged
in to session `s`: its name is one of them, and its id is that of a row of one of them
(`SessionNamesItsUser`). With one visitor, or several logins of one name, that means the name and a row of that name.

Abstractions: passwords are random and mailed, so who may log in as row `i` is who got the mail
(`mailed`); wrong passwords and pages that only read change nothing and are left out; the
transaction boundaries are the ones written in the beans. One assumption about what lies outside
the source: session ids are not used again.

### BusStops, WalkingBus and ArcSort: the solver

`WalkingBus` is `walking_bus2.c`, one turn of a loop per action. The first pass takes a least
arc of the queue (`Visit` or `Discard`), or fills the queue when it is empty (`Refill`). The
second pass looks at each arc of the tree in the order of its making (`turn`), and if it leads
to a leaf, at each node (`cand`) to hang the leaf under (`Switch`, `Keep`, `PassBy`). `minDist`
is the program's idea of the length of a way; `way` is a history variable with its real length.
They part when a leaf is moved, and the program goes on with `minDist`. `ArcSort` is the
program's `quickSort`, one action per turn of a scan, exchange or split of `getpivot`; the
recursion is the set of ranges it is still to be called with, of which the leftmost is next.
`WalkingBus` takes any of the least arcs, and `SortedLeastLast` says that the array's last one
is such. Distances are whole
numbers, which the float arithmetic of the code represents exactly.

`walking_bus_solution_FavaroFimZuliani/walking_bus2.c` is the same file byte for byte.

### PrimsAlg and WalkingBusDraft

`PrimsAlg` is `prims_alg.c`: one action per node added. Its input must be a connected graph
with weights below the program's infinity, which the program does not test. `WalkingBusDraft`
is `walking_bus.c`, made from it: it goes on from the last stop while that is near enough
(`GoOn`), else takes the stop nearest to the tree (`Open`), and lets `updateDistances` pass
over stops that would be too far away.

`TotalIsMinimal` compares the total with every spanning tree: a set of N - 1 edges that joins
each set of nodes containing the first with the nodes outside it. The weight of a tree is stated
without a recursive sum, as the number of units its edges have (`Units`: an edge of weight 3 has
three).

## 3. Runs

| run | instance | shows |
|---|---|---|
| `barrier` | 3 tasks, 2 rounds, no FIFO, fair | `IInv`, barrier safety, no lost arrival, join waits for all, refinement of WorkGroup, every barrier opens, the kernel closes |
| `barrier_open` | 2 tasks, 2 rounds, FIFO, a host that stores what it likes | the same reset and refinement, with the FIFO steps of the last task |
| `fifo` | 2 tasks, 3 rounds, 3 chunks, kernel first | no copy while reading, one chunk per round, chunks in order, refinement of ChunkStream |
| `context` | two programs, "bookkeeping" and "opencl"; 1 kernel, 2 buffers of 1 or 2 bytes, 2 free bytes, 6 events, 2 starts | buffers apart, kernels see buffers, events mapped; arguments fresh, bytes kept, a wait means done, kernels in turn |
| `power_enjoy` | 2 requests, 2 sessions, 2 names, 2 ids, 1 car | sessions name their visitors, booked is marked, marked gets booked, no new claims |
| `pedibus` | 4 programs on 5 nodes, fair | ways within alpha, lines counted, the queue lasts, arcs sorted and least arc last, minimal tree, all programs end |
| `fifo_lost_chunk` | 2 tasks, 2 rounds, 2 chunks, kernel first | a chunk is never read |
| `fifo_torn_read` | the same, FIFO first | a round reads two chunks |
| `context_full` | 2 buffers, 1 free byte | SUCCESS without a place |
| `context_start` | 2 kernels | the wrong completion event |
| `double_reservation` | 2 requests, 1 car | two reservations of one car |
| `duplicate_name` | 2 requests, 2 ids | two rows of one name |

The first six pass; the others are findings and each checks one property only.

Why the bounds are enough for what they ask. *barrier*: two rounds is the least at which a
task released from one barrier can meet one that is still in it, in the next barrier and with
the other sense; three tasks is the least with a last task, one that is counted, and one that
is between the two. *fifo*: three rounds and chunks is the least with a first chunk (which the
host may put there before anybody asks), one in the middle, and a last one after which nobody
refills. Two tasks give a reader for each half of a copy. *context*: sizes of 1 and 2 in two
free bytes let an allocation succeed, fail at the first and at the second buffer, and be
repeated. Six events permit to register a buffer again, and the word of the sixth lies in the two
free bytes, as that of the 257th would in the code. The application has
buffers of one byte, one kernel and two starts: enough for a buffer that moves between packing
and start, for a kernel started twice with arguments of different age, and for a second run
that finds the word left at 1. It is checked together with the bookkeeping, as the two share
the memory and its invariants.
*power_enjoy*: two names are the least for two
visitors in one session, two ids for two rows of one name, and races for a name, a car or a
session are between two requests. Requests end and new ones come, so that the one that must not
get in once two have is there too. A third request, session or id, or a second car, takes TLC
beyond some minutes; the theorems are for any number.
*pedibus*: five nodes are the least with two lines of two stops, so that a leaf can move under
a leaf of another line and a third be looked at after it. Points are corners of 3-4-5
triangles (whole distances), with dangers of five kinds and two alphas; arrays have up to four
arcs drawn from six, with ties of every kind; graphs are all those on five nodes with weights up to 2 in which
the last node has one edge.

`CHECK_DEADLOCK FALSE` stands in every configuration, because every system here may stop: a
kernel closes, ids are used up, a solution is written, and in the FIFO runs host and kernel may have nothing more to
say. Symmetry is used in runs without liveness only.

**Fairness.** Two runs need any. In `pedibus` a sequential program that can go on does: weak
fairness of each program's next step. In `barrier` a thread that can run is run: weak fairness of each
thread's steps. Taking a word gets strong fairness, since neither the semaphore nor the spin
promises an order: a waiter whose `mango_wait` finds the wrong value sleeps before it tries
again, while a `mango_lock` that finds 0 retries at once, so a word that is free again and
again is in the end found free. Weak fairness would not be enough for TLC to find the barrier
opening, nor for the code: two tasks that poll in turn could hide the word from a third for
ever.

## 4. Findings

1. *Lost chunk* (`buffer.h:109`). `synch_write` announces a chunk with a store that takes no
   lock. A task that has locked the event and seen WRITE stores WRITE back over it. The FIFO
   thread takes that for a new request and overwrites a chunk nobody has read.
2. *Torn read* (`event.h:61`). With the order of waits of `test_gn_fifo.c` the main thread
   polls the event too, and may put back a WRITE from before the kernel took the chunk. The
   copy then runs while tasks read. With the other order it does not (proved, see below).
3. *Out of memory is SUCCESS* (`context.h:121`). A kernel started after that may store anywhere,
   through the uninitialised address of the buffer that found no room.
4. *NULL event* (`mango.cpp:177`): `mango_start_kernel` looks up id 0 and returns the
   completion event of the first kernel registered, where the header promises a new one.
5. *Two reservations of one car* (`CarSearchBean.java:61`), against the fact
   `carOnlyInOneReserv` of the Alloy model.
6. *Two users of one name* (`RegistrationServlet.java:128`): no unique key in the table.

Seen while reading, but not the subject of a run: `walking_bus.c:148` prints the edge from
`whoTo[min]` also where the length it has just recorded is the one by way of `last`, so the
printed tree can be longer than what was checked. With points (0,0), (-7,-2), (-6,1), (-1,-6),
(-9,0), (-10,-8), (12,-2), (-9,-10) and alpha 1.5 the printed way of stop 5 is 19.73 where 19.21
is allowed. That takes seven stops, with distances that are not whole, and is out of reach of
the checked instances. The submitted solver does not share it. `clGetDeviceIDs` never finds a
device; `clCreateBuffer` with a host pointer writes through an address nobody has assigned;
a second wait for a kernel's event asks its future again; `getReservationByUserID` names a query
that does not exist; a car that is Unavailable can be reserved by its number; the flag LOGGEDIN
is written and never read; nothing ends a reservation.

## 5. Proofs

All theorems hold for every value of the constants that satisfies the named assumptions
(`GroupAssumption`, `FifoAssumption`, `ContextAssumption`, `LaunchAssumption`,
`WrapAssumption`, `SessionsAssumption`, `CarsAssumption`, `BusAssumption`, `PrimAssumption`,
`DraftAssumption`, `SortAssumption`). Of these, finiteness of `Requests` is there because the
claims on a name or a car are counted, and `~ FifoFirst` in some theorems of `MangoFifo_proofs`
is the order of waits they are about.

**MangoHN_proofs.** `Invariance` proves the inductive invariant `IInv`, and from it
`BarrierIsSafe`, `ResetIsSafe`, `JoinIsSafe` and `Refinement`. Barrier safety is not inductive
by itself: the code keeps no set of who has arrived, only numbers. `IInv` says what the numbers
stand for. `LocksAreHeld`: a word is 0 exactly while one thread is between its lock and its
store, so that a stored count is a count nobody else is changing. `BarrierCount` and
`ExitCount`: the words count missing tasks plus one, the register of whoever holds the word
included. `ReleaseSense` and `RoundSense`: the release word has the sense of the current
barrier, and a task behind it waits for exactly that value. `LastIsAlone`: when a task is the
last, all have arrived, so its reset without a lock is harmless. Refinement maps the decrement
of the last arrival to `Arrive`, each return to `Leave`, the close of the kernel to
`CloseGroup`, and everything else to a stutter.

**MangoFifo_proofs.** `FifoInvariance` and `FifoBarrierIsSafe` hold in both orders of waits,
whatever the host does to the FIFO event: `IInv` says nothing about the value of that word, and
that is why. All else is about the kernel-first order. `KernelFirstInvariance` proves the
inductive `FifoIInv`, and from it come `NoChunkIsOverwritten`, `RoundsAreWhole` and
`ChunksComeInOrder`. Its parts answer one question each. Who may copy: `GateWhileCopying`,
while anybody can still see WRITE or store it back, the last task of the current barrier is
waiting for the host, or no barrier has got past its FIFO step. Who else touches the event:
`AfterKernel` keeps the main thread out of it until the kernel is gone, which is what fails in
the other order. Why no READ is left behind for the next barrier, as would bring an old chunk
again: `ReadIsHeldAlone`, who has taken READ holds the word locked, and `ReadMeansUnread`, while
there is a READ its chunk is unread, and there is none while a chunk is being read. `GotAnnounced`:
who is in a round has read older chunks only.

`StreamRefinement` is what the three come to: `FifoSpec` implements `ChunkStream`. Storing READ
maps to `Announce`, which is allowed between rounds only (`AnnouncesBetweenRounds`, by the gate),
reading maps to `Take` of the newest chunk (`ConsumesFromStream`, as no cell is half copied while
a task reads), and all other steps of all threads to stutters.

**MangoContext_proofs.** `ContextInvariance`, and from it `BuffersNeverOverlap`,
`KernelsSeeBuffers` and `EventsAreMapped`. Inside an allocation the address
maps are stale and events unmapped; `TlbStale`, `UnitsMapped` and `GraphEvents` say for which
objects, and that the mapping passes cover them.

**OpenCLWrap_proofs.** `WrapImplementsContext` first: `WrapSpec` implements `ContextSpec`, so
that `ContextInv` holds below the wrapper (`WrapContextInvariance`) and need not be proved
again. Then `WrapInvariance`, and from it `ArgumentsAreFresh`, `BytesAreKept`, `WaitIsEnough`
and `KernelsTakeTurns`. Why no store through an assigned address goes
to another buffer is `Owned`: a package names bytes below `last`
that are in no other buffer, and as places are handed out upwards from `last` and never again,
that stays so when buffers are deregistered and others allocated. `BytesBelowLast` says the
same of what has been stored. Were memory given back, as the header says of deregistration,
`BytesBelong` would be violated (its mutant does that). `TableOwned` is what fresh ids are
for: the table of a kernel has no entry for an id not yet given out. `FutureIsLast` says that
all processes but the one the future belongs to have ended; it does not speak of the completion
word, so a stray store into that word does no harm to `WaitMeansDone`. `HostInvariance` carries `WrapInv` over
to `MangoHost`, the specification that is checked.

**WalkingBus_proofs.** `BusInvariance`, and from it `BusWithinAlpha`, `BusLinesCounted`,
`BusTreeToSchool` and `BusQueueLasts`. That the stale `minDist` of a stop that has moved does
no harm has a reason the source does not state. While the first pass is on a line, the ends of
all older lines are too far from everything that is still to come (`OldEndsExhausted`): had one
been near enough, its arc would have had precedence over starting a line. So a stop that is a
leaf is too far from every stop reached later (`LaterTooFar`). The second pass takes stops in
the same order, so whoever is still to be looked at when a leaf has moved came later, and finds
it too far away by the very distance it has kept (`MovedTooFar`). The queue lasts because the
school's arcs to everything outside wait in it (`ArcsWait`), and none is discarded before its end is
in the tree.

**PrimsAlg_proofs.** `PrimInvariance`: `d` and `whoTo` name the shortest edge from the tree to
each node outside, and what is printed is a tree. `PrimTotalMinimal` is the exchange argument.
The invariant has `TreeExtends`: for every spanning tree there is one that is no heavier and has
all edges printed so far. When the next edge is not in that one, it has another edge that leaves the nodes reached
(`Connects`); that one is no shorter than the chosen one, and putting the chosen one in its place
gives a spanning tree that is no heavier. `TreeWeighed` ties the total to the edges: it is
the number of their units.

**Pedibus_proofs.** `SortLeavesLeastLast` is about `quickSort`. `OthersInOrder`: two arcs out of
order lie in one range that is still to be sorted, or in the one being split. `CallsApart`: these
ranges do not meet, so that what an exchange moves stays where its order was assumed.
`ScansSplit`: `i` has passed nothing less than the pivot, `j` nothing greater, and `j` stops at
the pivot itself at the latest, which is why the test `j >= 0` never matters. `Rearranged`: no
arc is lost or doubled. `DraftInvariance`: a link noted for a stop stays within alpha however the
tree grows, since lengths of stops inside never change. `PedibusBusInvariant`,
`PedibusSortInvariant`, `PedibusPrimInvariant`, `PedibusDraftInvariant` and
`PedibusMinimalTotal` carry the invariants of the four over to the composition that is checked: a
step of one is no step of the others.

**PenjoyReservations_proofs.** `PenjoyInvariance`, and from it `SessionsNameUsers`,
`BookedCarsMarked` and `MarksLeadToBookings`, for any number of requests and crashes.
`KnowsAccount` and `LoginProgress` tie a request to what it has put into its session so far, and
`AttributesInOrder` says of every attribute of a session that it is a visitor's, or is missing
while some login is still to set it. Nothing is assumed of the order of ids or of rows, and logins in one session may overlap.
`NamesNotClaimedTwice` and `CarsNotClaimedTwice` are action properties: what the check of a name
or a car is worth although it is not atomic with the insert. Claims are the rows there are and the
requests past the check; a step may turn a claim of the second kind into one of the first, but
once there is a row (or a mark) nobody joins. They use the invariant and finite cardinalities.

**Only model-checked.** Liveness: `EveryBarrierOpens`, `KernelCloses` and `Finishes` are out of
the provers' reach. All invariants and action properties of the passing runs are proved; the
violated properties of section 4 have counterexamples instead.

A remark on method. Induction theorems of the library that take an operator as a parameter cannot
be used with these provers, and sums can be avoided by counting a set. Where a
program recurses, the model makes small steps, so that its induction is that of the
specification.

## 6. What is not modelled

- `mango_init`, the memory mapping, and an `execvp` that fails (the child then returns into the
  host's code). A kernel that ends without its notification is modelled; the host waits for
  ever then.
- Anything after `Lost`: a program that has dereferenced a null pointer.
- Wait lists of more than one event. Task graphs that name something deregistered.
- BURST reads, the mirror image of writes, marked "Implement read..." in the source.
- `mango_resource_deallocation`, which frees nothing, and futures that `std::async` would run
  deferred: the code lets the library choose, and the model has them run at once.
- The C++ operators of `TaskGraph`, and the variants for UPV_HN_ENABLED and BOSP, which need
  code that is not here.
- Rounding of float distances in the walking bus, its input format, and
  `walking_bus2_UNTESTED.c`, an experiment that was not submitted. `pedibus_checker.py` is a
  script that changes nothing; its constraints are properties of `WalkingBus`.
- Pages that only read, mail transport, hashing, entity facades (generated and unused).
- Animation tests, Alloy model, documents, UML and third-party code.

## 7. Plan

Done, in this order: the device run time and its abstract specification; FIFO buffers; the
host context; PowerEnjoy; processes and the OpenCL wrapper over the host context; the walking
bus and its forerunners; proofs of the main invariant of each; the stream of chunks, the claims,
the minimal tree and the sorting of arcs.

Next:

1. *MangoFifo*: BURST read, and a kernel process that does not start.
2. *WalkingBusDraft*: an instance with seven stops and distances rounded as the program rounds
   them, for the printed tree of section 4.
3. *Proofs*: a refinement of an abstract reservation desk that permits double booking only for
   requests that looked in time.
