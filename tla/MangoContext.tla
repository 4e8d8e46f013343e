---------------------------- MODULE MangoContext ----------------------------
(***************************************************************************)
(* The host's bookkeeping (include/context.h, mm.h, task_graph.h and the C *)
(* interface of src/mango.cpp): an application registers kernels and       *)
(* buffers, each of which brings events of its own, lists them in a task   *)
(* graph, and asks for resource allocation, which gives buffers their      *)
(* place in the shared memory, events their word, and kernels the          *)
(* addresses of both.                                                      *)
(*                                                                         *)
(* The memory is an array of MemSize bytes.  The word of event i is at     *)
(* WordSize * i; buffers are carved from EventArea upwards and never given *)
(* back.  Objects are named by their ids; the host is single-threaded, so  *)
(* only the loop of MM::allocate_buffers is modelled turn by turn.         *)
(***************************************************************************)
EXTENDS Naturals, Sequences

CONSTANTS
  KernelIds, BufferIds,   \* ids the application uses
  Sizes,                  \* sizes it asks for
  MemSize,                \* MM::size
  EventArea,              \* the first last_address: 1024 in the code
  MaxEvents               \* bound: events an application creates

WordSize == 4    \* sizeof(uint32_t)

\* MaxEvents is a bound of the model: nothing in the code counts the events, or
\* keeps their words below EventArea.
ASSUME ContextAssumption ==
  /\ Sizes \subseteq Nat \ {0}
  /\ MemSize \in Nat /\ EventArea \in Nat \ {0} /\ MaxEvents \in Nat
  /\ EventArea <= MemSize

VARIABLES
  nextEvent,     \* Event::id_gen
  kernels,       \* ids in Context::kernels
  kernelEvent,   \* kernelEvent[k]: id of k's completion event
  buffers,       \* ids in Context::buffers
  bufferEvent,   \* bufferEvent[b]: id of b's event
  size,          \* size[b]
  users,         \* users[b]: kernels that read or write b
  events,        \* ids in Context::events
  mapped,        \* events whose gn_addr has been assigned
  place,         \* place[b]: b's phy_addr and gn_addr, or Unplaced
  last,          \* MM::last_address
  tlb,           \* tlb[k][b]: k's address of b, Stray, or Unplaced: no entry
  units,         \* kernels that have a unit
  graph,         \* the task graph
  alloc,         \* where resource_allocation is: "idle", "place" or "map"
  todo,          \* buffers allocate_buffers has still to place
  wild,          \* an event was stored through a gn_addr nobody assigned
  granted,       \* history: buffers an allocation has returned SUCCESS for
  started        \* history: <<k, e>>: mango_start_kernel(k) has returned event e

registry == <<nextEvent, kernels, kernelEvent, buffers, bufferEvent, size, users, events>>
memory == <<mapped, place, last, tlb, units, wild>>
call == <<alloc, todo>>
history == <<granted, started>>
contextVars == <<registry, memory, graph, call, history>>

Unplaced == 0
Stray == MemSize + 1   \* an address computed from a phy_addr nobody has assigned
EmptyGraph == [kernels |-> {}, buffers |-> <<>>, events |-> {}]

\* kernel->event and the three task_events
KernelEvents(k) == kernelEvent[k] .. kernelEvent[k] + 3

Elements(s) == {s[i] : i \in DOMAIN s}

\* The ways to list some of the members of S, each once.
Listings(S) ==
  {s \in UNION {[1 .. n -> S] : n \in 0 .. 3} : \A i, j \in DOMAIN s : s[i] = s[j] => i = j}

-----------------------------------------------------------------------------
ContextInit ==
  /\ nextEvent = 0
  /\ kernels = {} /\ kernelEvent = [k \in KernelIds |-> 0]
  /\ buffers = {} /\ bufferEvent = [b \in BufferIds |-> 0]
  /\ size = [b \in BufferIds |-> 0] /\ users = [b \in BufferIds |-> {}]
  /\ events = {} /\ mapped = {}
  /\ place = [b \in BufferIds |-> Unplaced] /\ last = EventArea
  /\ tlb = [k \in KernelIds |-> [b \in BufferIds |-> Unplaced]]
  /\ units = {} /\ graph = EmptyGraph
  /\ alloc = "idle" /\ todo = <<>>
  /\ wild = FALSE /\ granted = {} /\ started = {}

Idle == alloc = "idle"

\* mango_register_kernel: the kernel brings a completion event and three for
\* its work group.
RegisterKernel(k) ==
  /\ Idle
  /\ k \notin kernels
  /\ nextEvent + 4 <= MaxEvents
  /\ nextEvent' = nextEvent + 4
  /\ kernels' = kernels \cup {k}
  /\ kernelEvent' = [kernelEvent EXCEPT ![k] = nextEvent]
  /\ events' = events \cup (nextEvent .. nextEvent + 3)
  /\ UNCHANGED <<buffers, bufferEvent, size, users, memory, graph, call, history>>

\* mango_register_memory
RegisterMemory(b, n, ks) ==
  /\ Idle
  /\ b \notin buffers
  /\ nextEvent < MaxEvents
  /\ nextEvent' = nextEvent + 1
  /\ buffers' = buffers \cup {b}
  /\ bufferEvent' = [bufferEvent EXCEPT ![b] = nextEvent]
  /\ size' = [size EXCEPT ![b] = n]
  /\ users' = [users EXCEPT ![b] = ks]
  /\ events' = events \cup {nextEvent}
  /\ UNCHANGED <<kernels, kernelEvent, memory, graph, call, history>>

DeregisterMemory_Frees(b) ==   \* mutant: the topmost buffer's memory is used again
  /\ Idle
  /\ b \in buffers
  /\ buffers' = buffers \ {b}
  /\ events' = events \ {bufferEvent[b]}
  /\ bufferEvent' = [bufferEvent EXCEPT ![b] = 0]
  /\ size' = [size EXCEPT ![b] = 0]
  /\ users' = [users EXCEPT ![b] = {}]
  /\ place' = [place EXCEPT ![b] = Unplaced]
  /\ granted' = granted \ {b}
  /\ last' = IF place[b] + size[b] = last THEN place[b] ELSE last
  /\ UNCHANGED <<nextEvent, kernels, kernelEvent, mapped, tlb, units, wild, graph, call, started>>

\* mango_deregister_memory drops the object and gives no memory back.
DeregisterMemory(b) ==
  /\ Idle
  /\ b \in buffers
  /\ buffers' = buffers \ {b}
  /\ events' = events \ {bufferEvent[b]}
  /\ bufferEvent' = [bufferEvent EXCEPT ![b] = 0]
  /\ size' = [size EXCEPT ![b] = 0]
  /\ users' = [users EXCEPT ![b] = {}]
  /\ place' = [place EXCEPT ![b] = Unplaced]
  /\ granted' = granted \ {b}
  /\ UNCHANGED <<nextEvent, kernels, kernelEvent, mapped, last, tlb, units, wild, graph, call,
                 started>>

\* mango_resize_memory does not look whether the buffer has a place, so the
\* application must not call it on one that has ("Do not resize while in use").
ResizeMemory(b, n) ==
  /\ Idle
  /\ b \in buffers
  /\ place[b] = Unplaced
  /\ size' = [size EXCEPT ![b] = n]
  /\ UNCHANGED <<nextEvent, kernels, kernelEvent, buffers, bufferEvent, users, events, memory,
                 graph, call, history>>

CreateGraph_ListedOnly(ks, bs) ==   \* mutant: no loop over cxt->events
  /\ Idle
  /\ graph' = [kernels |-> ks, buffers |-> bs, events |-> {}]
  /\ UNCHANGED <<registry, memory, call, history>>

\* mango_task_graph_create lists what the application names, and every event.
CreateGraph(ks, bs) ==
  /\ Idle
  /\ graph' = [kernels |-> ks, buffers |-> bs, events |-> events]
  /\ UNCHANGED <<registry, memory, call, history>>

\* mango_task_graph_destroy_all
DestroyGraph ==
  /\ Idle
  /\ graph' = EmptyGraph
  /\ UNCHANGED <<registry, memory, call, history>>

-----------------------------------------------------------------------------
\* Context::resource_allocation.

\* What allocate_buffers and allocate_events look up in the context must
\* still be there: they do not check.
GraphIsCurrent ==
  /\ Elements(graph.buffers) \subseteq buffers
  /\ graph.events \subseteq events

BeginAllocation ==
  /\ Idle
  /\ graph # EmptyGraph
  /\ GraphIsCurrent
  /\ units' = units \cup graph.kernels
  /\ alloc' = "place"
  /\ todo' = graph.buffers
  /\ UNCHANGED <<registry, mapped, place, last, tlb, wild, graph, history>>

Fits_Ignored(n) == TRUE   \* mutant
Fits(n) == last + n <= MemSize

PlaceBuffer_NoAdvance ==   \* mutant: last_address stays
  /\ alloc = "place"
  /\ todo # <<>>
  /\ Fits(size[Head(todo)])
  /\ place' = [place EXCEPT ![Head(todo)] = last]
  /\ todo' = Tail(todo)
  /\ UNCHANGED <<registry, mapped, last, tlb, units, wild, graph, alloc, history>>

\* One turn of the loop of MM::allocate_buffers.
PlaceBuffer ==
  /\ alloc = "place"
  /\ todo # <<>>
  /\ Fits(size[Head(todo)])
  /\ place' = [place EXCEPT ![Head(todo)] = last]
  /\ last' = last + size[Head(todo)]
  /\ todo' = Tail(todo)
  /\ UNCHANGED <<registry, mapped, tlb, units, wild, graph, alloc, history>>

\* The loop is over, or returns ERR_OUT_OF_MEMORY: the caller goes on either way.
EndPlacing ==
  /\ alloc = "place"
  /\ todo # <<>> => ~ Fits(size[Head(todo)])
  /\ alloc' = "map"
  /\ todo' = <<>>
  /\ UNCHANGED <<registry, memory, graph, history>>

\* buffers[b]->phy_addr, which is not initialized before b gets its place
PhysicalAddress(b) == IF place[b] = Unplaced THEN Stray ELSE place[b]

Addresses_UnplacedOnly(k, b) ==   \* mutant: an entry is never overwritten
  IF b \in Elements(graph.buffers) /\ k \in users[b] /\ tlb[k][b] = Unplaced
  THEN PhysicalAddress(b) ELSE tlb[k][b]

\* set_vaddr_buffers: the address of b that k has afterwards
Addresses(k, b) ==
  IF b \in Elements(graph.buffers) /\ k \in users[b] THEN PhysicalAddress(b) ELSE tlb[k][b]

\* allocate_events, set_vaddr_buffers, set_vaddr_events, and WRITE into the
\* event of every buffer.  The result is SUCCESS whatever has happened.
MapAll ==
  /\ alloc = "map"
  /\ mapped' = mapped \cup graph.events
  /\ tlb' = [k \in KernelIds |-> [b \in BufferIds |-> Addresses(k, b)]]
  /\ wild' = (wild \/ \E b \in Elements(graph.buffers) : bufferEvent[b] \notin mapped')
  /\ granted' = granted \cup Elements(graph.buffers)
  /\ alloc' = "idle"
  /\ UNCHANGED <<registry, place, last, units, graph, todo, started>>

\* mango_start_kernel(k, args, NULL): the event argument is an id, and NULL is
\* the id of the first event the application has created.
StartKernel(k) ==
  /\ Idle
  /\ k \in units
  /\ 0 \in events
  /\ started' = started \cup {<<k, 0>>}
  /\ UNCHANGED <<registry, memory, graph, call, granted>>

-----------------------------------------------------------------------------
Register ==
  \/ \E k \in KernelIds : RegisterKernel(k)
  \/ \E b \in BufferIds, n \in Sizes, ks \in SUBSET kernels : RegisterMemory(b, n, ks)
  \/ \E b \in BufferIds : DeregisterMemory(b)
  \/ \E b \in BufferIds, n \in Sizes : ResizeMemory(b, n)
  \/ \E ks \in SUBSET kernels, bs \in Listings(buffers) : CreateGraph(ks, bs)
  \/ DestroyGraph

ResourceAllocation == BeginAllocation \/ PlaceBuffer \/ EndPlacing \/ MapAll

ContextNext == Register \/ ResourceAllocation \/ \E k \in KernelIds : StartKernel(k)

ContextSpec == ContextInit /\ [][ContextNext]_contextVars
-----------------------------------------------------------------------------
ContextTypeOK ==
  /\ nextEvent \in 0 .. MaxEvents
  /\ kernels \subseteq KernelIds /\ kernelEvent \in [KernelIds -> Nat]
  /\ buffers \subseteq BufferIds /\ bufferEvent \in [BufferIds -> Nat]
  /\ size \in [BufferIds -> Nat] /\ users \in [BufferIds -> SUBSET KernelIds]
  /\ events \subseteq Nat /\ mapped \subseteq Nat
  /\ place \in [BufferIds -> Nat] /\ last \in EventArea .. MemSize
  /\ tlb \in [KernelIds -> [BufferIds -> Nat]]
  /\ units \subseteq KernelIds
  /\ graph.kernels \subseteq KernelIds
  /\ graph.buffers \in Seq(BufferIds)
  /\ graph.events \subseteq Nat
  /\ alloc \in {"idle", "place", "map"}
  /\ todo \in Seq(BufferIds)
  /\ wild \in BOOLEAN
  /\ granted \subseteq buffers
  /\ started \subseteq KernelIds \X Nat

Placed == {b \in buffers : place[b] # Unplaced}

\* Every place handed out lies between the event area and last_address.
PlacesBelowLast ==
  \A b \in Placed : EventArea <= place[b] /\ place[b] + size[b] <= last

\* Two buffers an application has registered never share a byte, whatever it
\* has registered, deregistered and allocated before, and in whatever order
\* its task graphs list them.
BuffersDisjoint ==
  \A b, c \in Placed : b # c =>
    place[b] + size[b] <= place[c] \/ place[c] + size[c] <= place[b]

\* After resource_allocation a kernel finds a buffer where the host put it,
\* also when the buffer has been allocated again since.
KernelSeesBuffer ==
  Idle => \A b \in Placed : \A k \in users[b] : tlb[k][b] = place[b]

\* Once resource_allocation has given a kernel a unit, the four events it is
\* passed have words; and WRITE was never stored through a stray pointer.
EventsMapped ==
  /\ ~ wild
  /\ Idle => \A k \in units : KernelEvents(k) \subseteq mapped

-----------------------------------------------------------------------------
\* What holds in between, and makes the properties above inductive.

\* An id that is not registered has no place.
NoPlaceUnregistered == \A b \in BufferIds \ buffers : place[b] = Unplaced

\* While resource_allocation runs nothing it looks up can go away.
AllocatingCurrent ==
  /\ alloc # "idle" => GraphIsCurrent
  /\ Elements(todo) \subseteq Elements(graph.buffers)
  /\ alloc # "place" => todo = <<>>

\* The addresses are stale only for buffers that are being allocated.
TlbStale ==
  \A b \in Placed : \A k \in users[b] :
    \/ tlb[k][b] = place[b]
    \/ alloc # "idle" /\ b \in Elements(graph.buffers)

\* Ids of events are given out once; kernels keep theirs.
EventIds ==
  /\ \A e \in events \cup graph.events : e < nextEvent
  /\ \A k \in kernels : KernelEvents(k) \subseteq events
  /\ \A b \in buffers : bufferEvent[b] \in events
  /\ \A b \in buffers, k \in kernels : bufferEvent[b] \notin KernelEvents(k)
  /\ \A b, c \in buffers : bufferEvent[b] = bufferEvent[c] => b = c
  /\ graph.kernels \cup units \subseteq kernels

\* A graph knows the events of its kernels and, unless one of its buffers has
\* been deregistered since, which takes an event away, those of its buffers.
GraphEvents ==
  /\ \A k \in graph.kernels : KernelEvents(k) \subseteq graph.events
  /\ graph.events \subseteq events =>
       \A b \in Elements(graph.buffers) : b \in buffers /\ bufferEvent[b] \in graph.events

\* Only kernels of the graph in hand can still lack an event.
UnitsMapped ==
  \A k \in units :
    \/ KernelEvents(k) \subseteq mapped
    \/ alloc # "idle" /\ k \in graph.kernels

\* The inductive invariant.
ContextInv ==
  /\ ContextTypeOK
  /\ PlacesBelowLast
  /\ BuffersDisjoint
  /\ NoPlaceUnregistered
  /\ AllocatingCurrent
  /\ TlbStale
  /\ EventIds
  /\ GraphEvents
  /\ UnitsMapped
  /\ ~ wild

-----------------------------------------------------------------------------
\* When resource_allocation has returned SUCCESS every buffer of the graph has
\* its place in the memory.
SuccessMeansPlaced == \A b \in granted : place[b] # Unplaced

\* The event mango_start_kernel returns is the one the kernel notifies.
CompletionIsNotified == \A s \in started : s[2] = kernelEvent[s[1]]
=============================================================================
