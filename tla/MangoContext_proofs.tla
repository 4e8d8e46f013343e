------------------------ MODULE MangoContext_proofs ------------------------
(***************************************************************************)
(* For every set of kernels and buffers, every size and every number of    *)
(* events: whatever an application registers, deregisters and allocates,   *)
(* buffers do not overlap, kernels are given the addresses the host uses,  *)
(* and the events of a kernel that can be started are mapped.              *)
(***************************************************************************)
EXTENDS MangoContext, TLAPS

\* What a task graph lists is a sequence of buffers.
LEMMA ListingIsSeq ==
  ASSUME NEW S, NEW T, S \subseteq T, NEW s \in Listings(S)
  PROVE  s \in Seq(T) /\ Elements(s) \subseteq S
<1>1. PICK n \in 0 .. 3 : s \in [1 .. n -> S]
  BY DEF Listings
<1>2. DOMAIN s = 1 .. n /\ \A i \in 1 .. n : s[i] \in S /\ s[i] \in T
  BY <1>1
<1>3. s \in [1 .. n -> T]
  BY <1>1, <1>2
<1>4. s \in Seq(T)
  BY <1>3
<1> QED
  BY <1>2, <1>4 DEF Elements

\* Of a listing, the first element and the rest.
LEMMA HeadAndTail ==
  ASSUME NEW T, NEW s \in Seq(T), s # <<>>
  PROVE  /\ Head(s) \in T /\ Tail(s) \in Seq(T)
         /\ Head(s) \in Elements(s)
         /\ Elements(Tail(s)) \subseteq Elements(s)
<1>1. Len(s) \in Nat \ {0} /\ DOMAIN s = 1 .. Len(s)
  OBVIOUS
<1>2. Head(s) = s[1] /\ 1 \in DOMAIN s
  BY <1>1
<1>3. \A i \in DOMAIN Tail(s) : i + 1 \in DOMAIN s /\ Tail(s)[i] = s[i + 1]
  BY <1>1
<1> QED
  BY <1>1, <1>2, <1>3 DEF Elements

LEMMA EmptyElements == Elements(<<>>) = {}
BY DEF Elements

-----------------------------------------------------------------------------
\* ContextInv holds initially.
LEMMA InitContextInv ==
  ASSUME ContextInit
  PROVE  ContextInv
<1> USE ContextAssumption DEF ContextInit, EmptyGraph, Unplaced, Placed
<1>1. ContextTypeOK
  <2>1. graph.kernels = {} /\ graph.buffers = <<>> /\ graph.events = {}
    OBVIOUS
  <2>2. last \in EventArea .. MemSize /\ nextEvent \in 0 .. MaxEvents
    OBVIOUS
  <2>3. <<>> \in Seq(BufferIds)
    OBVIOUS
  <2> QED
    BY <2>1, <2>2, <2>3 DEF ContextTypeOK
<1>2. PlacesBelowLast /\ BuffersDisjoint /\ NoPlaceUnregistered /\ TlbStale /\ EventIds
  BY DEF PlacesBelowLast, BuffersDisjoint, NoPlaceUnregistered, TlbStale, EventIds
<1>3. AllocatingCurrent /\ GraphEvents /\ UnitsMapped
  BY EmptyElements DEF AllocatingCurrent, GraphEvents, UnitsMapped
<1> QED
  BY <1>1, <1>2, <1>3 DEF ContextInv

\* A kernel registered late gets events nobody has.
LEMMA RegisterKernelInv ==
  ASSUME ContextInv, NEW k \in KernelIds, RegisterKernel(k)
  PROVE  ContextInv'
<1> USE ContextAssumption DEF ContextInv, RegisterKernel, Idle, memory, call, history
<1>1. ContextTypeOK'
  BY DEF ContextTypeOK
<1>2. PlacesBelowLast' /\ BuffersDisjoint' /\ NoPlaceUnregistered' /\ TlbStale'
  BY DEF PlacesBelowLast, BuffersDisjoint, NoPlaceUnregistered, TlbStale, Placed
<1>3. AllocatingCurrent'
  BY DEF AllocatingCurrent, GraphIsCurrent
<1>4. \A j \in kernels : kernelEvent'[j] = kernelEvent[j]
  BY DEF ContextTypeOK
<1>5. kernelEvent'[k] = nextEvent
  BY DEF ContextTypeOK
<1>6. nextEvent \in Nat /\ nextEvent' = nextEvent + 4 /\ \A e \in events : e \in Nat /\ e < nextEvent
  BY DEF ContextTypeOK, EventIds
<1>7. EventIds'
  <2>1. \A e \in events' \cup graph'.events : e < nextEvent'
    BY <1>6 DEF EventIds, ContextTypeOK
  <2>2. \A j \in kernels' : KernelEvents(j)' \subseteq events'
    BY <1>4, <1>5, <1>6 DEF EventIds, KernelEvents
  <2>3. \A b \in buffers' : bufferEvent'[b] \in events' /\ bufferEvent'[b] < nextEvent
    BY <1>6 DEF EventIds
  <2>4. \A b \in buffers', j \in kernels' : bufferEvent'[b] \notin KernelEvents(j)'
    BY <1>4, <1>5, <1>6, <2>3 DEF EventIds, KernelEvents
  <2> QED
    BY <2>1, <2>2, <2>3, <2>4 DEF EventIds
<1>8. GraphEvents'
  <2>1. \A j \in graph.kernels : KernelEvents(j)' = KernelEvents(j)
    BY <1>4 DEF EventIds, KernelEvents
  <2>2. graph.events \subseteq events' => graph.events \subseteq events
    BY <1>6 DEF EventIds, ContextTypeOK
  <2> QED
    BY <2>1, <2>2 DEF GraphEvents
<1>9. UnitsMapped'
  BY <1>4 DEF UnitsMapped, EventIds, KernelEvents
<1> QED
  BY <1>1, <1>2, <1>3, <1>7, <1>8, <1>9

\* A buffer registered has no place, and an event nobody has.
LEMMA RegisterMemoryInv ==
  ASSUME ContextInv, NEW b \in BufferIds, NEW n \in Sizes, NEW ks \in SUBSET kernels,
         RegisterMemory(b, n, ks)
  PROVE  ContextInv'
<1> USE ContextAssumption DEF ContextInv, RegisterMemory, Idle, memory, call, history
<1>1. ContextTypeOK'
  <2>1. nextEvent \in Nat /\ nextEvent' \in 0 .. MaxEvents
    BY DEF ContextTypeOK
  <2>2. events' \subseteq Nat /\ buffers' \subseteq BufferIds /\ granted' \subseteq buffers'
    BY <2>1 DEF ContextTypeOK
  <2>3. bufferEvent' \in [BufferIds -> Nat] /\ size' \in [BufferIds -> Nat]
    BY <2>1 DEF ContextTypeOK
  <2>4. users' \in [BufferIds -> SUBSET KernelIds]
    BY DEF ContextTypeOK
  <2> QED
    BY <2>1, <2>2, <2>3, <2>4 DEF ContextTypeOK
<1>2. place'[b] = Unplaced /\ Placed' = Placed /\ b \notin Placed
  BY DEF NoPlaceUnregistered, Placed
<1>3. \A c \in Placed : size'[c] = size[c] /\ users'[c] = users[c] /\ place'[c] = place[c]
  BY <1>2 DEF ContextTypeOK, Placed
<1>4. PlacesBelowLast' /\ BuffersDisjoint' /\ NoPlaceUnregistered' /\ TlbStale'
  BY <1>2, <1>3 DEF PlacesBelowLast, BuffersDisjoint, NoPlaceUnregistered, TlbStale
<1>5. AllocatingCurrent'
  BY DEF AllocatingCurrent
<1>6. /\ nextEvent \in Nat /\ nextEvent' = nextEvent + 1
      /\ \A e \in events \cup graph.events : e \in Nat /\ e < nextEvent
  BY DEF ContextTypeOK, EventIds
<1>7. \A c \in buffers : c # b /\ bufferEvent'[c] = bufferEvent[c]
  BY DEF ContextTypeOK
<1>8. bufferEvent'[b] = nextEvent
  BY DEF ContextTypeOK
<1>9. EventIds'
  BY <1>6, <1>7, <1>8 DEF EventIds, KernelEvents
<1>10. GraphEvents'
  <2>1. graph.events \subseteq events' => graph.events \subseteq events
    BY <1>6
  <2> QED
    BY <1>7, <2>1 DEF GraphEvents, KernelEvents
<1>11. UnitsMapped'
  BY DEF UnitsMapped, KernelEvents
<1> QED
  BY <1>1, <1>4, <1>5, <1>9, <1>10, <1>11

\* Taking a buffer away takes its event away, which no one else has.
LEMMA DeregisterMemoryInv ==
  ASSUME ContextInv, NEW b \in BufferIds, DeregisterMemory(b)
  PROVE  ContextInv'
<1> USE ContextAssumption DEF ContextInv, DeregisterMemory, Idle, call
<1>1. ContextTypeOK'
  BY DEF ContextTypeOK, Unplaced
<1>2. Placed' = Placed \ {b}
  BY DEF ContextTypeOK, Placed
<1>3. \A c \in BufferIds \ {b} :
        size'[c] = size[c] /\ users'[c] = users[c] /\ place'[c] = place[c]
        /\ bufferEvent'[c] = bufferEvent[c]
  BY DEF ContextTypeOK
<1>4. Placed' \subseteq BufferIds \ {b}
  BY <1>2 DEF ContextTypeOK, Placed
<1>5. PlacesBelowLast' /\ BuffersDisjoint' /\ TlbStale'
  BY <1>2, <1>3, <1>4 DEF PlacesBelowLast, BuffersDisjoint, TlbStale
<1>6. NoPlaceUnregistered'
  BY <1>3 DEF NoPlaceUnregistered, ContextTypeOK
<1>7. AllocatingCurrent'
  BY DEF AllocatingCurrent
<1>8. EventIds'
  <2>1. \A k \in kernels : KernelEvents(k)' \subseteq events'
    BY DEF EventIds, KernelEvents
  <2>2. \A c \in buffers' : c \in BufferIds \ {b} /\ bufferEvent'[c] \in events'
    BY <1>3 DEF EventIds, ContextTypeOK
  <2> QED
    BY <1>3, <2>1, <2>2 DEF EventIds, KernelEvents
<1>9. GraphEvents'
  <2>1. ASSUME graph.events \subseteq events', NEW c \in Elements(graph.buffers)
        PROVE  c \in buffers' /\ bufferEvent'[c] \in graph.events
    BY <1>3, <2>1 DEF GraphEvents, ContextTypeOK
  <2> QED
    BY <2>1 DEF GraphEvents, KernelEvents
<1>10. UnitsMapped'
  BY DEF UnitsMapped, KernelEvents
<1> QED
  BY <1>1, <1>5, <1>6, <1>7, <1>8, <1>9, <1>10

\* Only a buffer without a place is resized.
LEMMA ResizeMemoryInv ==
  ASSUME ContextInv, NEW b \in BufferIds, NEW n \in Sizes, ResizeMemory(b, n)
  PROVE  ContextInv'
<1> USE ContextAssumption DEF ContextInv, ResizeMemory, Idle, memory, call, history
<1>1. ContextTypeOK'
  BY DEF ContextTypeOK
<1>2. \A c \in Placed : c # b /\ size'[c] = size[c]
  BY DEF ContextTypeOK, Placed
<1>3. PlacesBelowLast' /\ BuffersDisjoint'
  BY <1>2 DEF PlacesBelowLast, BuffersDisjoint, Placed
<1>4. NoPlaceUnregistered' /\ TlbStale' /\ AllocatingCurrent'
  BY DEF NoPlaceUnregistered, TlbStale, AllocatingCurrent, Placed
<1>5. EventIds' /\ GraphEvents' /\ UnitsMapped'
  BY DEF EventIds, GraphEvents, UnitsMapped, KernelEvents
<1> QED
  BY <1>1, <1>3, <1>4, <1>5

\* A graph lists every event there is.
LEMMA CreateGraphInv ==
  ASSUME ContextInv, NEW ks \in SUBSET kernels, NEW bs \in Listings(buffers),
         CreateGraph(ks, bs)
  PROVE  ContextInv'
<1> USE DEF ContextInv, CreateGraph, Idle, registry, memory, call, history
<1>1. bs \in Seq(BufferIds) /\ Elements(bs) \subseteq buffers
  BY ListingIsSeq DEF ContextTypeOK
<1>2. graph'.kernels = ks /\ graph'.buffers = bs /\ graph'.events = events
  OBVIOUS
<1>3. ContextTypeOK'
  BY <1>1, <1>2 DEF ContextTypeOK
<1>4. PlacesBelowLast' /\ BuffersDisjoint' /\ NoPlaceUnregistered' /\ TlbStale'
  BY DEF PlacesBelowLast, BuffersDisjoint, NoPlaceUnregistered, TlbStale, Placed
<1>5. AllocatingCurrent'
  BY EmptyElements DEF AllocatingCurrent
<1>6. EventIds' /\ GraphEvents'
  BY <1>1, <1>2 DEF EventIds, GraphEvents, KernelEvents
<1>7. UnitsMapped'
  BY DEF UnitsMapped, KernelEvents
<1> QED
  BY <1>3, <1>4, <1>5, <1>6, <1>7

LEMMA DestroyGraphInv ==
  ASSUME ContextInv, DestroyGraph
  PROVE  ContextInv'
<1> USE DEF ContextInv, DestroyGraph, Idle, registry, memory, call, history, EmptyGraph
<1>1. graph'.kernels = {} /\ graph'.buffers = <<>> /\ graph'.events = {}
  OBVIOUS
<1>2. ContextTypeOK'
  BY <1>1 DEF ContextTypeOK
<1>3. PlacesBelowLast' /\ BuffersDisjoint' /\ NoPlaceUnregistered' /\ TlbStale'
  BY DEF PlacesBelowLast, BuffersDisjoint, NoPlaceUnregistered, TlbStale, Placed
<1>4. AllocatingCurrent'
  BY <1>1, EmptyElements DEF AllocatingCurrent
<1>5. EventIds' /\ GraphEvents'
  BY <1>1, EmptyElements DEF EventIds, GraphEvents, KernelEvents
<1>6. UnitsMapped'
  BY DEF UnitsMapped, KernelEvents
<1> QED
  BY <1>2, <1>3, <1>4, <1>5, <1>6

-----------------------------------------------------------------------------
\* The steps of resource_allocation.
LEMMA BeginAllocationInv ==
  ASSUME ContextInv, BeginAllocation
  PROVE  ContextInv'
<1> USE DEF ContextInv, BeginAllocation, Idle, registry, history
<1>1. ContextTypeOK'
  BY DEF ContextTypeOK
<1>2. PlacesBelowLast' /\ BuffersDisjoint' /\ NoPlaceUnregistered' /\ TlbStale'
  BY DEF PlacesBelowLast, BuffersDisjoint, NoPlaceUnregistered, TlbStale, Placed
<1>3. AllocatingCurrent'
  BY DEF AllocatingCurrent, GraphIsCurrent
<1>4. EventIds' /\ GraphEvents'
  BY DEF EventIds, GraphEvents, KernelEvents
<1>5. UnitsMapped'
  BY DEF UnitsMapped, KernelEvents
<1> QED
  BY <1>1, <1>2, <1>3, <1>4, <1>5

\* The buffer placed lies above all others and inside the memory.
LEMMA PlaceBufferInv ==
  ASSUME ContextInv, PlaceBuffer
  PROVE  ContextInv'
<1> USE ContextAssumption DEF ContextInv, PlaceBuffer, registry, history
<1> DEFINE b == Head(todo)
<1>1. /\ b \in Elements(graph.buffers) /\ b \in buffers /\ b \in BufferIds
      /\ Tail(todo) \in Seq(BufferIds) /\ Elements(todo') \subseteq Elements(graph.buffers)
  BY HeadAndTail DEF ContextTypeOK, AllocatingCurrent, GraphIsCurrent
<1>2. /\ size[b] \in Nat /\ last \in Nat /\ MemSize \in Nat /\ EventArea \in Nat
      /\ EventArea <= last /\ EventArea # 0
      /\ last' = last + size[b] /\ last' <= MemSize
  BY <1>1 DEF ContextTypeOK, Fits
<1>3. place' = [place EXCEPT ![b] = last]
  OBVIOUS
<1> HIDE DEF b
<1>4. ContextTypeOK'
  <2>1. place' \in [BufferIds -> Nat]
    BY <1>1, <1>2, <1>3 DEF ContextTypeOK
  <2>2. last' \in EventArea .. MemSize
    BY <1>2
  <2> QED
    BY <1>1, <2>1, <2>2 DEF ContextTypeOK
<1>5. place'[b] = last /\ \A c \in BufferIds \ {b} : place'[c] = place[c]
  BY <1>1, <1>3 DEF ContextTypeOK
<1>6. \A c \in Placed' : c # b =>
        c \in Placed /\ c \in BufferIds \ {b} /\ place'[c] = place[c]
  <2>1. Placed' = {c \in buffers : place'[c] # Unplaced} /\ buffers \subseteq BufferIds
    BY DEF Placed, ContextTypeOK
  <2> SUFFICES ASSUME NEW c \in Placed', c # b
               PROVE  c \in Placed /\ c \in BufferIds \ {b} /\ place'[c] = place[c]
    OBVIOUS
  <2>2. c \in buffers /\ c \in BufferIds \ {b} /\ place'[c] # Unplaced
    BY <2>1
  <2> QED
    BY <1>5, <2>2 DEF Placed
<1>7. \A c \in Placed : c \in BufferIds /\ place[c] \in Nat /\ size[c] \in Nat
  BY DEF Placed, ContextTypeOK
<1>8. PlacesBelowLast'
  <2> SUFFICES ASSUME NEW c \in Placed'
               PROVE  EventArea <= place'[c] /\ place'[c] + size[c] <= last'
    BY DEF PlacesBelowLast
  <2>1. CASE c = b
    BY <1>2, <1>5, <2>1
  <2>2. CASE c # b
    <3>1. c \in Placed /\ place'[c] = place[c] /\ place[c] \in Nat /\ size[c] \in Nat
      BY <1>6, <1>7, <2>2
    <3>2. EventArea <= place[c] /\ place[c] + size[c] <= last
      BY <3>1 DEF PlacesBelowLast
    <3> HIDE DEF ContextInv, PlaceBuffer
    <3> QED
      BY <1>2, <3>1, <3>2
  <2> QED
    BY <2>1, <2>2
<1>9. BuffersDisjoint'
  <2> SUFFICES ASSUME NEW c \in Placed', NEW d \in Placed', c # d
               PROVE  \/ place'[c] + size[c] <= place'[d]
                      \/ place'[d] + size[d] <= place'[c]
    BY DEF BuffersDisjoint
  <2>1. CASE c = b
    BY <1>5, <1>6, <2>1 DEF PlacesBelowLast
  <2>2. CASE d = b
    BY <1>5, <1>6, <2>2 DEF PlacesBelowLast
  <2>3. CASE c # b /\ d # b
    BY <1>6, <2>3 DEF BuffersDisjoint
  <2> QED
    BY <2>1, <2>2, <2>3
<1>10. NoPlaceUnregistered'
  BY <1>1, <1>5 DEF NoPlaceUnregistered
<1>11. TlbStale'
  BY <1>1, <1>6 DEF TlbStale
<1>12. AllocatingCurrent'
  BY <1>1 DEF AllocatingCurrent, GraphIsCurrent
<1>13. EventIds' /\ GraphEvents' /\ UnitsMapped'
  BY DEF EventIds, GraphEvents, UnitsMapped, KernelEvents
<1> QED
  BY <1>4, <1>8, <1>9, <1>10, <1>11, <1>12, <1>13

LEMMA EndPlacingInv ==
  ASSUME ContextInv, EndPlacing
  PROVE  ContextInv'
<1> USE DEF ContextInv, EndPlacing, registry, memory, history
<1>1. ContextTypeOK'
  <2>1. <<>> \in Seq(BufferIds)
    OBVIOUS
  <2> QED
    BY <2>1 DEF ContextTypeOK
<1>2. PlacesBelowLast' /\ BuffersDisjoint' /\ NoPlaceUnregistered' /\ TlbStale'
  BY DEF PlacesBelowLast, BuffersDisjoint, NoPlaceUnregistered, TlbStale, Placed
<1>3. AllocatingCurrent'
  BY EmptyElements DEF AllocatingCurrent, GraphIsCurrent
<1>4. EventIds' /\ GraphEvents' /\ UnitsMapped'
  BY DEF EventIds, GraphEvents, UnitsMapped, KernelEvents
<1> QED
  BY <1>1, <1>2, <1>3, <1>4

\* The addresses and the events the kernels lacked are filled in.
LEMMA MapAllInv ==
  ASSUME ContextInv, MapAll
  PROVE  ContextInv'
<1> USE DEF ContextInv, MapAll, registry
<1>1. /\ Elements(graph.buffers) \subseteq buffers /\ graph.events \subseteq events
      /\ todo = <<>>
  BY DEF AllocatingCurrent, GraphIsCurrent
<1>2. \A k \in KernelIds, b \in BufferIds : tlb'[k][b] = Addresses(k, b)
  OBVIOUS
<1>3. tlb' \in [KernelIds -> [BufferIds -> Nat]]
  BY ContextAssumption DEF ContextTypeOK, Addresses, PhysicalAddress, Stray
<1>4. ~ wild'
  BY <1>1 DEF GraphEvents
<1>5. ContextTypeOK'
  BY <1>1, <1>3, <1>4 DEF ContextTypeOK
<1>6. PlacesBelowLast' /\ BuffersDisjoint' /\ NoPlaceUnregistered'
  BY DEF PlacesBelowLast, BuffersDisjoint, NoPlaceUnregistered, Placed
<1>7. TlbStale'
  BY <1>2 DEF TlbStale, Addresses, PhysicalAddress, Placed, ContextTypeOK
<1>8. AllocatingCurrent'
  BY <1>1, EmptyElements DEF AllocatingCurrent
<1>9. EventIds' /\ GraphEvents'
  BY DEF EventIds, GraphEvents, KernelEvents
<1>10. UnitsMapped'
  BY DEF UnitsMapped, GraphEvents, KernelEvents
<1> QED
  BY <1>4, <1>5, <1>6, <1>7, <1>8, <1>9, <1>10

LEMMA StartKernelInv ==
  ASSUME ContextInv, NEW k \in KernelIds, StartKernel(k)
  PROVE  ContextInv'
<1> USE DEF ContextInv, StartKernel, registry, memory, call
<1>1. ContextTypeOK'
  BY DEF ContextTypeOK
<1>2. PlacesBelowLast' /\ BuffersDisjoint' /\ NoPlaceUnregistered' /\ TlbStale'
  BY DEF PlacesBelowLast, BuffersDisjoint, NoPlaceUnregistered, TlbStale, Placed
<1>3. AllocatingCurrent' /\ EventIds' /\ GraphEvents' /\ UnitsMapped'
  BY DEF AllocatingCurrent, GraphIsCurrent, EventIds, GraphEvents, UnitsMapped, KernelEvents
<1> QED
  BY <1>1, <1>2, <1>3

LEMMA StutterContextInv ==
  ASSUME ContextInv, UNCHANGED contextVars
  PROVE  ContextInv'
<1> USE DEF ContextInv, contextVars, registry, memory, call, history
<1>1. ContextTypeOK'
  BY DEF ContextTypeOK
<1>2. PlacesBelowLast' /\ BuffersDisjoint' /\ NoPlaceUnregistered' /\ TlbStale'
  BY DEF PlacesBelowLast, BuffersDisjoint, NoPlaceUnregistered, TlbStale, Placed
<1>3. AllocatingCurrent' /\ EventIds' /\ GraphEvents' /\ UnitsMapped'
  BY DEF AllocatingCurrent, GraphIsCurrent, EventIds, GraphEvents, UnitsMapped, KernelEvents
<1> QED
  BY <1>1, <1>2, <1>3

-----------------------------------------------------------------------------
\* No step of the application or of an allocation disturbs it.
LEMMA ContextStepInv ==
  ASSUME ContextInv, [ContextNext]_contextVars
  PROVE  ContextInv'
<1>1. CASE Register
  BY <1>1, RegisterKernelInv, RegisterMemoryInv, DeregisterMemoryInv, ResizeMemoryInv,
     CreateGraphInv, DestroyGraphInv DEF Register
<1>2. CASE ResourceAllocation
  BY <1>2, BeginAllocationInv, PlaceBufferInv, EndPlacingInv, MapAllInv
     DEF ResourceAllocation
<1>3. CASE \E k \in KernelIds : StartKernel(k)
  BY <1>3, StartKernelInv
<1>4. CASE UNCHANGED contextVars
  BY <1>4, StutterContextInv
<1> QED
  BY <1>1, <1>2, <1>3, <1>4 DEF ContextNext

\* The inductive invariant of the host's bookkeeping holds whatever the
\* application registers, deregisters, lists and allocates.
THEOREM ContextInvariance == ContextSpec => []ContextInv
<1>1. ContextInit => ContextInv
  BY InitContextInv
<1>2. ContextInv /\ [ContextNext]_contextVars => ContextInv'
  BY ContextStepInv
<1> QED
  BY <1>1, <1>2, PTL DEF ContextSpec

\* MM::allocate_buffers never gives two registered buffers a common byte, in
\* spite of partial allocations, repeated ones and deregistered buffers.
THEOREM BuffersNeverOverlap == ContextSpec => []BuffersDisjoint
<1>1. ContextInv => BuffersDisjoint
  BY DEF ContextInv
<1> QED
  BY <1>1, ContextInvariance, PTL

\* When resource_allocation returns, every kernel has the address of every
\* buffer it uses, also of those that have been placed anew.
THEOREM KernelsSeeBuffers == ContextSpec => []KernelSeesBuffer
<1>1. ContextInv => KernelSeesBuffer
  BY DEF ContextInv, TlbStale, KernelSeesBuffer, Idle
<1> QED
  BY <1>1, ContextInvariance, PTL

\* A kernel with a unit has its four events in the memory, and no event is
\* stored through a pointer MM::allocate_events has not set.
THEOREM EventsAreMapped == ContextSpec => []EventsMapped
<1>1. ContextInv => EventsMapped
  BY DEF ContextInv, UnitsMapped, EventsMapped, Idle
<1> QED
  BY <1>1, ContextInvariance, PTL
=============================================================================
