------------------------ MODULE OpenCLWrap_proofs ------------------------
(***************************************************************************)
(* For every set of kernels and buffers, every memory and every number of  *)
(* starts: an application that uses the OpenCL wrapper is a user of the    *)
(* bookkeeping of MangoContext, no store through the address of a buffer   *)
(* is in another one, and what it has waited for has ended.                *)
(***************************************************************************)
EXTENDS MangoHost, MangoContext_proofs

\* The package of a kernel without arguments, and of an ended process, is empty.
LEMMA EmptyPackage ==
  ASSUME ContextTypeOK
  PROVE  /\ NoPackage \in Packages /\ NoPackage.of = {}
         /\ \A b \in BufferIds : NoPackage.address[b] = Unplaced
<1>1. \A b \in BufferIds : size[b] \in Nat /\ place[b] \in Nat
  BY DEF ContextTypeOK
<1> QED
  BY <1>1 DEF NoPackage, Pack, Packages, Unplaced

-----------------------------------------------------------------------------
\* Every step of the wrapper's application is one of the bookkeeping, or
\* leaves it alone.

\* A pointer nobody assigned ends the program, not the bookkeeping.
LEMMA LostKeepsContext == Lost => UNCHANGED contextVars
BY DEF Lost

LEMMA SetUpIsContext ==
  ASSUME ContextInv, SetUp
  PROVE  ContextNext \/ UNCHANGED contextVars
<1>1. CASE \E p \in {PlatformIDs.platform, "other"}, t \in DeviceTypes : AskDevices(p, t)
  BY <1>1 DEF AskDevices
<1>2. CASE \E callback \in BOOLEAN : clCreateContextFromType(callback)
  BY <1>2 DEF clCreateContextFromType
<1>3. ASSUME NEW k \in KernelIds, NEW t \in {"BINARY", "SOURCE"}, clCreateKernel(k, t)
      PROVE  ContextNext
  BY <1>3 DEF clCreateKernel, LoadKernel, ContextNext, Register
<1>4. ASSUME NEW k \in KernelIds, NEW flags \in FlagSets, NEW n \in AppSizes,
             clCreateBuffer(k, flags, n)
      PROVE  ContextNext
  <2>1. PICK b \in FreshIds :
          RegisterMemory(b, n, IF KernelWrites(flags) \/ KernelReads(flags) THEN {k} ELSE {})
    BY <1>4 DEF clCreateBuffer
  <2>2. k \in kernels /\ b \in BufferIds /\ n \in Sizes
    BY <1>4, <2>1, WrapAssumption DEF clCreateBuffer, FreshIds
  <2>3. (IF KernelWrites(flags) \/ KernelReads(flags) THEN {k} ELSE {}) \in SUBSET kernels
    BY <2>2
  <2> QED
    BY <2>1, <2>2, <2>3 DEF ContextNext, Register
<1>5. CASE \E k \in KernelIds, flags \in FlagSets : clCreateBufferFrom(k, flags)
  BY <1>5, LostKeepsContext DEF clCreateBufferFrom
<1>6. CASE \E b \in BufferIds : clReleaseMemObject(b)
  BY <1>6 DEF clReleaseMemObject, ContextNext, Register
<1> QED
  BY <1>1, <1>2, <1>3, <1>4, <1>5, <1>6 DEF SetUp

LEMMA PrepareIsContext ==
  ASSUME ContextInv, Prepare
  PROVE  ContextNext \/ UNCHANGED contextVars
<1>1. ASSUME NEW bs \in Listings(buffers), TaskGraphCreate(bs)
      PROVE  ContextNext
  BY <1>1 DEF TaskGraphCreate, ContextNext, Register
<1>2. CASE TaskGraphDestroy
  BY <1>2 DEF TaskGraphDestroy, ContextNext, Register
<1>3. CASE AllocationStep
  BY <1>3, LostKeepsContext
     DEF AllocationStep, AllocationFails, Place, Map, ContextNext, ResourceAllocation
<1>4. CASE \E k \in KernelIds, bs \in SUBSET buffers : clSetKernelArgs(k, bs)
  BY <1>4, LostKeepsContext DEF clSetKernelArgs, SetArgs, SetArgsUnallocated
<1>5. CASE \E k \in KernelIds : SetOddArg(k)
  BY <1>5, LostKeepsContext DEF SetOddArg, SetArgs
<1> QED
  BY <1>1, <1>2, <1>3, <1>4, <1>5 DEF Prepare

LEMMA ExecuteIsContext ==
  ASSUME Execute
  PROVE  ContextNext \/ UNCHANGED contextVars
<1>1. ASSUME NEW list \in WaitLists, Wait(list) \/ WaitFails(list)
      PROVE  UNCHANGED contextVars
  BY <1>1, LostKeepsContext DEF Wait, WaitFails
<1>2. ASSUME NEW list \in WaitLists, NEW b \in buffers,
             clEnqueueWriteBuffer(list, b) \/ clEnqueueReadBuffer(list, b)
      PROVE  UNCHANGED contextVars
  BY <1>2, LostKeepsContext
     DEF clEnqueueWriteBuffer, clEnqueueReadBuffer, Write, Read, Wait, TransferFails
<1>3. ASSUME NEW list \in WaitLists, NEW k \in KernelIds, clEnqueueNDRangeKernel(list, k)
      PROVE  ContextNext \/ UNCHANGED contextVars
  <2>1. CASE Start(list, k)
    BY <2>1 DEF Start, ContextNext
  <2>2. CASE StartFails(list, k)
    BY <2>2, LostKeepsContext DEF StartFails
  <2> QED
    BY <1>3, <2>1, <2>2 DEF clEnqueueNDRangeKernel
<1>4. CASE Replace
  BY <1>4 DEF Replace
<1>5. CASE Process
  BY <1>5 DEF Process, Stores, Notifies, Exits, Dies, Step
<1> QED
  BY <1>1, <1>2, <1>3, <1>4, <1>5 DEF Execute

\* Every step of the application is a step of the bookkeeping or none.
LEMMA WrapStepIsContext ==
  ASSUME ContextInv, [WrapNext]_<<contextVars, launchVars, wrapVars>>
  PROVE  [ContextNext]_contextVars
<1>1. CASE clReleaseContext
  BY <1>1 DEF clReleaseContext, Release
<1> QED
  BY <1>1, SetUpIsContext, PrepareIsContext, ExecuteIsContext DEF WrapNext

\* The application the wrapper's comments and test_gn_app.c describe is one of
\* those the bookkeeping is proved for: a refinement of ContextSpec.
THEOREM WrapImplementsContext == WrapSpec => ContextSpec
<1>1. WrapInit => ContextInit
  BY DEF WrapInit
<1>2. ContextInit => ContextInv
  BY InitContextInv
<1>3. ContextInv /\ [WrapNext]_<<contextVars, launchVars, wrapVars>> => [ContextNext]_contextVars
  BY WrapStepIsContext
<1>4. ContextInv /\ [ContextNext]_contextVars => ContextInv'
  BY ContextStepInv
<1> QED
  BY <1>1, <1>2, <1>3, <1>4, PTL DEF WrapSpec, ContextSpec

\* So buffers are apart and seen by kernels under the wrapper too.
THEOREM WrapContextInvariance == WrapSpec => []ContextInv
BY WrapImplementsContext, ContextInvariance, PTL

-----------------------------------------------------------------------------
\* WrapInv holds initially.
LEMMA InitWrapInv ==
  ASSUME WrapInit, ContextInv
  PROVE  WrapInv
<1> USE LaunchAssumption DEF WrapInit, LaunchInit, ContextInit, Unplaced, Placed
<1>1. /\ NoPackage \in Packages /\ NoPackage.of = {}
      /\ \A b \in BufferIds : NoPackage.address[b] = Unplaced
  BY EmptyPackage DEF ContextInv
<1>2. LaunchTypeOK
  <2>1. NoArgs \in [made : BOOLEAN, printable : BOOLEAN, pack : Packages]
    BY <1>1 DEF NoArgs
  <2>2. procs \in Seq([kernel : KernelIds, pack : Packages,
                       state : {"running", "stored", "notified", "ended"}]) /\ Len(procs) <= MaxRuns
    OBVIOUS
  <2> QED
    BY <2>1, <2>2 DEF LaunchTypeOK
<1>3. TableOwned
  BY DEF TableOwned
<1>4. \A k \in KernelIds : args[k].pack = NoPackage
  BY DEF NoArgs
<1>5. PackagesOwned
  <2>1. DOMAIN procs = {}
    OBVIOUS
  <2> QED
    BY <1>1, <1>4, <2>1 DEF PackagesOwned, Owned
<1>6. BytesBelowLast /\ BytesBelong
  BY DEF BytesBelowLast, BytesBelong, Nobody
<1>7. PackedFresh
  BY <1>1, <1>4 DEF PackedFresh
<1>8. FutureIsLast
  BY DEF FutureIsLast, NoFuture
<1> QED
  BY <1>2, <1>3, <1>5, <1>6, <1>7, <1>8 DEF WrapInv

-----------------------------------------------------------------------------
\* The bytes and the words.

\* A buffer that has a place lies in the part of the memory that is tracked.
LEMMA PlacedInDevice ==
  ASSUME ContextInv, NEW b \in Placed, NEW a \in place[b] .. place[b] + size[b] - 1
  PROVE  a \in DeviceBytes
<1>1. /\ EventArea <= place[b] /\ place[b] + size[b] <= MemSize
      /\ place[b] \in Nat /\ size[b] \in Nat
  BY ContextAssumption DEF ContextInv, PlacesBelowLast, ContextTypeOK, Placed
<1> QED
  BY <1>1, ContextAssumption DEF DeviceBytes

\* What the words of events leave in the bytes
LEMMA StoreWordsKeeps ==
  ASSUME LaunchTypeOK, NEW E, StoreWords(E)
  PROVE  /\ bytes' \in [DeviceBytes -> BufferIds \cup {Nobody, Foreign}]
         /\ \A a \in DeviceBytes : bytes'[a] \in {bytes[a], Foreign}
BY DEF StoreWords, LaunchTypeOK

-----------------------------------------------------------------------------
\* The host's steps that give no buffer a new place.

\* What is known of packages, bytes and processes survives whatever leaves the
\* buffers that have a place where they are.
LEMMA PlacesKeep ==
  ASSUME WrapInv, ContextInv, last' = last,
         \A b \in Placed' : /\ b \in Placed /\ place'[b] = place[b] /\ size'[b] = size[b]
                            /\ users'[b] = users[b],
         loaded' \subseteq KernelIds,
         word' \in [KernelIds -> {0, 1}],
         bytes' \in [DeviceBytes -> BufferIds \cup {Nobody, Foreign}],
         \A a \in DeviceBytes : bytes'[a] \in {bytes[a], Foreign},
         UNCHANGED <<args, moved, procs, future, host>>
  PROVE  /\ LaunchTypeOK' /\ PackagesOwned' /\ BytesBelowLast' /\ BytesBelong'
         /\ PackedFresh' /\ FutureIsLast'
<1> USE DEF WrapInv
<1>1. LaunchTypeOK'
  BY DEF LaunchTypeOK
<1>2. PackagesOwned'
  <2>1. \A k \in KernelIds : Owned(args[k].pack)'
    BY DEF PackagesOwned, Owned
  <2>2. \A i \in DOMAIN procs : Owned(procs[i].pack)'
    BY DEF PackagesOwned, Owned
  <2> QED
    BY <2>1, <2>2 DEF PackagesOwned
<1>3. BytesBelowLast'
  BY LaunchAssumption DEF BytesBelowLast, Foreign
<1>4. BytesBelong'
  <2>1. \A b \in Placed : \A a \in place[b] .. place[b] + size[b] - 1 :
          a \in DeviceBytes /\ bytes[a] \in {b, Nobody, Foreign}
    BY PlacedInDevice DEF BytesBelong
  <2> QED
    BY <2>1 DEF BytesBelong
<1>6. PackedFresh'
  BY DEF PackedFresh
<1>5. FutureIsLast'
  BY DEF FutureIsLast, Ended
<1> QED
  BY <1>1, <1>2, <1>3, <1>4, <1>5, <1>6

\* The same, where no event is stored either
LEMMA AllKeep ==
  ASSUME WrapInv, ContextInv, last' = last,
         \A b \in Placed' : /\ b \in Placed /\ place'[b] = place[b] /\ size'[b] = size[b]
                            /\ users'[b] = users[b],
         loaded' \subseteq KernelIds,
         UNCHANGED <<args, moved, procs, word, future, bytes, host>>
  PROVE  /\ LaunchTypeOK' /\ PackagesOwned' /\ BytesBelowLast' /\ BytesBelong'
         /\ PackedFresh' /\ FutureIsLast'
<1>1. /\ word' \in [KernelIds -> {0, 1}]
      /\ bytes' \in [DeviceBytes -> BufferIds \cup {Nobody, Foreign}]
      /\ \A a \in DeviceBytes : bytes'[a] \in {bytes[a], Foreign}
  BY DEF WrapInv, LaunchTypeOK
<1> QED
  BY <1>1, PlacesKeep

LEMMA CreateKernelWrapInv ==
  ASSUME ContextInv, WrapInv, NEW k \in KernelIds, NEW t, clCreateKernel(k, t)
  PROVE  WrapInv'
<1> USE DEF clCreateKernel, LoadKernel, RegisterKernel, memory, wrapVars
<1>1. /\ LaunchTypeOK' /\ PackagesOwned' /\ BytesBelowLast' /\ BytesBelong'
      /\ PackedFresh' /\ FutureIsLast'
  <2>1. loaded' \subseteq KernelIds
    BY DEF WrapInv, LaunchTypeOK
  <2> QED
    BY <2>1, AllKeep DEF ContextInv, Placed
<1>2. TableOwned'
  BY DEF WrapInv, TableOwned, Placed
<1> QED
  BY <1>1, <1>2 DEF WrapInv

LEMMA CreateBufferWrapInv ==
  ASSUME ContextInv, WrapInv, NEW k \in KernelIds, NEW flags, NEW n \in AppSizes,
         clCreateBuffer(k, flags, n)
  PROVE  WrapInv'
<1> DEFINE ks == IF KernelWrites(flags) \/ KernelReads(flags) THEN {k} ELSE {}
<1>1. PICK b \in FreshIds : RegisterMemory(b, n, ks) /\ bufferIds' = bufferIds \cup {b}
  BY DEF clCreateBuffer
<1> HIDE DEF ks
<1> USE DEF RegisterMemory, memory, launchVars
<1>2. b \in BufferIds \ bufferIds /\ b \notin buffers
  BY <1>1 DEF FreshIds
<1>3. place[b] = Unplaced
  BY <1>2 DEF ContextInv, NoPlaceUnregistered
<1>4. UNCHANGED <<tlb, place, last, launchVars>> /\ buffers' = buffers \cup {b}
  BY <1>1 DEF clCreateBuffer
<1>5. \A c \in buffers : users'[c] = users[c] /\ size'[c] = size[c]
  BY <1>1, <1>2 DEF ContextInv, ContextTypeOK
<1>6. Placed' = Placed
  BY <1>3, <1>4 DEF Placed
<1>7. /\ LaunchTypeOK' /\ PackagesOwned' /\ BytesBelowLast' /\ BytesBelong'
      /\ PackedFresh' /\ FutureIsLast'
  <2>1. \A c \in Placed' : /\ c \in Placed /\ place'[c] = place[c] /\ size'[c] = size[c]
                           /\ users'[c] = users[c]
    BY <1>4, <1>5, <1>6 DEF Placed
  <2>2. loaded' \subseteq KernelIds
    BY <1>4 DEF WrapInv, LaunchTypeOK
  <2> QED
    BY <1>4, <2>1, <2>2, AllKeep DEF ContextInv
<1>8. TableOwned'
  BY <1>1, <1>2, <1>4, <1>5, <1>6 DEF WrapInv, TableOwned
<1> QED
  BY <1>7, <1>8 DEF WrapInv

LEMMA ReleaseMemObjectWrapInv ==
  ASSUME ContextInv, WrapInv, NEW b \in BufferIds, clReleaseMemObject(b)
  PROVE  WrapInv'
<1> USE DEF clReleaseMemObject, DeregisterMemory, launchVars, wrapVars
<1>1. /\ Placed' = Placed \ {b}
      /\ \A c \in Placed' : place'[c] = place[c] /\ size'[c] = size[c] /\ users'[c] = users[c]
  BY DEF Placed, ContextInv, ContextTypeOK, Unplaced
<1>2. /\ LaunchTypeOK' /\ PackagesOwned' /\ BytesBelowLast' /\ BytesBelong'
      /\ PackedFresh' /\ FutureIsLast'
  <2>1. loaded' \subseteq KernelIds
    BY DEF WrapInv, LaunchTypeOK
  <2> QED
    BY <1>1, <2>1, AllKeep DEF ContextInv
<1>3. TableOwned'
  BY <1>1 DEF WrapInv, TableOwned, Placed, ContextInv, ContextTypeOK
<1> QED
  BY <1>2, <1>3 DEF WrapInv

\* Task graphs, the beginning of an allocation, and the end of its first pass.
LEMMA TablesKeptWrapInv ==
  ASSUME ContextInv, WrapInv,
         UNCHANGED <<buffers, size, users, place, last, tlb, launchVars, bufferIds>>
  PROVE  WrapInv'
<1>1. /\ LaunchTypeOK' /\ PackagesOwned' /\ BytesBelowLast' /\ BytesBelong'
      /\ PackedFresh' /\ FutureIsLast'
  <2>1. loaded' \subseteq KernelIds
    BY DEF WrapInv, LaunchTypeOK, launchVars
  <2> QED
    BY <2>1, AllKeep DEF ContextInv, Placed, launchVars
<1>2. TableOwned'
  BY DEF WrapInv, TableOwned, Placed
<1> QED
  BY <1>1, <1>2 DEF WrapInv

LEMMA MapWrapInv ==
  ASSUME ContextInv, WrapInv, Map, UNCHANGED wrapVars
  PROVE  WrapInv'
<1> USE DEF Map, MapAll, registry, wrapVars
<1>1. /\ LaunchTypeOK' /\ PackagesOwned' /\ BytesBelowLast' /\ BytesBelong'
      /\ PackedFresh' /\ FutureIsLast'
  <2>1. loaded' \subseteq KernelIds /\ word' \in [KernelIds -> {0, 1}]
    BY DEF WrapInv, LaunchTypeOK
  <2>2. /\ bytes' \in [DeviceBytes -> BufferIds \cup {Nobody, Foreign}]
        /\ \A a \in DeviceBytes : bytes'[a] \in {bytes[a], Foreign}
    BY StoreWordsKeeps DEF WrapInv
  <2> QED
    BY <2>1, <2>2, PlacesKeep DEF Placed
<1>2. TableOwned'
  <2>1. Elements(graph.buffers) \subseteq buffers
    BY DEF ContextInv, AllocatingCurrent, GraphIsCurrent
  <2>2. \A k \in KernelIds : \A b \in BufferIds : tlb'[k][b] = Addresses(k, b)
    OBVIOUS
  <2>3. ASSUME NEW k \in KernelIds, NEW b \in BufferIds \ bufferIds
        PROVE  tlb'[k][b] = Unplaced
    BY <2>1, <2>2 DEF Addresses, WrapInv, TableOwned
  <2>4. ASSUME NEW k \in KernelIds, NEW b \in buffers, tlb'[k][b] \notin {Unplaced, Stray}
        PROVE  b \in Placed /\ k \in users[b]
    BY <2>2, <2>4
       DEF Addresses, PhysicalAddress, WrapInv, TableOwned, Placed, ContextInv, ContextTypeOK
  <2> QED
    BY <2>3, <2>4 DEF TableOwned, WrapInv, Placed
<1> QED
  BY <1>1, <1>2 DEF WrapInv

\* What a process is
LEMMA ProcType ==
  ASSUME LaunchTypeOK, NEW i \in DOMAIN procs
  PROVE  /\ i \in 1 .. Len(procs) /\ Len(procs) \in Nat /\ DOMAIN procs = 1 .. Len(procs)
         /\ procs[i] \in [kernel : KernelIds, pack : Packages,
                         state : {"running", "stored", "notified", "ended"}]
<1> DEFINE T == [kernel : KernelIds, pack : Packages,
                 state : {"running", "stored", "notified", "ended"}]
<1>1. procs \in Seq(T)
  BY DEF LaunchTypeOK
<1> HIDE DEF T
<1>2. i \in 1 .. Len(procs) /\ Len(procs) \in Nat /\ DOMAIN procs = 1 .. Len(procs)
      /\ procs[i] \in T
  BY <1>1
<1> QED
  BY <1>2 DEF T

\* A buffer is placed above everything that was stored or packed before.
LEMMA PlaceWrapInv ==
  ASSUME ContextInv, WrapInv, Place, UNCHANGED wrapVars
  PROVE  WrapInv'
<1> DEFINE h == Head(todo)
<1> USE DEF Place, PlaceBuffer, registry, wrapVars
<1>1. h \in buffers /\ h \in BufferIds
  BY HeadAndTail DEF ContextInv, ContextTypeOK, AllocatingCurrent, GraphIsCurrent
<1>2. /\ last \in Nat \ {0} /\ size[h] \in Nat
      /\ last' = last + size[h] /\ place'[h] = last
      /\ \A b \in BufferIds \ {h} : place'[b] = place[b]
  BY <1>1, ContextAssumption DEF ContextInv, ContextTypeOK
<1> HIDE DEF h
<1>3. Placed' \subseteq Placed \cup {h} /\ h \in Placed'
  BY <1>1, <1>2 DEF Placed, ContextInv, ContextTypeOK, Unplaced
<1>4. UNCHANGED <<buffers, size, users, tlb, bufferIds>>
      /\ UNCHANGED <<loaded, args, procs, word, future, bytes, host>>
      /\ moved' = [k \in KernelIds |-> moved[k] \cup {h}]
  BY DEF h
<1>5. Placed \subseteq buffers /\ buffers \subseteq BufferIds
  BY DEF Placed, ContextInv, ContextTypeOK
<1>6. \A c \in Placed : place[c] \in Nat /\ size[c] \in Nat /\ place[c] + size[c] <= last
  BY <1>5 DEF ContextInv, PlacesBelowLast, ContextTypeOK
<1>7. LaunchTypeOK'
  BY <1>1, <1>4 DEF WrapInv, LaunchTypeOK
<1>8. TableOwned'
  BY <1>1, <1>2, <1>3, <1>4, <1>5 DEF WrapInv, TableOwned, Placed, Unplaced
<1>9. ASSUME NEW pack \in Packages, Owned(pack), NEW b \in BufferIds,
             pack.address[b] \notin {Unplaced, Stray}, NEW c \in Placed' \ {b}
      PROVE  /\ pack.address[b] + pack.size[b] <= last'
             /\ \/ pack.address[b] + pack.size[b] <= place'[c]
                \/ place'[c] + size'[c] <= pack.address[b]
  <2>1. pack.address[b] \in Nat /\ pack.size[b] \in Nat
    BY DEF Packages
  <2>2. pack.address[b] + pack.size[b] <= last
    BY <1>9 DEF Owned
  <2>3. CASE c = h
    BY <1>2, <2>1, <2>2, <2>3
  <2>4. CASE c # h
    <3>1. c \in Placed \ {b} /\ place'[c] = place[c] /\ size'[c] = size[c]
      BY <1>2, <1>3, <1>4, <1>5, <1>9, <2>4
    <3>2. \/ pack.address[b] + pack.size[b] <= place[c]
          \/ place[c] + size[c] <= pack.address[b]
      BY <1>9, <3>1 DEF Owned
    <3> HIDE DEF Place, PlaceBuffer
    <3> QED
      BY <1>2, <2>1, <2>2, <3>1, <3>2
  <2> QED
    BY <2>3, <2>4
<1>10. ASSUME NEW pack \in Packages, Owned(pack), NEW b \in BufferIds,
              pack.address[b] \notin {Unplaced, Stray}
       PROVE  pack.address[b] + pack.size[b] <= last'
  BY <1>2, <1>10 DEF Owned, Packages
<1>11. PackagesOwned'
  <2>1. \A k \in KernelIds : args[k].pack \in Packages /\ Owned(args[k].pack)
    BY DEF WrapInv, LaunchTypeOK, PackagesOwned
  <2>2. \A i \in DOMAIN procs : procs[i].pack \in Packages /\ Owned(procs[i].pack)
    BY ProcType DEF WrapInv, PackagesOwned
  <2>3. \A k \in KernelIds : Owned(args[k].pack)'
    BY <1>4, <1>9, <1>10, <2>1 DEF Owned
  <2>4. \A i \in DOMAIN procs : Owned(procs[i].pack)'
    BY <1>4, <1>9, <1>10, <2>2 DEF Owned
  <2> QED
    BY <1>4, <2>3, <2>4 DEF PackagesOwned
<1>12. \A a \in DeviceBytes :
         a \in Nat /\ (bytes[a] \in BufferIds => a < last) /\ bytes[a] \in BufferIds \cup {Nobody, Foreign}
  BY ContextAssumption DEF WrapInv, LaunchTypeOK, BytesBelowLast, DeviceBytes
<1>13. BytesBelowLast'
  BY <1>2, <1>4, <1>12 DEF BytesBelowLast
<1>14. BytesBelong'
  <2>1. ASSUME NEW b \in Placed', NEW a \in place'[b] .. place'[b] + size[b] - 1
        PROVE  bytes[a] \in {b, Nobody, Foreign}
    <3>1. CASE b = h
      <4>1. last' \in EventArea .. MemSize /\ last \in EventArea .. MemSize
        BY PlaceBufferInv DEF ContextInv, ContextTypeOK
      <4> HIDE DEF h
      <4>2. /\ place'[b] = last /\ size[b] = size[h]
            /\ a \in last .. last + size[h] - 1 /\ last + size[h] = last'
        BY <1>2, <1>4, <2>1, <3>1
      <4>3. EventArea \in Nat /\ MemSize \in Nat
        BY ContextAssumption
      <4>4. a \in EventArea .. MemSize - 1 /\ ~ (a < last)
        <5> HIDE DEF Place, PlaceBuffer
        <5> QED
          BY <1>2, <4>1, <4>2, <4>3
      <4>5. a \in DeviceBytes /\ ~ (a < last)
        BY <4>4 DEF DeviceBytes
      <4> QED
        BY <1>12, <4>5
    <3>2. CASE b # h
      BY <1>2, <1>3, <1>5, <2>1, <3>2 DEF WrapInv, BytesBelong
    <3> QED
      BY <3>1, <3>2
  <2> QED
    BY <1>4, <2>1 DEF BytesBelong
<1>15. PackedFresh'
  <2>1. ASSUME NEW k \in KernelIds, NEW b \in (args[k].pack.of \cap Placed') \ moved'[k],
               k \in users[b]
        PROVE  args[k].pack.address[b] = place'[b]
    <3>1. b # h /\ b \in Placed /\ b \notin moved[k]
      BY <1>3, <1>4, <2>1
    <3> QED
      BY <1>2, <1>5, <2>1, <3>1 DEF WrapInv, PackedFresh
  <2> QED
    BY <1>4, <2>1 DEF PackedFresh
<1>16. FutureIsLast'
  BY <1>4 DEF WrapInv, FutureIsLast, Ended
<1> QED
  BY <1>7, <1>8, <1>11, <1>13, <1>14, <1>15, <1>16 DEF WrapInv

\* A step that leaves the bookkeeping and the ids alone can forget everything
\* else: what an interrupted program leaves behind.
LEMMA DiscardedWrapInv ==
  ASSUME ContextInv, WrapInv, Discarded, UNCHANGED <<contextVars, wrapVars>>,
         \/ host' \in {"lost", "closed"} /\ procs' = <<>> /\ future' = NoFuture
         \/ host' = "closed" /\ host = "free" /\ UNCHANGED <<procs, future>>
  PROVE  WrapInv'
<1> USE DEF Discarded, contextVars, registry, memory, wrapVars
<1>1. /\ NoPackage \in Packages /\ NoPackage.of = {}
      /\ \A b \in BufferIds : NoPackage.address[b] = Unplaced
  BY EmptyPackage DEF ContextInv
<1>2. NoArgs \in [made : BOOLEAN, printable : BOOLEAN, pack : Packages] /\ NoArgs.pack = NoPackage
  BY <1>1 DEF NoArgs
<1>3. \A k \in KernelIds : args'[k].pack = NoPackage
  BY <1>2
<1>4. Placed' = Placed
  BY DEF Placed
<1>5. LaunchTypeOK'
  <2>1. /\ procs' \in Seq([kernel : KernelIds, pack : Packages,
                          state : {"running", "stored", "notified", "ended"}])
        /\ Len(procs') <= MaxRuns
        /\ future' \in {NoFuture, Spent} \cup DOMAIN procs'
    <3>1. CASE procs' = <<>> /\ future' = NoFuture
      BY <3>1, LaunchAssumption
    <3>2. CASE UNCHANGED <<procs, future>>
      BY <3>2 DEF WrapInv, LaunchTypeOK
    <3> QED
      BY <3>1, <3>2
  <2> QED
    BY <1>2, <2>1 DEF WrapInv, LaunchTypeOK
<1>6. TableOwned'
  BY <1>4 DEF WrapInv, TableOwned
<1>7. PackagesOwned'
  <2>1. \A k \in KernelIds : Owned(args[k].pack)'
    BY <1>1, <1>3 DEF Owned
  <2>2. \A i \in DOMAIN procs' : i \in DOMAIN procs /\ procs'[i] = procs[i]
    OBVIOUS
  <2>3. \A i \in DOMAIN procs' : Owned(procs[i].pack)'
    BY <1>4, <2>2 DEF WrapInv, PackagesOwned, Owned
  <2> QED
    BY <2>1, <2>3 DEF PackagesOwned
<1>8. BytesBelowLast'
  BY LaunchAssumption DEF BytesBelowLast, Nobody
<1>9. BytesBelong'
  BY <1>4, PlacedInDevice DEF BytesBelong
<1>10. PackedFresh'
  BY <1>1, <1>3 DEF PackedFresh
<1>11. FutureIsLast'
  BY DEF WrapInv, FutureIsLast, Ended, NoFuture
<1> QED
  BY <1>5, <1>6, <1>7, <1>8, <1>9, <1>10, <1>11 DEF WrapInv

LEMMA LostWrapInv ==
  ASSUME ContextInv, WrapInv, Lost, UNCHANGED wrapVars
  PROVE  WrapInv'
BY DiscardedWrapInv DEF Lost

LEMMA ReleaseWrapInv ==
  ASSUME ContextInv, WrapInv, Release, UNCHANGED wrapVars
  PROVE  WrapInv'
BY DiscardedWrapInv DEF Release, Free

\* mango_set_args looks up the addresses the last allocation has mapped.
LEMMA SetArgsWrapInv ==
  ASSUME ContextInv, WrapInv, NEW k \in KernelIds, NEW bs \in SUBSET buffers, NEW p \in BOOLEAN,
         SetArgs(k, bs, p), UNCHANGED wrapVars
  PROVE  WrapInv'
<1> DEFINE table == [b \in BufferIds |-> PackedAddress(k, b)]
           new == Pack(bs, table, size)
<1> USE DEF contextVars, registry, memory, wrapVars
<1>1. /\ Idle /\ UNCHANGED <<contextVars, loaded, procs, word, future, bytes, host>>
      /\ args' = [args EXCEPT ![k] = [made |-> TRUE, printable |-> p, pack |-> new]]
      /\ moved' = [moved EXCEPT ![k] = {}]
  BY DEF SetArgs, Free
<1>2. /\ new \in Packages /\ new.of = bs
      /\ \A b \in BufferIds : new.address[b] = IF b \in bs THEN tlb[k][b] ELSE Unplaced
      /\ \A b \in BufferIds : new.size[b] = IF b \in bs THEN size[b] ELSE 0
  <2>1. bs \in SUBSET BufferIds /\ table \in [BufferIds -> Nat] /\ size \in [BufferIds -> Nat]
    BY DEF ContextInv, ContextTypeOK, PackedAddress
  <2>2. \A b \in BufferIds : table[b] = tlb[k][b]
    BY DEF PackedAddress
  <2> HIDE DEF table
  <2>3. /\ new \in Packages /\ new.of = bs
        /\ \A b \in BufferIds : new.address[b] = IF b \in bs THEN table[b] ELSE Unplaced
        /\ \A b \in BufferIds : new.size[b] = IF b \in bs THEN size[b] ELSE 0
    BY <2>1 DEF Pack, Packages, Unplaced
  <2> HIDE DEF new
  <2> QED
    BY <2>2, <2>3
<1> HIDE DEF new
<1>3. Placed' = Placed
  BY <1>1 DEF Placed
<1>4. \A b \in Placed : k \in users[b] => tlb[k][b] = place[b]
  BY <1>1 DEF ContextInv, TlbStale, Idle
<1>5. \A b \in bs : tlb[k][b] \notin {Unplaced, Stray} => b \in Placed /\ tlb[k][b] = place[b]
  BY <1>4 DEF WrapInv, TableOwned
<1>6. LaunchTypeOK'
  BY <1>1, <1>2 DEF WrapInv, LaunchTypeOK
<1>7. TableOwned'
  BY <1>1, <1>3 DEF WrapInv, TableOwned
<1>8. /\ args'[k].pack = new /\ moved'[k] = {}
      /\ \A j \in KernelIds \ {k} : args'[j] = args[j] /\ moved'[j] = moved[j]
  BY <1>1 DEF WrapInv, LaunchTypeOK
<1>9. PackagesOwned'
  <2>1. Owned(args[k].pack)'
    <3>1. ASSUME NEW b \in BufferIds, new.address[b] \notin {Unplaced, Stray}
          PROVE  /\ b \in Placed /\ new.address[b] = place[b] /\ new.size[b] = size[b]
                 /\ place[b] + size[b] <= last
                 /\ \A c \in Placed \ {b} : place[b] + size[b] <= place[c] \/ place[c] + size[c] <= place[b]
      BY <1>2, <1>5, <3>1 DEF ContextInv, PlacesBelowLast, BuffersDisjoint
    <3> QED
      BY <1>1, <1>3, <1>8, <3>1 DEF Owned
  <2>2. \A j \in KernelIds \ {k} : Owned(args[j].pack)'
    BY <1>1, <1>3, <1>8 DEF WrapInv, PackagesOwned, Owned
  <2>3. \A i \in DOMAIN procs : Owned(procs[i].pack)'
    BY <1>1, <1>3 DEF WrapInv, PackagesOwned, Owned
  <2> QED
    BY <1>1, <2>1, <2>2, <2>3 DEF PackagesOwned
<1>10. BytesBelowLast' /\ BytesBelong'
  BY <1>1, <1>3 DEF WrapInv, BytesBelowLast, BytesBelong
<1>11. PackedFresh'
  <2>1. \A b \in bs \cap Placed : k \in users[b] => new.address[b] = place[b]
    BY <1>2, <1>4 DEF ContextInv, ContextTypeOK
  <2> QED
    BY <1>1, <1>2, <1>3, <1>8, <2>1 DEF WrapInv, PackedFresh
<1>12. FutureIsLast'
  BY <1>1 DEF WrapInv, FutureIsLast, Ended
<1> QED
  BY <1>6, <1>7, <1>9, <1>10, <1>11, <1>12 DEF WrapInv

-----------------------------------------------------------------------------
\* The processes.

\* A process that ends drops its package, and none that has ended comes back.
LEMMA StepKeeps ==
  ASSUME ContextInv, WrapInv, NEW i \in DOMAIN procs,
         NEW from \in {"running", "stored", "notified"}, NEW to \in {"stored", "notified", "ended"},
         Step(i, from, to)
  PROVE  /\ DOMAIN procs' = DOMAIN procs /\ Len(procs') = Len(procs)
         /\ procs' \in Seq([kernel : KernelIds, pack : Packages,
                           state : {"running", "stored", "notified", "ended"}])
         /\ PackagesOwned' /\ FutureIsLast'
<1> DEFINE T == [kernel : KernelIds, pack : Packages,
                 state : {"running", "stored", "notified", "ended"}]
           new == [kernel |-> procs[i].kernel,
                   pack |-> IF to = "ended" THEN NoPackage ELSE procs[i].pack, state |-> to]
<1> USE DEF contextVars, registry, memory
<1>1. /\ NoPackage \in Packages
      /\ \A b \in BufferIds : NoPackage.address[b] = Unplaced
  BY EmptyPackage DEF ContextInv
<1>2. procs[i] \in T /\ procs \in Seq(T) /\ DOMAIN procs = 1 .. Len(procs) /\ Len(procs) \in Nat
  BY ProcType DEF WrapInv, LaunchTypeOK
<1>3. new \in T
  BY <1>1, <1>2
<1>4. procs' = [procs EXCEPT ![i] = new] /\ procs[i].state = from
      /\ UNCHANGED <<contextVars, args, future, host>>
  BY DEF Step
<1>5. new.pack = (IF to = "ended" THEN NoPackage ELSE procs[i].pack) /\ new.state = to
  OBVIOUS
<1> HIDE DEF T, new
<1>6. /\ procs' \in Seq(T) /\ DOMAIN procs' = DOMAIN procs /\ Len(procs') = Len(procs)
      /\ procs'[i] = new /\ \A j \in DOMAIN procs \ {i} : procs'[j] = procs[j]
  BY <1>2, <1>3, <1>4
<1>7. PackagesOwned'
  <2>1. \A k \in KernelIds : Owned(args[k].pack)'
    BY <1>4 DEF WrapInv, PackagesOwned, Owned, Placed
  <2>2. ASSUME NEW j \in DOMAIN procs
        PROVE  procs'[j].pack \in {procs[j].pack, NoPackage}
    BY <1>5, <1>6
  <2>3. \A j \in DOMAIN procs : Owned(procs[j].pack)'
    BY <1>1, <1>4, <2>2 DEF WrapInv, PackagesOwned, Owned, Placed
  <2> QED
    BY <1>6, <2>1, <2>3 DEF PackagesOwned
<1>8. FutureIsLast'
  <2>1. ~ Ended(i)
    BY <1>4 DEF Ended
  <2>2. procs # <<>> /\ procs' # <<>>
    BY <1>2, <1>6
  <2>3. ASSUME NEW j \in DOMAIN procs', j < future
        PROVE  Ended(j)'
    BY <1>6, <2>1, <2>3 DEF WrapInv, FutureIsLast, Ended
  <2> QED
    BY <1>4, <1>6, <2>2, <2>3 DEF WrapInv, FutureIsLast
<1> QED
  BY <1>6, <1>7, <1>8 DEF T

\* A process that stores no more than events
LEMMA QuietStepWrapInv ==
  ASSUME ContextInv, WrapInv, NEW i \in DOMAIN procs,
         NEW from \in {"running", "stored", "notified"}, NEW to \in {"stored", "notified", "ended"},
         Step(i, from, to), word' \in [KernelIds -> {0, 1}], UNCHANGED wrapVars,
         bytes' \in [DeviceBytes -> BufferIds \cup {Nobody, Foreign}],
         \A a \in DeviceBytes : bytes'[a] \in {bytes[a], Foreign}
  PROVE  WrapInv'
<1> USE DEF Step, contextVars, registry, memory, wrapVars
<1>1. LaunchTypeOK'
  BY StepKeeps DEF WrapInv, LaunchTypeOK
<1>2. Placed' = Placed
  BY DEF Placed
<1>3. TableOwned' /\ PackedFresh'
  BY <1>2 DEF WrapInv, TableOwned, PackedFresh
<1>4. BytesBelowLast'
  BY LaunchAssumption DEF WrapInv, BytesBelowLast, Foreign
<1>5. BytesBelong'
  <2>1. \A b \in Placed : \A a \in place[b] .. place[b] + size[b] - 1 :
          a \in DeviceBytes /\ bytes[a] \in {b, Nobody, Foreign}
    BY PlacedInDevice DEF WrapInv, BytesBelong
  <2> QED
    BY <1>2, <2>1 DEF BytesBelong
<1> QED
  BY <1>1, <1>3, <1>4, <1>5, StepKeeps DEF WrapInv

\* What a process stores lies below last and in no buffer but those it was given.
LEMMA StoresWrapInv ==
  ASSUME ContextInv, WrapInv, NEW i \in DOMAIN procs, Stores(i), UNCHANGED wrapVars
  PROVE  WrapInv'
<1> DEFINE pack == procs[i].pack
<1> USE DEF contextVars, registry, memory, wrapVars
<1>1. Step(i, "running", "stored") /\ word' \in [KernelIds -> {0, 1}]
      /\ UNCHANGED <<contextVars, loaded, args, moved, future, host>>
  BY DEF Stores, StoreData, Step
<1>2. pack \in Packages /\ Owned(pack)
  BY ProcType DEF WrapInv, PackagesOwned
<1>3. \A b \in Assigned(i) : /\ b \in BufferIds /\ pack.address[b] \notin {Unplaced, Stray}
                             /\ pack.address[b] \in Nat /\ pack.size[b] \in Nat
                             /\ RangeOf(i, b) = pack.address[b] .. pack.address[b] + pack.size[b] - 1
  BY <1>2 DEF Stores, Assigned, RangeOf, Packages
<1>11. bytes' = [a \in DeviceBytes |-> bytes'[a]]
       /\ \A a \in DeviceBytes :
             \/ bytes'[a] \in {bytes[a], Foreign}
             \/ bytes'[a] \in Assigned(i) /\ a \in RangeOf(i, bytes'[a])
  BY DEF Stores
<1> HIDE DEF pack
<1>4. ASSUME NEW a \in DeviceBytes
      PROVE  \/ bytes'[a] \in {bytes[a], Foreign}
             \/ bytes'[a] \in Assigned(i) /\ a \in RangeOf(i, bytes'[a])
  BY <1>11
<1>5. Placed' = Placed
  BY <1>1 DEF Placed
<1>6. LaunchTypeOK' /\ PackagesOwned' /\ FutureIsLast'
  <2>1. bytes' \in [DeviceBytes -> BufferIds \cup {Nobody, Foreign}]
    BY <1>3, <1>4, <1>11 DEF WrapInv, LaunchTypeOK
  <2> QED
    BY <1>1, <2>1, StepKeeps DEF WrapInv, LaunchTypeOK
<1>7. TableOwned' /\ PackedFresh'
  BY <1>1, <1>5 DEF WrapInv, TableOwned, PackedFresh
<1>8. last \in Nat
  BY ContextAssumption DEF ContextInv, ContextTypeOK
<1>9. BytesBelowLast'
  <2>1. ASSUME NEW a \in DeviceBytes, bytes'[a] \in BufferIds
        PROVE  a < last
    <3>1. a \in Nat
      BY ContextAssumption DEF DeviceBytes
    <3>2. CASE bytes'[a] \in Assigned(i) /\ a \in RangeOf(i, bytes'[a])
      <4>1. pack.address[bytes'[a]] + pack.size[bytes'[a]] <= last
        BY <1>2, <1>3, <3>2 DEF Owned
      <4> DEFINE c == bytes'[a]
      <4>2. /\ pack.address[c] \in Nat /\ pack.size[c] \in Nat
            /\ a \in pack.address[c] .. pack.address[c] + pack.size[c] - 1
            /\ pack.address[c] + pack.size[c] <= last
        BY <1>3, <3>2, <4>1
      <4> HIDE DEF c
      <4> QED
        BY <1>8, <3>1, <4>2
    <3> QED
      BY <1>4, <2>1, <3>2, LaunchAssumption DEF WrapInv, BytesBelowLast, Foreign
  <2> QED
    BY <1>1, <2>1 DEF BytesBelowLast
<1>10. BytesBelong'
  <2>1. ASSUME NEW b \in Placed, NEW a \in place[b] .. place[b] + size[b] - 1
        PROVE  bytes'[a] \in {b, Nobody, Foreign}
    <3>1. place[b] \in Nat /\ size[b] \in Nat
      BY DEF ContextInv, ContextTypeOK, Placed
    <3>2. a \in DeviceBytes
      BY PlacedInDevice
    <3>3. CASE bytes'[a] \in Assigned(i) /\ a \in RangeOf(i, bytes'[a]) /\ bytes'[a] # b
      <4> DEFINE c == bytes'[a]
      <4>1. \/ pack.address[c] + pack.size[c] <= place[b]
            \/ place[b] + size[b] <= pack.address[c]
        BY <1>2, <1>3, <3>3 DEF Owned
      <4> HIDE DEF c
      <4>2. c \in Assigned(i) /\ a \in RangeOf(i, c)
        BY <3>3 DEF c
      <4> QED
        BY <1>3, <2>1, <3>1, <4>1, <4>2
    <3> QED
      BY <1>4, <2>1, <3>2, <3>3 DEF WrapInv, BytesBelong
  <2> QED
    BY <1>1, <1>5, <2>1 DEF BytesBelong
<1> QED
  BY <1>6, <1>7, <1>9, <1>10 DEF WrapInv

LEMMA ProcessWrapInv ==
  ASSUME ContextInv, WrapInv, Process, UNCHANGED wrapVars
  PROVE  WrapInv'
<1>1. PICK i \in DOMAIN procs : Stores(i) \/ Notifies(i) \/ Exits(i) \/ Dies(i)
  BY DEF Process
<1>2. word \in [KernelIds -> {0, 1}]
  BY DEF WrapInv, LaunchTypeOK
<1>7. bytes \in [DeviceBytes -> BufferIds \cup {Nobody, Foreign}]
  BY DEF WrapInv, LaunchTypeOK
<1>3. CASE Stores(i)
  BY <1>3, StoresWrapInv
<1>4. CASE Notifies(i)
  <2>1. word' \in [KernelIds -> {0, 1}]
    BY <1>2, <1>4 DEF Notifies
  <2>2. /\ bytes' \in [DeviceBytes -> BufferIds \cup {Nobody, Foreign}]
        /\ \A a \in DeviceBytes : bytes'[a] \in {bytes[a], Foreign}
    BY <1>4, StoreWordsKeeps DEF Notifies, WrapInv
  <2> QED
    BY <1>4, <2>1, <2>2, QuietStepWrapInv DEF Notifies
<1>5. CASE Exits(i)
  BY <1>2, <1>5, <1>7, QuietStepWrapInv DEF Exits
<1>6. CASE Dies(i)
  BY <1>2, <1>6, <1>7, QuietStepWrapInv DEF Dies
<1> QED
  BY <1>1, <1>3, <1>4, <1>5, <1>6

-----------------------------------------------------------------------------
\* The host's waits.

\* Whom the host has waited for has ended, and everybody started before.
LEMMA WaitedFor ==
  ASSUME WrapInv, NEW list, Waited(list)
  PROVE  /\ FutureAfter(list) \in {NoFuture, Spent} \cup DOMAIN procs
         /\ FutureAfter(list) = NoFuture => procs = <<>>
         /\ FutureAfter(list) \in DOMAIN procs => FutureAfter(list) = future /\ future = Len(procs)
         /\ \A i \in DOMAIN procs : i < FutureAfter(list) => Ended(i)
         /\ FutureAfter(list) \notin DOMAIN procs => \A i \in DOMAIN procs : Ended(i)
         /\ Len(procs) \in Nat /\ Len(procs) < Spent /\ DOMAIN procs = 1 .. Len(procs)
<1>1. /\ Len(procs) \in Nat /\ DOMAIN procs = 1 .. Len(procs) /\ Len(procs) <= MaxRuns
      /\ future \in {NoFuture, Spent} \cup DOMAIN procs
  BY DEF WrapInv, LaunchTypeOK
<1>2. Len(procs) < Spent /\ Spent \in Nat /\ NoFuture \notin DOMAIN procs /\ Spent \notin DOMAIN procs
      /\ Spent # NoFuture
  BY <1>1, LaunchAssumption DEF Spent, NoFuture
<1>3. /\ future = NoFuture => procs = <<>>
      /\ future \in DOMAIN procs => future = Len(procs)
      /\ \A i \in DOMAIN procs : i < future => Ended(i)
  BY DEF WrapInv, FutureIsLast, Waited, Free
<1>4. 0 \in Elements(list) => future # Spent /\ (future \in DOMAIN procs => Ended(future))
  BY DEF Waited, MayPass
<1>5. CASE 0 \in Elements(list) /\ future # NoFuture
  <2>1. FutureAfter(list) = Spent /\ future \in DOMAIN procs /\ future = Len(procs)
    BY <1>1, <1>2, <1>3, <1>4, <1>5 DEF FutureAfter
  <2>2. \A i \in DOMAIN procs : i < future \/ i = future
    BY <1>1, <2>1
  <2>3. \A i \in DOMAIN procs : Ended(i)
    BY <1>3, <1>4, <1>5, <2>1, <2>2
  <2> QED
    BY <1>1, <1>2, <2>1, <2>3
<1>6. CASE ~ (0 \in Elements(list) /\ future # NoFuture)
  <2>1. FutureAfter(list) = future
    BY <1>6 DEF FutureAfter
  <2>2. CASE future = Spent
    <3>1. \A i \in DOMAIN procs : i < future
      BY <1>1, <1>2, <2>2
    <3> QED
      BY <1>1, <1>2, <1>3, <2>1, <2>2, <3>1
  <2>3. CASE future = NoFuture
    <3>1. DOMAIN procs = {}
      BY <1>3, <2>3
    <3> QED
      BY <1>1, <1>2, <1>3, <2>1, <2>3, <3>1
  <2>4. CASE future \in DOMAIN procs
    BY <1>1, <1>2, <1>3, <2>1, <2>4
  <2> QED
    BY <1>1, <2>2, <2>3, <2>4
<1> QED
  BY <1>5, <1>6

\* mango_wait, and reads
LEMMA WaitWrapInv ==
  ASSUME ContextInv, WrapInv, NEW list, Wait(list), UNCHANGED wrapVars
  PROVE  WrapInv'
<1> USE DEF Wait, contextVars, registry, memory, wrapVars
<1>1. Placed' = Placed
  BY DEF Placed
<1>2. LaunchTypeOK'
  BY WaitedFor DEF WrapInv, LaunchTypeOK
<1>3. TableOwned' /\ PackedFresh' /\ BytesBelowLast' /\ BytesBelong'
  BY <1>1 DEF WrapInv, TableOwned, PackedFresh, BytesBelowLast, BytesBelong
<1>4. PackagesOwned'
  <2>1. \A k \in KernelIds : Owned(args[k].pack)'
    BY <1>1 DEF WrapInv, PackagesOwned, Owned
  <2>2. \A i \in DOMAIN procs : Owned(procs[i].pack)'
    BY <1>1 DEF WrapInv, PackagesOwned, Owned
  <2> QED
    BY <2>1, <2>2 DEF PackagesOwned
<1>5. FutureIsLast'
  BY WaitedFor DEF FutureIsLast, Ended, Waited, Free
<1> QED
  BY <1>2, <1>3, <1>4, <1>5 DEF WrapInv

\* The host writes no byte but the buffer's.
LEMMA WriteWrapInv ==
  ASSUME ContextInv, WrapInv, NEW list, NEW b \in buffers, Write(list, b), UNCHANGED wrapVars
  PROVE  WrapInv'
<1> DEFINE range == place[b] .. place[b] + size[b] - 1
<1> USE DEF contextVars, registry, memory, wrapVars
<1>1. /\ Waited(list) /\ b \in Placed /\ future' = FutureAfter(list)
      /\ UNCHANGED <<contextVars, loaded, args, moved, procs, host>>
      /\ word' \in [KernelIds -> {0, 1}]
      /\ bytes' = [a \in DeviceBytes |-> IF a \in range THEN b ELSE bytes[a]]
  BY DEF Write, StoreData
<1>2. Placed' = Placed
  BY <1>1 DEF Placed
<1>3. b \in BufferIds /\ place[b] \in Nat /\ size[b] \in Nat /\ place[b] + size[b] <= last /\ last \in Nat
  BY <1>1, ContextAssumption DEF ContextInv, ContextTypeOK, PlacesBelowLast
<1>4. LaunchTypeOK'
  <2>1. bytes' \in [DeviceBytes -> BufferIds \cup {Nobody, Foreign}]
    BY <1>1, <1>3 DEF WrapInv, LaunchTypeOK
  <2> QED
    BY <1>1, <2>1, WaitedFor DEF WrapInv, LaunchTypeOK
<1>5. TableOwned' /\ PackedFresh'
  BY <1>1, <1>2 DEF WrapInv, TableOwned, PackedFresh
<1>6. PackagesOwned'
  <2>1. \A k \in KernelIds : Owned(args[k].pack)'
    BY <1>1, <1>2 DEF WrapInv, PackagesOwned, Owned
  <2>2. \A i \in DOMAIN procs : Owned(procs[i].pack)'
    BY <1>1, <1>2 DEF WrapInv, PackagesOwned, Owned
  <2> QED
    BY <1>1, <2>1, <2>2 DEF PackagesOwned
<1>7. BytesBelowLast'
  <2>1. \A a \in range : a < last
    BY <1>3
  <2> QED
    BY <1>1, <2>1 DEF WrapInv, BytesBelowLast
<1>8. BytesBelong'
  <2>1. ASSUME NEW c \in Placed, NEW a \in place[c] .. place[c] + size[c] - 1
        PROVE  bytes'[a] \in {c, Nobody, Foreign}
    <3>1. place[c] \in Nat /\ size[c] \in Nat
      BY DEF ContextInv, ContextTypeOK, Placed
    <3>2. a \in DeviceBytes
      BY PlacedInDevice
    <3>3. c # b => a \notin range
      BY <1>1, <1>3, <2>1, <3>1 DEF ContextInv, BuffersDisjoint
    <3> HIDE DEF range
    <3> QED
      BY <1>1, <2>1, <3>2, <3>3 DEF WrapInv, BytesBelong
  <2> QED
    BY <1>1, <1>2, <2>1 DEF BytesBelong
<1>9. FutureIsLast'
  BY <1>1, WaitedFor DEF FutureIsLast, Ended, Waited, Free
<1> QED
  BY <1>4, <1>5, <1>6, <1>7, <1>8, <1>9 DEF WrapInv

\* mango_start_kernel
LEMMA StartWrapInv ==
  ASSUME ContextInv, WrapInv, NEW list, NEW k \in KernelIds, Len(procs) < MaxRuns,
         Start(list, k), UNCHANGED wrapVars
  PROVE  WrapInv'
<1> DEFINE T == [kernel : KernelIds, pack : Packages,
                 state : {"running", "stored", "notified", "ended"}]
           new == [kernel |-> k, pack |-> args[k].pack, state |-> "running"]
<1> USE DEF registry, memory, wrapVars
<1>1. /\ Waited(list) /\ procs' = Append(procs, new)
      /\ \/ FutureAfter(list) \in DOMAIN procs /\ host' = "replacing" /\ future' = future
         \/ FutureAfter(list) \notin DOMAIN procs /\ future' = Len(procs') /\ host' = host
      /\ UNCHANGED <<loaded, args, moved, word, bytes>>
      /\ UNCHANGED <<registry, memory>>
  BY DEF Start, StartKernel
<1>2. new \in T /\ new.pack = args[k].pack
  BY DEF WrapInv, LaunchTypeOK
<1> HIDE DEF new
<1>3. procs \in Seq(T) /\ Len(procs) \in Nat /\ DOMAIN procs = 1 .. Len(procs)
  BY DEF WrapInv, LaunchTypeOK
<1> HIDE DEF T
<1>4. /\ procs' \in Seq(T) /\ Len(procs') = Len(procs) + 1 /\ DOMAIN procs' = 1 .. Len(procs) + 1
      /\ procs'[Len(procs) + 1] = new /\ \A i \in DOMAIN procs : procs'[i] = procs[i]
  BY <1>1, <1>2, <1>3
<1>5. Placed' = Placed
  BY <1>1 DEF Placed
<1>6. LaunchTypeOK'
  <2>1. future' \in {NoFuture, Spent} \cup DOMAIN procs'
    <3>1. Len(procs') \in DOMAIN procs'
      BY <1>3, <1>4
    <3>2. future \in {NoFuture, Spent} \cup DOMAIN procs /\ DOMAIN procs \subseteq DOMAIN procs'
      BY <1>3, <1>4 DEF WrapInv, LaunchTypeOK
    <3> QED
      BY <1>1, <3>1, <3>2
  <2>2. Len(procs') <= MaxRuns
    BY <1>3, <1>4, LaunchAssumption
  <2>3. host' \in {"free", "replacing", "closed", "lost"}
    BY <1>1 DEF WrapInv, LaunchTypeOK
  <2> QED
    BY <1>1, <1>4, <2>1, <2>2, <2>3 DEF WrapInv, LaunchTypeOK, T
<1>7. TableOwned' /\ PackedFresh' /\ BytesBelowLast' /\ BytesBelong'
  BY <1>1, <1>5 DEF WrapInv, TableOwned, PackedFresh, BytesBelowLast, BytesBelong
<1>8. PackagesOwned'
  <2>1. \A j \in KernelIds : Owned(args[j].pack)'
    BY <1>1, <1>5 DEF WrapInv, PackagesOwned, Owned
  <2>2. \A i \in DOMAIN procs : Owned(procs[i].pack)'
    BY <1>1, <1>4, <1>5 DEF WrapInv, PackagesOwned, Owned
  <2>3. ASSUME NEW i \in DOMAIN procs'
        PROVE  Owned(procs[i].pack)'
    <3>1. i \in DOMAIN procs \/ procs'[i] = new
      BY <1>3, <1>4
    <3>2. CASE procs'[i] = new
      BY <1>1, <1>2, <2>1, <3>2 DEF Owned
    <3> QED
      BY <2>2, <3>1, <3>2
  <2> QED
    BY <2>1, <2>3 DEF PackagesOwned
<1>9. FutureIsLast'
  <2>1. Len(procs) < Spent /\ procs' # <<>> /\ future' # NoFuture
    BY <1>1, <1>3, <1>4, WaitedFor DEF NoFuture
  <2>2. CASE FutureAfter(list) \in DOMAIN procs /\ host' = "replacing" /\ future' = future
    <3>1. future' = Len(procs') - 1
      BY <1>1, <1>3, <1>4, <2>2, WaitedFor
    <3>2. future = FutureAfter(list) /\ future = Len(procs)
          /\ \A i \in DOMAIN procs : i < FutureAfter(list) => Ended(i)
      BY <1>1, <2>2, WaitedFor
    <3>3. \A i \in DOMAIN procs' : i < future' => i \in DOMAIN procs /\ Ended(i)
      BY <1>3, <1>4, <2>2, <3>2
    <3> QED
      BY <1>4, <2>1, <2>2, <3>1, <3>3 DEF FutureIsLast, Ended
  <2>3. CASE FutureAfter(list) \notin DOMAIN procs /\ future' = Len(procs') /\ host' = host
    <3>1. \A i \in DOMAIN procs' : i < future' => i \in DOMAIN procs /\ Ended(i)
      BY <1>1, <1>3, <1>4, <2>3, WaitedFor
    <3>2. host' # "replacing"
      BY <1>1, <2>3 DEF Waited, Free
    <3> QED
      BY <1>4, <2>1, <2>3, <3>1, <3>2 DEF FutureIsLast, Ended
  <2> QED
    BY <1>1, <2>2, <2>3
<1> QED
  BY <1>6, <1>7, <1>8, <1>9 DEF WrapInv

\* The destructor of the old future returns.
LEMMA ReplaceWrapInv ==
  ASSUME ContextInv, WrapInv, Replace, UNCHANGED wrapVars
  PROVE  WrapInv'
<1> USE DEF Replace, contextVars, registry, memory, wrapVars
<1>1. Placed' = Placed
  BY DEF Placed
<1>2. /\ future = Len(procs) - 1 /\ future # NoFuture /\ future \in {NoFuture, Spent} \cup DOMAIN procs
      /\ Len(procs) \in Nat /\ DOMAIN procs = 1 .. Len(procs) /\ Len(procs) <= MaxRuns
      /\ \A i \in DOMAIN procs : i < future => Ended(i)
  BY DEF WrapInv, FutureIsLast, LaunchTypeOK
<1>3. future \in DOMAIN procs /\ Len(procs) \in DOMAIN procs /\ procs # <<>>
  BY <1>2, LaunchAssumption DEF Spent, NoFuture
<1>4. LaunchTypeOK'
  BY <1>3 DEF WrapInv, LaunchTypeOK
<1>5. TableOwned' /\ PackedFresh' /\ BytesBelowLast' /\ BytesBelong'
  BY <1>1 DEF WrapInv, TableOwned, PackedFresh, BytesBelowLast, BytesBelong
<1>6. PackagesOwned'
  <2>1. \A k \in KernelIds : Owned(args[k].pack)'
    BY <1>1 DEF WrapInv, PackagesOwned, Owned
  <2>2. \A i \in DOMAIN procs : Owned(procs[i].pack)'
    BY <1>1 DEF WrapInv, PackagesOwned, Owned
  <2> QED
    BY <2>1, <2>2 DEF PackagesOwned
<1>7. FutureIsLast'
  <2>1. \A i \in DOMAIN procs : i < Len(procs) => Ended(i)
    BY <1>2
  <2>2. future' # NoFuture
    BY <1>2, <1>3 DEF NoFuture
  <2> QED
    BY <1>3, <2>1, <2>2 DEF FutureIsLast, Ended
<1> QED
  BY <1>4, <1>5, <1>6, <1>7 DEF WrapInv

-----------------------------------------------------------------------------
\* The steps of the application, part by part.

LEMMA SetUpWrapInv ==
  ASSUME ContextInv, WrapInv, SetUp
  PROVE  WrapInv'
<1>1. CASE \E p \in {PlatformIDs.platform, "other"}, t \in DeviceTypes : AskDevices(p, t)
  <2>1. UNCHANGED <<contextVars, launchVars, bufferIds>>
    BY <1>1 DEF AskDevices
  <2> QED
    BY <2>1, TablesKeptWrapInv DEF contextVars, registry, memory
<1>2. CASE \E callback \in BOOLEAN : clCreateContextFromType(callback)
  <2>1. UNCHANGED <<contextVars, launchVars, bufferIds>>
    BY <1>2 DEF clCreateContextFromType
  <2> QED
    BY <2>1, TablesKeptWrapInv DEF contextVars, registry, memory
<1>3. CASE \E k \in KernelIds, t \in {"BINARY", "SOURCE"} : clCreateKernel(k, t)
  BY <1>3, CreateKernelWrapInv
<1>4. CASE \E k \in KernelIds, flags \in FlagSets, n \in AppSizes : clCreateBuffer(k, flags, n)
  BY <1>4, CreateBufferWrapInv
<1>5. CASE \E k \in KernelIds, flags \in FlagSets : clCreateBufferFrom(k, flags)
  BY <1>5, LostWrapInv DEF clCreateBufferFrom
<1>6. CASE \E b \in BufferIds : clReleaseMemObject(b)
  BY <1>6, ReleaseMemObjectWrapInv
<1> QED
  BY <1>1, <1>2, <1>3, <1>4, <1>5, <1>6 DEF SetUp

LEMMA PrepareWrapInv ==
  ASSUME ContextInv, WrapInv, Prepare
  PROVE  WrapInv'
<1>1. CASE (\E bs \in Listings(buffers) : TaskGraphCreate(bs)) \/ TaskGraphDestroy
  <2>1. UNCHANGED <<registry, memory, launchVars, wrapVars>>
    BY <1>1 DEF TaskGraphCreate, TaskGraphDestroy, CreateGraph, DestroyGraph
  <2> QED
    BY <2>1, TablesKeptWrapInv DEF registry, memory, wrapVars
<1>2. CASE AllocationStep /\ UNCHANGED wrapVars
  <2>1. CASE BeginAllocation /\ UNCHANGED launchVars
    BY <1>2, <2>1, TablesKeptWrapInv DEF BeginAllocation, registry, wrapVars
  <2>2. CASE Place
    BY <1>2, <2>2, PlaceWrapInv
  <2>3. CASE EndPlacing /\ UNCHANGED launchVars
    BY <1>2, <2>3, TablesKeptWrapInv DEF EndPlacing, registry, memory, wrapVars
  <2>4. CASE Map
    BY <1>2, <2>4, MapWrapInv
  <2>5. CASE AllocationFails
    BY <1>2, <2>5, LostWrapInv DEF AllocationFails
  <2> QED
    BY <1>2, <2>1, <2>2, <2>3, <2>4, <2>5 DEF AllocationStep
<1>3. CASE \E k \in KernelIds, bs \in SUBSET buffers : clSetKernelArgs(k, bs)
  BY <1>3, SetArgsWrapInv, LostWrapInv DEF clSetKernelArgs, SetArgsUnallocated
<1>4. CASE \E k \in KernelIds : SetOddArg(k)
  <2>1. {} \in SUBSET buffers
    OBVIOUS
  <2> QED
    BY <1>4, <2>1, SetArgsWrapInv, LostWrapInv DEF SetOddArg
<1> QED
  BY <1>1, <1>2, <1>3, <1>4 DEF Prepare

LEMMA ExecuteWrapInv ==
  ASSUME ContextInv, WrapInv, Execute
  PROVE  WrapInv'
<1>1. UNCHANGED wrapVars
  BY DEF Execute
<1>2. ASSUME NEW list \in WaitLists, Wait(list) \/ WaitFails(list)
      PROVE  WrapInv'
  BY <1>1, <1>2, WaitWrapInv, LostWrapInv DEF WaitFails
<1>3. ASSUME NEW list \in WaitLists, NEW b \in buffers,
             clEnqueueWriteBuffer(list, b) \/ clEnqueueReadBuffer(list, b)
      PROVE  WrapInv'
  BY <1>1, <1>3, WriteWrapInv, WaitWrapInv, LostWrapInv
     DEF clEnqueueWriteBuffer, clEnqueueReadBuffer, Read, TransferFails
<1>4. ASSUME NEW list \in WaitLists, NEW k \in KernelIds, clEnqueueNDRangeKernel(list, k)
      PROVE  WrapInv'
  BY <1>1, <1>4, StartWrapInv, LostWrapInv DEF clEnqueueNDRangeKernel, StartFails
<1> QED
  BY <1>1, <1>2, <1>3, <1>4, ReplaceWrapInv, ProcessWrapInv DEF Execute

LEMMA WrapStepInv ==
  ASSUME ContextInv, WrapInv, [WrapNext]_<<contextVars, launchVars, wrapVars>>
  PROVE  WrapInv'
<1>1. CASE clReleaseContext
  BY <1>1, ReleaseWrapInv DEF clReleaseContext
<1>2. CASE UNCHANGED <<contextVars, launchVars, wrapVars>>
  BY <1>2, TablesKeptWrapInv DEF contextVars, registry, memory, wrapVars
<1> QED
  BY <1>1, <1>2, SetUpWrapInv, PrepareWrapInv, ExecuteWrapInv DEF WrapNext

\* The inductive invariant of the application, its kernels and the memory they
\* share holds whatever it creates, allocates, packs, starts and waits for.
THEOREM WrapInvariance == WrapSpec => []WrapInv
<1>1. WrapInit => ContextInv /\ WrapInv
  BY InitContextInv, InitWrapInv DEF WrapInit
<1>2. WrapInv /\ ContextInv /\ [WrapNext]_<<contextVars, launchVars, wrapVars>> => WrapInv'
  BY WrapStepInv
<1> QED
  BY <1>1, <1>2, WrapContextInvariance, PTL DEF WrapSpec

\* mango_set_args packs the address the host uses, and the package stays good
\* until the next allocation places the buffer again.
THEOREM ArgumentsAreFresh == WrapSpec => []ArgumentsFresh
<1>1. WrapInv => ArgumentsFresh
  BY DEF WrapInv, PackedFresh, ArgumentsFresh
<1> QED
  BY <1>1, WrapInvariance, PTL

\* A kernel, also one with stale arguments, and the host store through the
\* address of a buffer in no other buffer, whatever events and the stores for
\* buffers without a place do to the bytes.
THEOREM BytesAreKept == WrapSpec => []BytesBelong
<1>1. WrapInv => BytesBelong
  BY DEF WrapInv
<1> QED
  BY <1>1, WrapInvariance, PTL

\* When the wait of mango_wait for the last start is over, all kernels have ended.
THEOREM WaitIsEnough == WrapSpec => []WaitMeansDone
<1>1. WrapInv => WaitMeansDone
  <2> SUFFICES ASSUME WrapInv, future = Spent, NEW i \in DOMAIN procs
               PROVE  Ended(i)
    BY DEF WaitMeansDone
  <2>1. i < Spent
    BY LaunchAssumption DEF WrapInv, LaunchTypeOK, Spent
  <2> QED
    BY <2>1 DEF WrapInv, FutureIsLast
<1> QED
  BY <1>1, WrapInvariance, PTL

\* mango_release leaves no kernel behind, if the task graph went before.
LEMMA OnlyReleaseCloses ==
  ASSUME WrapNext, host' = "closed"
  PROVE  Release
<1>1. CASE SetUp
  BY <1>1 DEF SetUp, AskDevices, clCreateContextFromType, clCreateKernel, LoadKernel,
     clCreateBuffer, clCreateBufferFrom, clReleaseMemObject, Free, Lost, launchVars
<1>2. CASE Prepare
  BY <1>2 DEF Prepare, TaskGraphCreate, TaskGraphDestroy, AllocationStep, AllocationFails, Place, Map,
     clSetKernelArgs, SetOddArg, SetArgs, SetArgsUnallocated, Free, Running, Lost, launchVars
<1>3. CASE Execute
  BY <1>3 DEF Execute, Wait, WaitFails, clEnqueueWriteBuffer, clEnqueueReadBuffer, Write, Read,
     TransferFails, clEnqueueNDRangeKernel, Start, StartFails, Replace, Process, Stores, Notifies,
     Exits, Dies, Step, Waited, Free, Running, Lost
<1> QED
  BY <1>1, <1>2, <1>3 DEF WrapNext, clReleaseContext

\* Two kernels overlap only while mango_start_kernel waits for the first, and
\* none outlives the context.
THEOREM KernelsTakeTurns == WrapSpec => []KernelsInTurn
<1> DEFINE Closed == host = "closed" /\ EventIsDestroyed => \A i \in DOMAIN procs : Ended(i)
<1>1. WrapInit => Closed
  BY DEF WrapInit, LaunchInit
<1>2. ASSUME WrapInv, Closed, [WrapNext]_<<contextVars, launchVars, wrapVars>>
      PROVE  Closed'
  <2>1. CASE Release
    <3>1. UNCHANGED <<graph, procs, future>> /\ host = "free"
          /\ (EventIsDestroyed /\ future \in DOMAIN procs => Ended(future))
      BY <2>1 DEF Release, Free, contextVars
    <3>2. ASSUME EventIsDestroyed, NEW i \in DOMAIN procs
          PROVE  Ended(i)
      <4>1. /\ DOMAIN procs = 1 .. Len(procs) /\ Len(procs) \in Nat /\ Len(procs) <= MaxRuns
            /\ future \in {NoFuture, Spent} \cup DOMAIN procs
        BY <1>2 DEF WrapInv, LaunchTypeOK
      <4>2. future # NoFuture
        BY <1>2, <3>2, <4>1 DEF WrapInv, FutureIsLast
      <4>3. future = Spent => i < future
        BY <4>1, LaunchAssumption DEF Spent
      <4>4. future \in DOMAIN procs => i < future \/ i = future
        BY <1>2, <3>1, <4>1 DEF WrapInv, FutureIsLast
      <4> QED
        BY <1>2, <3>1, <3>2, <4>1, <4>2, <4>3, <4>4 DEF WrapInv, FutureIsLast
    <3> QED
      BY <3>1, <3>2 DEF EventIsDestroyed, Ended
  <2>2. CASE UNCHANGED <<contextVars, launchVars, wrapVars>>
    BY <1>2, <2>2 DEF EventIsDestroyed, Ended, contextVars, launchVars
  <2> QED
    BY <1>2, <2>1, <2>2, OnlyReleaseCloses
<1>3. WrapInv /\ Closed => KernelsInTurn
  <2> SUFFICES ASSUME WrapInv, host # "replacing", NEW i \in DOMAIN procs, i < Len(procs)
               PROVE  Ended(i)
    BY DEF KernelsInTurn
  <2>1. /\ DOMAIN procs = 1 .. Len(procs) /\ Len(procs) \in Nat /\ Len(procs) <= MaxRuns
        /\ future \in {NoFuture, Spent} \cup DOMAIN procs
    BY DEF WrapInv, LaunchTypeOK
  <2>2. future # NoFuture
    BY <2>1 DEF WrapInv, FutureIsLast
  <2>3. i < future
    BY <2>1, <2>2, LaunchAssumption DEF WrapInv, FutureIsLast, Spent
  <2> QED
    BY <2>3 DEF WrapInv, FutureIsLast
<1> QED
  BY <1>1, <1>2, <1>3, WrapInvariance, PTL DEF WrapSpec
-----------------------------------------------------------------------------
\* Whichever of the two uses the bookkeeping, ids are handed out once.
THEOREM HostInvariance == HostSpec => []WrapInvariant
<1>1. HostInit => ContextInv /\ WrapInvariant
  BY InitContextInv, InitWrapInv DEF HostInit, WrapInit, WrapInvariant
<1>2. ASSUME ContextInv, WrapInvariant, [HostNext]_hostVars
      PROVE  ContextInv' /\ WrapInvariant'
  <2>1. CASE program = "bookkeeping" /\ program' = program /\ [ContextNext]_contextVars
    BY <1>2, <2>1, ContextStepInv DEF WrapInvariant
  <2>2. CASE /\ program = "opencl" /\ program' = program
             /\ [WrapNext]_<<contextVars, launchVars, wrapVars>>
    <3>1. WrapInv /\ WrapInv'
      BY <1>2, <2>2, WrapStepInv DEF WrapInvariant
    <3> QED
      BY <1>2, <2>2, <3>1, WrapStepIsContext, ContextStepInv DEF WrapInvariant
  <2>3. CASE program \notin {"bookkeeping", "opencl"} /\ UNCHANGED hostVars
    BY <1>2, <2>3, StutterContextInv DEF hostVars, WrapInvariant
  <2> QED
    BY <1>2, <2>1, <2>2, <2>3 DEF HostNext, hostVars
<1> QED
  BY <1>1, <1>2, PTL DEF HostSpec
=============================================================================
