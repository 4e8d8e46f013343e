------------------------------ MODULE OpenCLWrap ------------------------------
(***************************************************************************)
(* The OpenCL wrapper (src/opencl_wrap.cpp) and an application that uses   *)
(* it as test/test_gn_app.c does: clCreateContextFromType, clCreateProgram,*)
(* clCreateKernel and clCreateBuffer, then mango_task_graph_create,        *)
(* mango_resource_allocation and mango_set_args, which the wrapper has no  *)
(* calls for, then the clEnqueue calls, and clReleaseContext.              *)
(***************************************************************************)
EXTENDS MangoLaunch

CONSTANT AppSizes   \* bound: the sizes of buffers

ASSUME WrapAssumption == AppSizes \subseteq Sizes

VARIABLES
  device,     \* what clGetDeviceIDs has answered, until the context is created
  context,    \* clCreateContextFromType has made a context
  bufferIds,  \* ids buffer_id has given out
  poisoned    \* buffers registered with a kernel id that is no kernel

wrapVars == <<device, context, bufferIds, poisoned>>

CL_SUCCESS == 0
CL_DEVICE_NOT_FOUND == 0 - 1
CL_INVALID_PLATFORM == 0 - 32
DeviceTypes == {"DEFAULT", "CPU", "GPU", "ACCELERATOR", "CUSTOM", "ALL"}
Unasked == [err |-> CL_SUCCESS, num |-> 0]

WrapInit ==
  /\ ContextInit /\ LaunchInit
  /\ device = Unasked /\ context = FALSE
  /\ bufferIds = {} /\ poisoned = {}

-----------------------------------------------------------------------------
\* clGetPlatformIDs: one platform, and its handle is NULL.
PlatformIDs == [err |-> CL_SUCCESS, num |-> 1, platform |-> "NULL"]

\* clGetDeviceIDs: the case of the types that have a device falls through into
\* the case of those that have none.  With a platform that is not NULL the
\* number is not touched.
DeviceIDs(platform, type) ==
  IF platform = PlatformIDs.platform
  THEN [err |-> CL_DEVICE_NOT_FOUND, num |-> 0]
  ELSE [err |-> CL_INVALID_PLATFORM, num |-> device.num]

AskDevices(platform, type) ==
  /\ ~ context
  /\ Free
  /\ device' = DeviceIDs(platform, type)
  /\ UNCHANGED <<contextVars, launchVars, context, bufferIds, poisoned>>

\* clCreateContextFromType; with a callback it makes none and reports success.
clCreateContextFromType(callback) ==
  /\ ~ context
  /\ Free
  /\ context' = ~ callback
  /\ device' = Unasked
  /\ UNCHANGED <<contextVars, launchVars, bufferIds, poisoned>>

\* clCreateProgram and clCreateKernel; a program that the application has
\* loaded through the C interface may be a source.
clCreateKernel(k, t) ==
  /\ context
  /\ LoadKernel(k, t)
  /\ UNCHANGED wrapVars

-----------------------------------------------------------------------------
\* clCreateBuffer(k, flags, n, host_ptr)

InvalidHostPtr(flags, ptr) ==
  \/ flags \cap {"COPY_HOST_PTR", "USE_HOST_PTR"} # {} /\ ~ ptr
  \/ "ALLOC_HOST_PTR" \in flags
  \/ {"COPY_HOST_PTR", "USE_HOST_PTR"} \subseteq flags

KernelWrites(flags) == flags \cap {"WRITE_ONLY", "READ_WRITE"} # {}
KernelReads(flags) == flags \cap {"READ_ONLY", "READ_WRITE"} # {}

\* mango_register_memory is told how many kernels write and how many read, and
\* is passed one.  When both are 1 the second is whatever va_arg finds there:
\* 0, which is skipped, a kernel's id, or neither.
Beyond(flags) ==
  IF KernelWrites(flags) /\ KernelReads(flags) THEN {"zero", "other"} ELSE {"none"}

FreshIds_Same == BufferIds \ buffers   \* mutant: an id comes back when it is free
FreshIds == BufferIds \ bufferIds      \* buffer_id++

clCreateBuffer(k, flags, n) ==
  /\ context
  /\ Free
  /\ k \in kernels
  /\ ~ InvalidHostPtr(flags, FALSE)
  /\ \E b \in FreshIds, second \in Beyond(flags) :
       /\ RegisterMemory(b, n, IF KernelWrites(flags) \/ KernelReads(flags) THEN {k} ELSE {})
       /\ bufferIds' = bufferIds \cup {b}
       /\ poisoned' = IF second = "other" THEN poisoned \cup {b} ELSE poisoned
  /\ UNCHANGED <<launchVars, device, context>>

\* With a host pointer that is valid for the flags the new buffer, which has no
\* place, is written.
clCreateBufferFrom(k, flags) ==
  /\ context
  /\ Free
  /\ k \in kernels
  /\ FreshIds # {}
  /\ flags \cap {"COPY_HOST_PTR", "USE_HOST_PTR"} # {}
  /\ ~ InvalidHostPtr(flags, TRUE)
  /\ Lost
  /\ UNCHANGED wrapVars

clReleaseMemObject(b) ==
  /\ context
  /\ Free
  /\ DeregisterMemory(b)
  /\ UNCHANGED <<launchVars, wrapVars>>

-----------------------------------------------------------------------------
\* The calls of the C interface in between.  The application has one task
\* graph at a time, and lists all the buffers it has.
TaskGraphCreate(bs) ==
  /\ context
  /\ Free
  /\ graph = EmptyGraph
  /\ Elements(bs) = buffers
  /\ CreateGraph(kernels, bs)
  /\ UNCHANGED <<launchVars, wrapVars>>

TaskGraphDestroy ==
  /\ context
  /\ Free
  /\ graph # EmptyGraph
  /\ DestroyGraph
  /\ UNCHANGED <<launchVars, wrapVars>>

\* A kernel id that is no kernel has a null pointer in the map.
AllocationFails ==
  /\ alloc = "map"
  /\ Elements(graph.buffers) \cap poisoned # {}
  /\ Lost

AllocationStep ==
  \/ Free /\ context /\ BeginAllocation /\ UNCHANGED launchVars
  \/ Running /\ Place
  \/ Running /\ EndPlacing /\ UNCHANGED launchVars
  \/ Running /\ Elements(graph.buffers) \cap poisoned = {} /\ Map
  \/ Running /\ AllocationFails

\* clSetKernelArg for arguments of 4 and 8 bytes, and mango_set_args
clSetKernelArgs(k, bs) ==
  /\ context
  /\ SetArgs(k, bs, TRUE) \/ SetArgsUnallocated(k)
  /\ UNCHANGED wrapVars

\* For another size clSetKernelArg gives NULL, which mango_set_args
\* dereferences; mango_arg gives an argument of 1 or 2 bytes, which is packed.
SetOddArg(k) ==
  /\ context
  /\ \/ Free /\ k \in kernels /\ Lost
     \/ SetArgs(k, {}, FALSE)
  /\ UNCHANGED wrapVars

\* The event that clEnqueueNDRangeKernel is asked for is never handed over, so
\* the id an application waits for is one it knows otherwise, or none.
WaitLists == {<<>>} \cup {<<e>> : e \in {kernelEvent[k] : k \in kernels} \cup {nextEvent}}

\* clEnqueueWriteBuffer, clEnqueueReadBuffer, clEnqueueNDRangeKernel
clEnqueueWriteBuffer(list, b) == Write(list, b) \/ TransferFails(list, b)
clEnqueueReadBuffer(list, b) == Read(list, b) \/ TransferFails(list, b)
clEnqueueNDRangeKernel(list, k) == (Len(procs) < MaxRuns /\ Start(list, k)) \/ StartFails(list, k)

clReleaseContext ==
  /\ context
  /\ Release
  /\ UNCHANGED wrapVars

-----------------------------------------------------------------------------
\* The flags an application combines
FlagSets == {{"READ_ONLY"}, {"READ_WRITE"}, {"READ_ONLY", "COPY_HOST_PTR"},
  {"READ_ONLY", "ALLOC_HOST_PTR"}}

SetUp ==
  \/ \E p \in {PlatformIDs.platform, "other"}, t \in DeviceTypes : AskDevices(p, t)
  \/ \E callback \in BOOLEAN : clCreateContextFromType(callback)
  \/ \E k \in KernelIds, t \in {"BINARY", "SOURCE"} : clCreateKernel(k, t)
  \/ \E k \in KernelIds, flags \in FlagSets, n \in AppSizes : clCreateBuffer(k, flags, n)
  \/ \E k \in KernelIds, flags \in FlagSets : clCreateBufferFrom(k, flags)
  \/ \E b \in BufferIds : clReleaseMemObject(b)

Prepare ==
  \/ \E bs \in Listings(buffers) : TaskGraphCreate(bs)
  \/ TaskGraphDestroy
  \/ AllocationStep /\ UNCHANGED wrapVars
  \/ \E k \in KernelIds, bs \in SUBSET buffers : clSetKernelArgs(k, bs)
  \/ \E k \in KernelIds : SetOddArg(k)

Execute ==
  /\ context
  /\ \/ \E list \in WaitLists :
          \/ Wait(list) \/ WaitFails(list)
          \/ \E b \in buffers : clEnqueueWriteBuffer(list, b) \/ clEnqueueReadBuffer(list, b)
          \/ \E k \in KernelIds : clEnqueueNDRangeKernel(list, k)
     \/ Replace \/ Process
  /\ UNCHANGED wrapVars

WrapNext == SetUp \/ Prepare \/ Execute \/ clReleaseContext

WrapSpec == WrapInit /\ [][WrapNext]_<<contextVars, launchVars, wrapVars>>
-----------------------------------------------------------------------------
\* The wrapper hands out an id once, so what a kernel's table says of a
\* registered buffer is about that buffer, and only for a kernel that uses it.
TableOwned ==
  /\ buffers \subseteq bufferIds /\ bufferIds \subseteq BufferIds
  /\ \A k \in KernelIds : \A b \in BufferIds \ bufferIds : tlb[k][b] = Unplaced
  /\ \A k \in KernelIds : \A b \in buffers :
       tlb[k][b] \notin {Unplaced, Stray} => b \in Placed /\ k \in users[b]

\* The inductive invariant of the application and what it has started.
WrapInv ==
  /\ LaunchTypeOK
  /\ TableOwned
  /\ PackagesOwned
  /\ BytesBelowLast
  /\ BytesBelong
  /\ PackedFresh
  /\ FutureIsLast
=============================================================================
