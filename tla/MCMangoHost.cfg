SPECIFICATION HostSpec
CONSTANTS
  k1 = k1
  b1 = b1
  b2 = b2
  KernelIds <- MCKernel
  BufferIds <- MCBuffers
  Sizes = {1, 2}
  AppSizes = {1}
  MemSize = 22
  EventArea = 20
  MaxEvents = 6
  MaxRuns = 2
SYMMETRY HostSymmetry
INVARIANTS
  ContextInv
  BuffersDisjoint
  KernelSeesBuffer
  EventsMapped
  WrapInvariant
  ArgumentsFresh
  BytesBelong
  WaitMeansDone
  KernelsInTurn
CHECK_DEADLOCK FALSE
