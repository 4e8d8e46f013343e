SPECIFICATION ContextSpec
CONSTANTS
  k1 = k1
  k2 = k2
  b1 = b1
  b2 = b2
  KernelIds <- MCKernels
  BufferIds <- MCBuffers
  Sizes = {1}
  MemSize = 41
  EventArea = 40
  MaxEvents = 10
SYMMETRY ContextSymmetry
INVARIANTS
  SuccessMeansPlaced
CHECK_DEADLOCK FALSE
