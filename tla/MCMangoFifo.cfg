SPECIFICATION FifoSpec
CONSTANTS
  t1 = t1
  t2 = t2
  main = main
  Tasks <- MCTasks
  Main <- main
  Rounds = 3
  UseFifo = TRUE
  Chunks = 3
  FifoFirst = FALSE
SYMMETRY TaskSymmetry
INVARIANTS
  FifoIInv
  NoCopyWhileReading
  RoundReadsOneChunk
  ChunksInOrder
PROPERTIES
  ImplementsChunkStream
CHECK_DEADLOCK FALSE
