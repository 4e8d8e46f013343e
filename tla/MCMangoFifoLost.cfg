SPECIFICATION FifoSpec
CONSTANTS
  t1 = t1
  t2 = t2
  main = main
  Tasks <- MCTasks
  Main <- main
  Rounds = 2
  UseFifo = TRUE
  Chunks = 2
  FifoFirst = FALSE
SYMMETRY TaskSymmetry
INVARIANTS
  EveryChunkIsRead
CHECK_DEADLOCK FALSE
