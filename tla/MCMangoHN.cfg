SPECIFICATION FairSpec
CONSTANTS
  t1 = t1
  t2 = t2
  t3 = t3
  main = main
  Tasks <- MCTasks
  Main <- main
  Rounds = 2
  UseFifo = FALSE
INVARIANTS
  IInv
  BarrierSafety
  ResetLosesNoArrival
  JoinWaitsForAll
PROPERTIES
  ImplementsWorkGroup
  EveryBarrierOpens
  KernelCloses
CHECK_DEADLOCK FALSE
