SPECIFICATION Spec
CONSTANTS
  t1 = t1
  t2 = t2
  t3 = t3
  main = main
  Tasks <- MCTwoTasks
  Main <- main
  Rounds = 2
  UseFifo = TRUE
INVARIANTS
  ResetLosesNoArrival
PROPERTIES
  ImplementsWorkGroup
CHECK_DEADLOCK FALSE
