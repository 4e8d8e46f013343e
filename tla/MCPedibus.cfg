SPECIFICATION PedibusSpec
CONSTANTS
  N = 5
  Infinity = 100000
  Inputs <- MCInputs
  Maps <- MCMaps
  Weights <- MCWeights
  Arrays <- MCArrays
INVARIANTS
  BusInvariant
  LinesCounted
  QueueLasts
  WithinAlpha
  PrimInvariant
  MinimalTotal
  DraftInvariant
  SortInvariant
  SortedLeastLast
PROPERTIES
  Finishes
CHECK_DEADLOCK FALSE
