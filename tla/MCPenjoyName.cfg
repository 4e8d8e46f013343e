SPECIFICATION PenjoySpec
CONSTANTS
  r1 = r1
  r2 = r2
  s1 = s1
  s2 = s2
  c1 = c1
  n1 = n1
  n2 = n2
  i1 = i1
  i2 = i2
  Names <- MCNames
  Ids <- MCIds
  Requests <- MCRequests
  Sessions <- MCSessions
  Cars <- MCCars
  NoName = NoName
  NoSession = NoSession
  NoCar = NoCar
  NoId = NoId
SYMMETRY PenjoySymmetry
INVARIANTS
  UserNamesUnique
CHECK_DEADLOCK FALSE
