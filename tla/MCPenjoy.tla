------------------------------ MODULE MCPenjoy ------------------------------
(***************************************************************************)
(* Model checking of PenjoyReservations.  Names, ids, requests and         *)
(* sessions are not told apart.                                            *)
(***************************************************************************)
EXTENDS PenjoyReservations, TLC
CONSTANTS r1, r2, s1, s2, c1, n1, n2, i1, i2
MCNames == {n1, n2}
MCIds == {i1, i2}
MCRequests == {r1, r2}
MCSessions == {s1, s2}
MCCars == {c1}
PenjoySymmetry ==
  Permutations(MCNames) \cup Permutations(MCIds)
    \cup Permutations(MCRequests) \cup Permutations(MCSessions)
=============================================================================
