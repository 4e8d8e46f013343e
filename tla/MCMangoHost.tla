----------------------------- MODULE MCMangoHost -----------------------------
(***************************************************************************)
(* Model checking of the host.  Both its users have the same memory of two *)
(* free bytes; neither kernels nor buffers are told apart.                 *)
(***************************************************************************)
EXTENDS MangoHost, TLC
CONSTANTS k1, b1, b2
MCKernel == {k1}
MCBuffers == {b1, b2}
HostSymmetry == Permutations(MCBuffers)
=============================================================================
