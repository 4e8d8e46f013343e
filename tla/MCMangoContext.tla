--------------------------- MODULE MCMangoContext ---------------------------
(***************************************************************************)
(* Model checking of what the documents say of MangoContext alone.  Where  *)
(* kernels or buffers are several they are not told apart.                 *)
(***************************************************************************)
EXTENDS MangoContext, TLC
CONSTANTS k1, k2, b1, b2
MCKernels == {k1, k2}
MCBuffers == {b1, b2}
ContextSymmetry == Permutations(MCKernels) \cup Permutations(MCBuffers)
=============================================================================
