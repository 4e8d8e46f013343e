---------------------------- MODULE MCMangoFifo -----------------------------
(***************************************************************************)
(* Model checking of MangoFifo: two tasks, which are interchangeable (no   *)
(* definition tells one task from another), and as many chunks as rounds.  *)
(***************************************************************************)
EXTENDS MangoFifo, TLC
CONSTANTS t1, t2, main
MCTasks == {t1, t2}
TaskSymmetry == Permutations(MCTasks)
=============================================================================
