----------------------------- MODULE MCMangoHN ------------------------------
(***************************************************************************)
(* Model checking of MangoHNProps: groups without and with a FIFO.         *)
(***************************************************************************)
EXTENDS MangoHNProps
CONSTANTS t1, t2, t3, main
MCTasks == {t1, t2, t3}
MCTwoTasks == {t1, t2}
=============================================================================
