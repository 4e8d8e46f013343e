------------------------------ MODULE MangoHost ------------------------------
(***************************************************************************)
(* The two ways the host's bookkeeping is used: called in every order, as  *)
(* the library allows, or by an application that goes through the OpenCL   *)
(* wrapper and runs kernels.                                               *)
(***************************************************************************)
EXTENDS OpenCLWrap

VARIABLE program   \* "bookkeeping" or "opencl"

hostVars == <<program, contextVars, launchVars, wrapVars>>

HostInit == program \in {"bookkeeping", "opencl"} /\ WrapInit

HostNext ==
  \/ program = "bookkeeping" /\ ContextNext /\ UNCHANGED <<program, launchVars, wrapVars>>
  \/ program = "opencl" /\ WrapNext /\ UNCHANGED program

HostSpec == HostInit /\ [][HostNext]_hostVars

\* The inductive invariant of the application: ids are its own to hand out.
WrapInvariant == program = "opencl" => WrapInv
=============================================================================
