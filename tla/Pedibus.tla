------------------------------ MODULE Pedibus -------------------------------
(***************************************************************************)
(* The programs of For_Challenge.  They share nothing: a run is a run of   *)
(* one of them, or of quickSort on an array of its own, and the variables  *)
(* of the others stay as they are.                                         *)
(***************************************************************************)
EXTENDS ArcSort, WalkingBusDraft

VARIABLE program
pedibusVars == <<program, busVars, sortVars, primVars, alpha, partial, last>>

NoBus ==
  /\ input = [dist |-> [u, v \in Nodes |-> 0], danger |-> [u, v \in Nodes |-> 0], num |-> 1, den |-> 1]
  /\ pass = 3 /\ inTree = {School} /\ queue = {} /\ order = <<>>
  /\ arcTo = [v \in Nodes |-> NoArc] /\ branched = [v \in Nodes |-> 0] /\ branches = 0
  /\ minDist = [v \in Nodes |-> 0] /\ way = minDist /\ turn = 1 /\ cand = 0
NoSort ==
  /\ given = <<>> /\ array = <<>> /\ calls = {}
  /\ phase = "call" /\ part = <<1, 1>> /\ up = 1 /\ down = 1
NoGraph ==
  /\ weight = [u, v \in Nodes |-> 0]
  /\ inMst = {School} /\ d = [v \in Nodes |-> 0] /\ whoTo = d /\ printed = {}
NoAlpha == alpha = [num |-> 1, den |-> 1] /\ partial = [v \in Nodes |-> 0] /\ last = School

PedibusInit ==
  \/ program = "walking_bus2" /\ BusInit /\ NoSort /\ NoGraph /\ total = 0 /\ NoAlpha
  \/ program = "quickSort" /\ SortInit /\ NoBus /\ NoGraph /\ total = 0 /\ NoAlpha
  \/ program = "prims_alg" /\ PrimInit /\ NoBus /\ NoSort /\ NoAlpha
  \/ program = "walking_bus" /\ DraftInit /\ NoBus /\ NoSort /\ total = 0

BusRuns == program = "walking_bus2" /\ UNCHANGED <<program, sortVars, primVars, alpha, partial, last>>
SortRuns == program = "quickSort" /\ UNCHANGED <<program, busVars, primVars, alpha, partial, last>>
PrimRuns == program = "prims_alg" /\ UNCHANGED <<program, busVars, sortVars, alpha, partial, last>>
DraftRuns == program = "walking_bus" /\ UNCHANGED <<program, busVars, sortVars, total>>

PedibusNext ==
  \/ BusNext /\ BusRuns
  \/ SortNext /\ SortRuns
  \/ PrimNext /\ PrimRuns
  \/ DraftNext /\ DraftRuns

\* A program that can go on does.
PedibusSpec ==
  /\ PedibusInit /\ [][PedibusNext]_pedibusVars
  /\ WF_pedibusVars(BusNext /\ BusRuns)
  /\ WF_pedibusVars(SortNext /\ SortRuns)
  /\ WF_pedibusVars(PrimNext /\ PrimRuns)
  /\ WF_pedibusVars(DraftNext /\ DraftRuns)

\* The properties of the four, each of its own program.
BusInvariant == program = "walking_bus2" => BusInv
SortInvariant == program = "quickSort" => SortInv
PrimInvariant == program = "prims_alg" => PrimInv
MinimalTotal == program = "prims_alg" => TotalIsMinimal
DraftInvariant == program = "walking_bus" => DraftInv

\* Whatever its input, the program that has been started comes to its end: in
\* walking_bus2 the loop that discards arcs and refills the queue is over when
\* every stop is in the tree.
Finishes ==
  <>(CASE program = "walking_bus2" -> pass = 3
       [] program = "quickSort" -> Sorted
       [] OTHER -> inMst = Nodes)
=============================================================================
