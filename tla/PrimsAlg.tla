------------------------------ MODULE PrimsAlg ------------------------------
(***************************************************************************)
(* The minimum spanning tree program (prims_alg.c).  weight[i][j] is 0     *)
(* where there is no edge; d[i] is the distance of node i from the tree    *)
(* and whoTo[i] the node of the tree it is that far from.                  *)
(***************************************************************************)
EXTENDS BusStops, FiniteSets

CONSTANTS
  Weights,    \* matrices the input file may hold
  Infinity    \* 100000

\* The program does not look whether the graph is connected, nor whether its
\* weights are less than its infinity: it is given graphs of which both hold.
IsGraph(w) ==
  /\ w \in [Nodes \X Nodes -> Nat]
  /\ \A u, v \in Nodes : w[u, v] = w[v, u] /\ w[u, v] < Infinity
  /\ \A S \in SUBSET Nodes : S # {} /\ S # Nodes => \E u \in S, v \in Nodes \ S : w[u, v] # 0

ASSUME PrimAssumption ==
  /\ N \in Nat \ {0}
  /\ Infinity \in Nat
  /\ \A w \in Weights : IsGraph(w)

VARIABLES
  weight,
  inMst,     \* nodes with inTree[v] = 1
  d, whoTo,
  printed,   \* edges printed: <<whoTo[v], v>>
  total      \* the sum of their weights

primVars == <<weight, inMst, d, whoTo, printed, total>>

Weight(u, v) == weight[u, v]

-----------------------------------------------------------------------------
\* (mutants: any neighbour is taken for nearer; whoTo is not updated)
NearerAny(target, dist) == {v \in Nodes : Weight(target, v) # 0}
OldWhoTo(target, dist, who) == who

\* updateDistances(target): the nodes that target is nearer to.
Nearer(target, dist) ==
  {v \in Nodes : Weight(target, v) # 0 /\ dist[v] > Weight(target, v)}

NewD(target, dist) ==
  [v \in Nodes |-> IF v \in Nearer(target, dist) THEN Weight(target, v) ELSE dist[v]]

NewWhoTo(target, dist, who) ==
  [v \in Nodes |-> IF v \in Nearer(target, dist) THEN target ELSE who[v]]

Far == [v \in Nodes |-> Infinity]

PrimInit ==
  /\ weight \in Weights
  /\ inMst = {School}
  /\ d = NewD(School, Far)
  /\ whoTo = NewWhoTo(School, Far, [v \in Nodes |-> 0])
  /\ printed = {} /\ total = 0

\* The first of the nodes nearest to the tree.
IsNearest(v, out, dist) ==
  \A u \in out : dist[v] < dist[u] \/ (dist[v] = dist[u] /\ v <= u)

AddNode(v) ==
  /\ v \notin inMst
  /\ IsNearest(v, Nodes \ inMst, d)
  /\ printed' = printed \cup {<<whoTo[v], v>>}
  /\ inMst' = inMst \cup {v}
  /\ total' = total + d[v]
  /\ d' = NewD(v, d)
  /\ whoTo' = NewWhoTo(v, d, whoTo)
  /\ UNCHANGED weight

PrimNext == \E v \in Nodes : AddNode(v)

PrimSpec == PrimInit /\ [][PrimNext]_primVars
-----------------------------------------------------------------------------
PrimTypeOK ==
  /\ IsGraph(weight)
  /\ inMst \subseteq Nodes /\ School \in inMst
  /\ d \in [Nodes -> Nat] /\ whoTo \in [Nodes -> Nodes]
  /\ printed \subseteq Nodes \X Nodes
  /\ total \in Nat

\* d and whoTo name the shortest edge from the tree to every node outside.
NearestKnown ==
  \A v \in Nodes \ inMst :
    /\ \A u \in inMst : Weight(u, v) # 0 => d[v] <= Weight(u, v)
    /\ d[v] = Infinity \/ (whoTo[v] \in inMst /\ d[v] = Weight(whoTo[v], v) /\ d[v] # 0)

\* Every edge printed is one of the graph, none of them closes a cycle, and
\* every node but the first is at the end of one of them.
EdgesGrowTree ==
  /\ \A e \in printed : Weight(e[1], e[2]) # 0 /\ e[1] \in inMst /\ e[2] \in inMst \ {School}
  /\ \A e, f \in printed : e[2] = f[2] => e = f
  /\ \A S \in SUBSET (inMst \ {School}) :
       S # {} => \E e \in printed : e[1] \notin S /\ e[2] \in S

-----------------------------------------------------------------------------
\* When all nodes are in the tree no spanning tree of the graph weighs less.

Edge(u, v) == IF u < v THEN <<u, v>> ELSE <<v, u>>

EdgesOfGraph == {e \in Nodes \X Nodes : e[1] < e[2] /\ Weight(e[1], e[2]) # 0}

Connects(E) ==
  \A S \in SUBSET Nodes :
    S # {} /\ S # Nodes => \E e \in E : (e[1] \in S) # (e[2] \in S)

SpanningTrees == {E \in SUBSET EdgesOfGraph : Cardinality(E) = N - 1 /\ Connects(E)}

\* The sum of the weights of the edges in E: an edge counts once for every unit
\* of its weight.
Units(E) == UNION {{e} \X (1 .. Weight(e[1], e[2])) : e \in E}
WeightOf(E) == Cardinality(Units(E))

Tree == {Edge(e[1], e[2]) : e \in printed}

TotalIsMinimal ==
  inMst = Nodes =>
    /\ Tree \in SpanningTrees /\ total = WeightOf(Tree)
    /\ \A E \in SpanningTrees : total <= WeightOf(E)

-----------------------------------------------------------------------------
\* Why it holds.

\* Every node but the first has brought an edge, and total its weight.
TreeWeighed ==
  /\ Tree \subseteq EdgesOfGraph
  /\ Cardinality(Tree) = Cardinality(inMst) - 1
  /\ total = WeightOf(Tree)

\* No edge printed is a mistake: whatever spanning tree there is, one that has
\* all the edges printed so far weighs no more.
TreeExtends ==
  \A E \in SpanningTrees : \E T \in SpanningTrees : Tree \subseteq T /\ WeightOf(T) <= WeightOf(E)

\* The inductive invariant.
PrimInv == PrimTypeOK /\ NearestKnown /\ EdgesGrowTree /\ TreeWeighed /\ TreeExtends
=============================================================================
