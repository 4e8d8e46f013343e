-------------------------- MODULE PrimsAlg_proofs ---------------------------
(***************************************************************************)
(* PrimInv is inductive for every number of nodes and every connected      *)
(* graph whose weights are below the program's infinity, and the tree that *)
(* is printed is minimal.  The argument is the exchange of edges: in a     *)
(* spanning tree that has all the edges printed so far, an edge that leads *)
(* into the tree can be given up for the one printed next.                 *)
(***************************************************************************)
EXTENDS PrimsAlg, FiniteSetTheorems, TLAPS

USE DEF School, Nodes

LEMMA SchoolType == School \in Nodes
BY PrimAssumption

LEMMA WeightTypes ==
  ASSUME IsGraph(weight)
  PROVE  /\ \A u, v \in Nodes : Weight(u, v) \in Nat /\ Weight(u, v) < Infinity
         /\ \A S \in SUBSET Nodes :
              S # {} /\ S # Nodes => \E u \in S, v \in Nodes \ S : Weight(u, v) # 0
BY Zenon DEF IsGraph, Weight

\* What updateDistances leaves in d and whoTo.
LEMMA NewDistances ==
  ASSUME NEW dist, NEW who, NEW target \in Nodes, NEW v \in Nodes
  PROVE  \/ /\ Weight(target, v) # 0 /\ dist[v] > Weight(target, v)
            /\ NewD(target, dist)[v] = Weight(target, v)
            /\ NewWhoTo(target, dist, who)[v] = target
         \/ /\ Weight(target, v) = 0 \/ ~ (dist[v] > Weight(target, v))
            /\ NewD(target, dist)[v] = dist[v]
            /\ NewWhoTo(target, dist, who)[v] = who[v]
BY DEF NewD, NewWhoTo, Nearer

LEMMA NewTypes ==
  ASSUME IsGraph(weight), NEW dist \in [Nodes -> Nat], NEW who \in [Nodes -> Nodes],
         NEW target \in Nodes
  PROVE  /\ NewD(target, dist) \in [Nodes -> Nat]
         /\ NewWhoTo(target, dist, who) \in [Nodes -> Nodes]
BY WeightTypes DEF NewD, NewWhoTo, Nearer

\* The node that is added is reached by an edge of the graph.
LEMMA NearestIsReached ==
  ASSUME PrimInv, NEW v \in Nodes \ inMst, IsNearest(v, Nodes \ inMst, d)
  PROVE  /\ whoTo[v] \in inMst /\ Weight(whoTo[v], v) = d[v] /\ d[v] # 0
<1> USE DEF PrimInv
<1>1. PICK u \in inMst, w \in Nodes \ inMst : Weight(u, w) # 0
  BY WeightTypes DEF PrimTypeOK
<1>2. Weight(u, w) \in Nat /\ Weight(u, w) < Infinity /\ Infinity \in Nat
  BY PrimAssumption, WeightTypes DEF PrimTypeOK
<1>3. d[w] <= Weight(u, w)
  BY <1>1 DEF NearestKnown
<1>4. d[v] \in Nat /\ d[w] \in Nat /\ (d[v] < d[w] \/ d[v] = d[w])
  BY DEF IsNearest, PrimTypeOK
<1>5. d[v] # Infinity
  BY <1>2, <1>3, <1>4
<1> QED BY <1>5 DEF NearestKnown

-----------------------------------------------------------------------------
\* The weights of sets of edges.

LEMMA EdgesFinite ==
  /\ IsFiniteSet(EdgesOfGraph)
  /\ \A E \in SUBSET EdgesOfGraph : IsFiniteSet(E) /\ Cardinality(E) \in Nat
<1>1. IsFiniteSet(Nodes)
  BY PrimAssumption, FS_Interval
<1>2. IsFiniteSet(Nodes \X Nodes)
  BY <1>1, FS_Product
<1>3. EdgesOfGraph \in SUBSET (Nodes \X Nodes)
  BY DEF EdgesOfGraph
<1>4. IsFiniteSet(EdgesOfGraph)
  BY <1>2, <1>3, FS_Subset
<1> QED BY <1>4, FS_Subset, FS_CardinalityType

LEMMA EdgeWeight ==
  ASSUME PrimTypeOK, NEW e \in EdgesOfGraph
  PROVE  /\ e[1] \in Nodes /\ e[2] \in Nodes /\ e[1] < e[2] /\ e = <<e[1], e[2]>>
         /\ Weight(e[2], e[1]) = Weight(e[1], e[2])
         /\ Weight(e[1], e[2]) \in Nat /\ Weight(e[1], e[2]) # 0 /\ Weight(e[1], e[2]) < Infinity
<1>1. e \in Nodes \X Nodes /\ e[1] < e[2] /\ Weight(e[1], e[2]) # 0
  BY DEF EdgesOfGraph
<1>2. e[1] \in Nodes /\ e[2] \in Nodes /\ e = <<e[1], e[2]>>
  BY <1>1
<1>3. Weight(e[1], e[2]) = Weight(e[2], e[1])
  BY <1>2 DEF PrimTypeOK, IsGraph, Weight
<1> QED BY <1>1, <1>2, <1>3, WeightTypes DEF PrimTypeOK

LEMMA UnitsFinite ==
  ASSUME PrimTypeOK, NEW E \in SUBSET EdgesOfGraph
  PROVE  IsFiniteSet(Units(E)) /\ WeightOf(E) \in Nat
<1>1. IsFiniteSet(E) /\ IsFiniteSet(1 .. Infinity)
  BY EdgesFinite, PrimAssumption, FS_Interval
<1>2. IsFiniteSet(E \X (1 .. Infinity))
  BY <1>1, FS_Product
<1>3. Units(E) \subseteq E \X (1 .. Infinity)
  <2> SUFFICES ASSUME NEW e \in E, NEW k \in 1 .. Weight(e[1], e[2]) PROVE k \in 1 .. Infinity
    BY DEF Units
  <2>1. Weight(e[1], e[2]) \in Nat /\ Weight(e[1], e[2]) < Infinity
    BY EdgeWeight
  <2> QED BY <2>1, PrimAssumption
<1>4. IsFiniteSet(Units(E))
  BY <1>2, <1>3, FS_Subset
<1> QED BY <1>4, FS_CardinalityType DEF WeightOf

\* One more edge adds its weight.
LEMMA WeightAdds ==
  ASSUME PrimTypeOK, NEW E \in SUBSET EdgesOfGraph, NEW e \in EdgesOfGraph \ E
  PROVE  WeightOf(E \cup {e}) = WeightOf(E) + Weight(e[1], e[2])
<1> DEFINE own == {e} \X (1 .. Weight(e[1], e[2]))
<1>1. Weight(e[1], e[2]) \in Nat
  BY EdgeWeight
<1>2. IsFiniteSet(own) /\ Cardinality(own) = Weight(e[1], e[2])
  <2>1. IsFiniteSet(1 .. Weight(e[1], e[2])) /\ Cardinality(1 .. Weight(e[1], e[2])) = Weight(e[1], e[2])
    BY <1>1, FS_Interval
  <2>2. IsFiniteSet({e}) /\ Cardinality({e}) = 1
    BY FS_Singleton
  <2>3. IsFiniteSet(own) /\ Cardinality(own) = 1 * Weight(e[1], e[2])
    BY <2>1, <2>2, FS_Product
  <2> HIDE DEF own
  <2> QED BY <1>1, <2>3
<1>3. Units(E \cup {e}) = Units(E) \cup own
  BY DEF Units
<1>4. Units(E) \cap own = {}
  BY DEF Units
<1> HIDE DEF own
<1>5. IsFiniteSet(Units(E)) /\ Cardinality(Units(E)) \in Nat
  BY UnitsFinite DEF WeightOf
<1>6. Cardinality(Units(E) \cup own)
        = Cardinality(Units(E)) + Cardinality(own) - Cardinality(Units(E) \cap own)
  BY <1>2, <1>5, FS_Union
<1>7. Cardinality(Units(E) \cap own) = 0
  BY <1>4, FS_EmptySet
<1>8. Cardinality(Units(E) \cup own) = Cardinality(Units(E)) + Weight(e[1], e[2])
  BY <1>1, <1>2, <1>5, <1>6, <1>7
<1> QED BY <1>3, <1>8 DEF WeightOf

\* An edge against another that weighs no less: so many edges, no more weight.
LEMMA ExchangeWeighs ==
  ASSUME PrimTypeOK, NEW T \in SUBSET EdgesOfGraph, NEW f \in T, NEW e \in EdgesOfGraph \ T,
         Weight(e[1], e[2]) <= Weight(f[1], f[2])
  PROVE  /\ Cardinality((T \ {f}) \cup {e}) = Cardinality(T)
         /\ WeightOf((T \ {f}) \cup {e}) <= WeightOf(T)
<1> DEFINE rest == T \ {f}
<1>1. rest \in SUBSET EdgesOfGraph /\ e \notin rest /\ f \notin rest /\ T = rest \cup {f}
  OBVIOUS
<1> HIDE DEF rest
<1>2. /\ WeightOf(rest \cup {e}) = WeightOf(rest) + Weight(e[1], e[2])
      /\ WeightOf(T) = WeightOf(rest) + Weight(f[1], f[2])
  BY <1>1, WeightAdds
<1>3. WeightOf(rest) \in Nat /\ Weight(e[1], e[2]) \in Nat /\ Weight(f[1], f[2]) \in Nat
  BY <1>1, UnitsFinite, EdgeWeight
<1>4. IsFiniteSet(rest)
  BY <1>1, EdgesFinite
<1>5. /\ Cardinality(rest \cup {e}) = Cardinality(rest) + 1
      /\ Cardinality(rest \cup {f}) = Cardinality(rest) + 1
  BY <1>1, <1>4, FS_AddElement
<1>6. Cardinality(rest \cup {e}) = Cardinality(T) /\ WeightOf(rest \cup {e}) <= WeightOf(T)
  BY <1>1, <1>2, <1>3, <1>5
<1> QED BY <1>6 DEF rest

-----------------------------------------------------------------------------
\* The edges printed are a tree over the nodes added.

LEMMA TreeEdge ==
  ASSUME PrimInv, NEW e \in Tree
  PROVE  e[1] \in inMst /\ e[2] \in inMst
BY DEF Tree, Edge, PrimInv, EdgesGrowTree

\* A cut that parts the nodes added parts the ends of an edge printed.
LEMMA TreeHoldsTogether ==
  ASSUME PrimInv, NEW S, NEW x \in inMst, NEW y \in inMst, x \in S, y \notin S
  PROVE  \E e \in Tree : (e[1] \in S) # (e[2] \in S)
<1> DEFINE away == IF School \in S THEN inMst \ S ELSE inMst \cap S
<1>1. away \in SUBSET (inMst \ {School}) /\ away # {}
  OBVIOUS
<1>2. PICK p \in printed : p[1] \notin away /\ p[2] \in away
  BY <1>1 DEF PrimInv, EdgesGrowTree
<1>3. p[1] \in inMst /\ p[2] \in inMst
  BY DEF PrimInv, EdgesGrowTree
<1>4. (p[1] \in S) # (p[2] \in S)
  BY <1>2, <1>3
<1>5. Edge(p[1], p[2]) \in Tree
  BY DEF Tree
<1>6. \/ Edge(p[1], p[2])[1] = p[1] /\ Edge(p[1], p[2])[2] = p[2]
      \/ Edge(p[1], p[2])[1] = p[2] /\ Edge(p[1], p[2])[2] = p[1]
  BY DEF Edge
<1> QED BY <1>4, <1>5, <1>6

LEMMA TreeIsMinimal ==
  ASSUME PrimInv
  PROVE  TotalIsMinimal
<1> SUFFICES ASSUME inMst = Nodes
             PROVE  /\ Tree \in SpanningTrees /\ total = WeightOf(Tree)
                    /\ \A E \in SpanningTrees : total <= WeightOf(E)
  BY DEF TotalIsMinimal
<1>1. Tree \in SUBSET EdgesOfGraph /\ total = WeightOf(Tree) /\ PrimTypeOK
  BY DEF PrimInv, TreeWeighed
<1>2. Cardinality(Tree) = N - 1
  <2>1. Cardinality(Nodes) = N
    BY PrimAssumption, FS_Interval
  <2> QED BY <2>1 DEF PrimInv, TreeWeighed
<1>3. Connects(Tree)
  <2> SUFFICES ASSUME NEW S \in SUBSET Nodes, S # {}, S # Nodes
               PROVE  \E e \in Tree : (e[1] \in S) # (e[2] \in S)
    BY DEF Connects
  <2>1. PICK x \in Nodes, y \in Nodes : x \in S /\ y \notin S
    OBVIOUS
  <2> QED BY <2>1, TreeHoldsTogether
<1>4. ASSUME NEW E \in SpanningTrees PROVE total <= WeightOf(E)
  <2>1. PICK T \in SpanningTrees : Tree \subseteq T /\ WeightOf(T) <= WeightOf(E)
    BY DEF PrimInv, TreeExtends
  <2>2. T \in SUBSET EdgesOfGraph /\ E \in SUBSET EdgesOfGraph
    BY DEF SpanningTrees
  <2>3. WeightOf(Tree) <= WeightOf(T)
    <3>1. Units(Tree) \in SUBSET Units(T)
      BY <2>1 DEF Units
    <3>2. IsFiniteSet(Units(T))
      BY <1>1, <2>2, UnitsFinite
    <3> QED BY <3>1, <3>2, FS_Subset DEF WeightOf
  <2>4. WeightOf(Tree) \in Nat /\ WeightOf(T) \in Nat /\ WeightOf(E) \in Nat
    BY <1>1, <2>2, UnitsFinite
  <2> QED BY <1>1, <2>1, <2>3, <2>4
<1> QED BY <1>1, <1>2, <1>3, <1>4 DEF SpanningTrees

-----------------------------------------------------------------------------
\* The edge that is printed next belongs to a spanning tree with those printed
\* before.

\* In a spanning tree an edge leads to the nodes added from the nodes outside
\* that hang together with v (reach is the least such set).
LEMMA WayIn ==
  ASSUME PrimInv, NEW v \in Nodes \ inMst, NEW T \in SpanningTrees
  PROVE  \E f \in T, x \in Nodes \ inMst, y \in inMst :
           /\ f = <<x, y>> \/ f = <<y, x>>
           /\ \A C \in SUBSET (Nodes \ inMst) :
                v \in C /\ (\A g \in T : g[1] \notin inMst /\ g[2] \notin inMst
                              => (g[1] \in C <=> g[2] \in C))
                => x \in C
<1> DEFINE closed(C) == \A g \in T : g[1] \notin inMst /\ g[2] \notin inMst => (g[1] \in C <=> g[2] \in C)
           reach == {x \in Nodes \ inMst :
                       \A C \in SUBSET (Nodes \ inMst) : v \in C /\ closed(C) => x \in C}
<1>1. v \in reach /\ reach \in SUBSET (Nodes \ inMst)
  OBVIOUS
<1>2. T \in SUBSET EdgesOfGraph /\ \A g \in T : g[1] \in Nodes /\ g[2] \in Nodes /\ g = <<g[1], g[2]>>
  BY EdgeWeight DEF SpanningTrees, PrimInv
<1>3. closed(reach)
  <2> SUFFICES ASSUME NEW g \in T, g[1] \notin inMst, g[2] \notin inMst
               PROVE  g[1] \in reach <=> g[2] \in reach
    OBVIOUS
  <2>1. g[1] \in Nodes \ inMst /\ g[2] \in Nodes \ inMst
    BY <1>2
  <2>2. \A C \in SUBSET (Nodes \ inMst) : closed(C) => (g[1] \in C <=> g[2] \in C)
    OBVIOUS
  <2> HIDE DEF closed
  <2> QED BY <2>1, <2>2
<1>4. \E f \in T : (f[1] \in reach) # (f[2] \in reach)
  <2>1. School \in Nodes /\ School \notin reach
    BY <1>1, SchoolType DEF PrimInv, PrimTypeOK
  <2>2. reach # {} /\ reach # Nodes /\ reach \in SUBSET Nodes
    BY <1>1, <2>1
  <2> HIDE DEF reach
  <2> QED BY <2>2 DEF SpanningTrees, Connects
<1>5. PICK f \in T : (f[1] \in reach) # (f[2] \in reach)
  BY <1>4
<1>6. \A x \in reach : \A C \in SUBSET (Nodes \ inMst) : v \in C /\ closed(C) => x \in C
  OBVIOUS
<1> HIDE DEF reach
<1>7. CASE f[1] \in reach /\ f[2] \notin reach
  <2>1. f[2] \in inMst
    BY <1>1, <1>3, <1>7
  <2> QED BY <1>1, <1>2, <1>6, <1>7, <2>1
<1>8. CASE f[2] \in reach /\ f[1] \notin reach
  <2>1. f[1] \in inMst
    BY <1>1, <1>3, <1>8
  <2> QED BY <1>1, <1>2, <1>6, <1>8, <2>1
<1> QED BY <1>5, <1>7, <1>8

\* That edge may give its place to one from v to the nodes added.
LEMMA StillConnects ==
  ASSUME PrimInv, NEW v \in Nodes \ inMst, NEW u \in inMst, NEW T \in SpanningTrees, Tree \subseteq T,
         NEW f \in T, NEW x \in Nodes \ inMst, NEW y \in inMst, f = <<x, y>> \/ f = <<y, x>>,
         \A C \in SUBSET (Nodes \ inMst) :
           v \in C /\ (\A g \in T : g[1] \notin inMst /\ g[2] \notin inMst
                         => (g[1] \in C <=> g[2] \in C))
           => x \in C
  PROVE  Connects((T \ {f}) \cup {Edge(u, v)})
<1> SUFFICES ASSUME NEW S \in SUBSET Nodes, S # {}, S # Nodes,
                    \A g \in T \ {f} : (g[1] \in S) = (g[2] \in S)
             PROVE  (Edge(u, v)[1] \in S) # (Edge(u, v)[2] \in S)
  BY DEF Connects
<1>1. (x \in S) # (y \in S)
  <2>1. PICK g \in T : (g[1] \in S) # (g[2] \in S)
    BY DEF SpanningTrees, Connects
  <2>2. g = f
    BY <2>1
  <2> QED BY <2>1, <2>2
<1>2. f[1] \notin inMst \/ f[2] \notin inMst
  OBVIOUS
<1>3. (u \in S) = (y \in S)
  <2> SUFFICES ASSUME (u \in S) # (y \in S) PROVE FALSE
    OBVIOUS
  <2>1. PICK e \in Tree : (e[1] \in S) # (e[2] \in S)
    <3>1. CASE u \in S /\ y \notin S
      BY <3>1, TreeHoldsTogether
    <3>2. CASE y \in S /\ u \notin S
      BY <3>2, TreeHoldsTogether
    <3> QED BY <3>1, <3>2
  <2>2. e = f
    BY <2>1
  <2> QED BY <1>2, <2>2, TreeEdge
<1>4. (x \in S) = (v \in S)
  <2> DEFINE same == {z \in Nodes \ inMst : (z \in S) = (v \in S)}
  <2>1. v \in same /\ same \in SUBSET (Nodes \ inMst)
    OBVIOUS
  <2>2. ASSUME NEW g \in T, g[1] \notin inMst, g[2] \notin inMst
        PROVE  g[1] \in same <=> g[2] \in same
    <3>1. g[1] \in Nodes /\ g[2] \in Nodes
      BY EdgeWeight DEF SpanningTrees, PrimInv
    <3>2. g # f
      BY <2>2
    <3>3. (g[1] \in S) = (g[2] \in S)
      BY <3>2
    <3> QED BY <2>2, <3>1, <3>3
  <2>3. x \in same
    <3> HIDE DEF same
    <3> QED BY <2>1, <2>2
  <2> QED BY <2>3
<1>5. (u \in S) # (v \in S)
  BY <1>1, <1>3, <1>4
<1>6. \/ Edge(u, v)[1] = u /\ Edge(u, v)[2] = v
      \/ Edge(u, v)[1] = v /\ Edge(u, v)[2] = u
  BY DEF Edge
<1> QED BY <1>5, <1>6

LEMMA NewEdge ==
  ASSUME PrimTypeOK, NEW v \in Nodes \ inMst, NEW u \in inMst, Weight(u, v) # 0
  PROVE  Edge(u, v) \in EdgesOfGraph /\ Weight(Edge(u, v)[1], Edge(u, v)[2]) = Weight(u, v)
<1>1. u \in Nodes /\ Weight(v, u) = Weight(u, v)
  BY DEF PrimTypeOK, IsGraph, Weight
<1>2. u # v /\ u \in Int /\ v \in Int
  BY <1>1, PrimAssumption
<1>3. \/ Edge(u, v) = <<u, v>> /\ u < v
      \/ Edge(u, v) = <<v, u>> /\ v < u
  BY <1>1, <1>2 DEF Edge
<1> QED BY <1>1, <1>3 DEF EdgesOfGraph

LEMMA NewEdgeExtends ==
  ASSUME PrimInv, NEW v \in Nodes \ inMst, IsNearest(v, Nodes \ inMst, d), NEW E \in SpanningTrees
  PROVE  \E T \in SpanningTrees : Tree \cup {Edge(whoTo[v], v)} \subseteq T /\ WeightOf(T) <= WeightOf(E)
<1> DEFINE u == whoTo[v]  e == Edge(u, v)
<1>0. u \in inMst /\ Weight(u, v) = d[v] /\ d[v] # 0 /\ u \in Nodes /\ PrimTypeOK
  BY NearestIsReached DEF PrimInv, PrimTypeOK
<1>1. e \in EdgesOfGraph /\ Weight(e[1], e[2]) = d[v]
  BY <1>0, NewEdge
<1> HIDE DEF e
<1>2. PICK T \in SpanningTrees : Tree \subseteq T /\ WeightOf(T) <= WeightOf(E)
  BY DEF PrimInv, TreeExtends
<1>3. T \in SUBSET EdgesOfGraph /\ E \in SUBSET EdgesOfGraph /\ Cardinality(T) = N - 1
  BY DEF SpanningTrees
<1>4. CASE e \in T
  BY <1>2, <1>4 DEF e
<1>5. CASE e \notin T
  <2>1. PICK f \in T, x \in Nodes \ inMst, y \in inMst :
          /\ f = <<x, y>> \/ f = <<y, x>>
          /\ \A C \in SUBSET (Nodes \ inMst) :
               v \in C /\ (\A g \in T : g[1] \notin inMst /\ g[2] \notin inMst
                             => (g[1] \in C <=> g[2] \in C))
               => x \in C
    BY WayIn
  <2> DEFINE new == (T \ {f}) \cup {e}
  <2>2. Connects(new)
    BY <1>0, <1>2, <2>1, StillConnects DEF e
  <2>3. Weight(e[1], e[2]) <= Weight(f[1], f[2])
    <3>1. Weight(f[1], f[2]) = Weight(y, x) /\ Weight(f[1], f[2]) # 0 /\ Weight(f[1], f[2]) \in Nat
      <4>1. (f[1] = x /\ f[2] = y) \/ (f[1] = y /\ f[2] = x)
        BY <2>1
      <4> QED BY <1>0, <1>3, <4>1, EdgeWeight
    <3>2. d[x] <= Weight(y, x)
      BY <3>1 DEF PrimInv, NearestKnown
    <3>3. d[v] \in Nat /\ d[x] \in Nat /\ (d[v] < d[x] \/ d[v] = d[x])
      BY DEF IsNearest, PrimInv, PrimTypeOK
    <3> QED BY <1>1, <3>1, <3>2, <3>3
  <2>4. Cardinality(new) = N - 1 /\ WeightOf(new) <= WeightOf(T)
    BY <1>0, <1>1, <1>3, <1>5, <2>3, ExchangeWeighs
  <2>5. WeightOf(new) <= WeightOf(E)
    <3>1. new \in SUBSET EdgesOfGraph
      BY <1>1, <1>3
    <3>2. WeightOf(new) \in Nat /\ WeightOf(T) \in Nat /\ WeightOf(E) \in Nat
      BY <1>0, <1>3, <3>1, UnitsFinite
    <3> QED BY <1>2, <2>4, <3>2
  <2>6. new \in SpanningTrees
    BY <1>1, <1>3, <2>2, <2>4 DEF SpanningTrees
  <2>7. f \notin Tree
    BY <2>1, TreeEdge
  <2>8. Tree \cup {e} \subseteq new
    BY <1>2, <2>7
  <2> QED BY <2>5, <2>6, <2>8 DEF e
<1> QED BY <1>4, <1>5

-----------------------------------------------------------------------------
\* The invariant is inductive.

LEMMA PrimInitInv == PrimInit => PrimInv
<1> SUFFICES ASSUME PrimInit PROVE PrimInv
  OBVIOUS
<1> DEFINE zero == [v \in Nodes |-> 0]
<1>1. IsGraph(weight) /\ Far \in [Nodes -> Nat] /\ zero \in [Nodes -> Nodes] /\ Infinity \in Nat
  BY PrimAssumption, SchoolType DEF PrimInit, Far
<1>2. /\ d = NewD(School, Far) /\ whoTo = NewWhoTo(School, Far, zero)
      /\ inMst = {School} /\ printed = {} /\ total = 0
  BY DEF PrimInit
<1>3. PrimTypeOK
  <2>1. d \in [Nodes -> Nat] /\ whoTo \in [Nodes -> Nodes]
    <3> HIDE DEF zero
    <3> QED BY <1>1, <1>2, SchoolType, NewTypes
  <2> QED BY <1>1, <1>2, <2>1, SchoolType DEF PrimTypeOK
<1>4. NearestKnown
  <2> SUFFICES ASSUME NEW v \in Nodes
               PROVE  /\ Weight(School, v) # 0 => d[v] <= Weight(School, v)
                      /\ d[v] = Infinity \/ (whoTo[v] = School /\ d[v] = Weight(School, v) /\ d[v] # 0)
    BY <1>2 DEF NearestKnown
  <2>1. Far[v] = Infinity /\ Weight(School, v) \in Nat
    BY <1>1, SchoolType, WeightTypes DEF Far
  <2>2. \/ /\ Weight(School, v) # 0
           /\ d[v] = Weight(School, v) /\ whoTo[v] = School
        \/ (Weight(School, v) = 0 \/ ~ (Infinity > Weight(School, v))) /\ d[v] = Infinity
    <3> HIDE DEF zero
    <3> QED BY <1>2, <2>1, SchoolType, NewDistances
  <2> QED BY <1>1, <2>1, <2>2
<1>5. EdgesGrowTree
  BY <1>2 DEF EdgesGrowTree
<1>6. Tree = {}
  BY <1>2 DEF Tree
<1>7. TreeWeighed
  <2>1. WeightOf({}) = 0
    BY FS_EmptySet DEF WeightOf, Units
  <2>2. Cardinality(Tree) = 0 /\ Cardinality(inMst) = 1
    BY <1>2, <1>6, FS_EmptySet, FS_Singleton
  <2> QED BY <1>2, <1>6, <2>1, <2>2 DEF TreeWeighed
<1>8. TreeExtends
  <2> SUFFICES ASSUME NEW E \in SpanningTrees PROVE WeightOf(E) <= WeightOf(E)
    BY <1>6 DEF TreeExtends
  <2> QED BY <1>3, UnitsFinite DEF SpanningTrees
<1> QED BY <1>3, <1>4, <1>5, <1>7, <1>8 DEF PrimInv

LEMMA AddNodeInv ==
  ASSUME PrimInv, NEW v \in Nodes, AddNode(v)
  PROVE  PrimInv'
<1> USE DEF PrimInv
<1>1. /\ weight' = weight /\ inMst' = inMst \cup {v} /\ v \notin inMst
      /\ printed' = printed \cup {<<whoTo[v], v>>} /\ total' = total + d[v]
      /\ d' = NewD(v, d) /\ whoTo' = NewWhoTo(v, d, whoTo)
      /\ v # School /\ \A x, y : Weight(x, y)' = Weight(x, y)
  BY DEF AddNode, PrimTypeOK, Weight
<1>2. whoTo[v] \in inMst /\ Weight(whoTo[v], v) = d[v] /\ d[v] # 0
  BY <1>1, NearestIsReached DEF AddNode
<1>3. /\ IsGraph(weight) /\ d \in [Nodes -> Nat] /\ whoTo \in [Nodes -> Nodes]
      /\ inMst \subseteq Nodes /\ printed \subseteq Nodes \X Nodes /\ total \in Nat
  BY DEF PrimTypeOK
<1>4. PrimTypeOK'
  <2>1. d' \in [Nodes -> Nat] /\ whoTo' \in [Nodes -> Nodes]
    BY <1>1, <1>3, NewTypes
  <2>2. total' \in Nat
    BY <1>1, <1>3
  <2>3. printed' \subseteq Nodes \X Nodes /\ inMst' \subseteq Nodes
    BY <1>1, <1>3
  <2> QED BY <1>1, <2>1, <2>2, <2>3 DEF PrimTypeOK
<1>5. NearestKnown'
  <2> SUFFICES ASSUME NEW w \in Nodes \ (inMst \cup {v})
               PROVE  /\ \A u \in inMst \cup {v} : Weight(u, w) # 0 => d'[w] <= Weight(u, w)
                      /\ \/ d'[w] = Infinity
                         \/ whoTo'[w] \in inMst \cup {v} /\ d'[w] = Weight(whoTo'[w], w) /\ d'[w] # 0
    BY <1>1 DEF NearestKnown
  <2>1. /\ \A u \in inMst : Weight(u, w) # 0 => d[w] <= Weight(u, w)
        /\ d[w] = Infinity \/ (whoTo[w] \in inMst /\ d[w] = Weight(whoTo[w], w) /\ d[w] # 0)
    BY DEF NearestKnown
  <2>2. /\ d[w] \in Nat /\ Weight(v, w) \in Nat
        /\ \A u \in inMst : Weight(u, w) \in Nat
    BY <1>3, WeightTypes
  <2>3. \/ /\ Weight(v, w) # 0 /\ d[w] > Weight(v, w)
           /\ d'[w] = Weight(v, w) /\ whoTo'[w] = v
        \/ /\ Weight(v, w) = 0 \/ ~ (d[w] > Weight(v, w))
           /\ d'[w] = d[w] /\ whoTo'[w] = whoTo[w]
    BY <1>1, NewDistances
  <2> QED BY <2>1, <2>2, <2>3
<1>6. EdgesGrowTree'
  <2> DEFINE new == <<whoTo[v], v>>
  <2>1. /\ \A e \in printed : Weight(e[1], e[2]) # 0 /\ e[1] \in inMst /\ e[2] \in inMst \ {School}
        /\ \A e, f \in printed : e[2] = f[2] => e = f
    BY DEF EdgesGrowTree
  <2>2. \A e \in printed' : Weight(e[1], e[2]) # 0 /\ e[1] \in inMst' /\ e[2] \in inMst' \ {School}
    BY <1>1, <1>2, <2>1
  <2>3. \A e, f \in printed' : e[2] = f[2] => e = f
    BY <1>1, <2>1
  <2>4. ASSUME NEW S \in SUBSET (inMst' \ {School}), S # {}
        PROVE  \E e \in printed' : e[1] \notin S /\ e[2] \in S
    <3>1. new \in printed' /\ new[1] = whoTo[v] /\ new[2] = v
      BY <1>1
    <3>2. CASE v \in S /\ whoTo[v] \notin S
      BY <3>1, <3>2
    <3>3. CASE ~ (v \in S /\ whoTo[v] \notin S)
      <4>1. S \ {v} \in SUBSET (inMst \ {School}) /\ S \ {v} # {}
        BY <1>1, <1>2, <2>4, <3>3
      <4>2. PICK e \in printed : e[1] \notin S \ {v} /\ e[2] \in S \ {v}
        BY <4>1 DEF EdgesGrowTree
      <4>3. e[1] # v
        BY <1>1, <2>1, <4>2
      <4> QED BY <1>1, <4>2, <4>3
    <3> QED BY <3>2, <3>3
  <2> QED BY <1>1, <2>2, <2>3, <2>4 DEF EdgesGrowTree
<1>7. Tree' = Tree \cup {Edge(whoTo[v], v)}
  <2>1. Tree' = {Edge(e[1], e[2]) : e \in printed \cup {<<whoTo[v], v>>}}
    BY <1>1 DEF Tree
  <2> DEFINE new == <<whoTo[v], v>>
  <2>2. new[1] = whoTo[v] /\ new[2] = v
    OBVIOUS
  <2> HIDE DEF new
  <2>3. {Edge(e[1], e[2]) : e \in printed \cup {new}}
          = {Edge(e[1], e[2]) : e \in printed} \cup {Edge(new[1], new[2])}
    OBVIOUS
  <2> QED BY <2>1, <2>2, <2>3 DEF Tree, new
<1>8. EdgesOfGraph' = EdgesOfGraph /\ SpanningTrees' = SpanningTrees /\ \A E : WeightOf(E)' = WeightOf(E)
  BY <1>1 DEF EdgesOfGraph, SpanningTrees, WeightOf, Units
<1>9. TreeWeighed'
  <2> DEFINE e == Edge(whoTo[v], v)
  <2>1. e \in EdgesOfGraph /\ Weight(e[1], e[2]) = d[v]
    BY <1>1, <1>2, <1>3, NewEdge
  <2>2. e \notin Tree
    <3>1. e[1] = v \/ e[2] = v
      BY DEF Edge
    <3> QED BY <1>1, <3>1, TreeEdge
  <2>3. Tree \in SUBSET EdgesOfGraph /\ total = WeightOf(Tree) /\ Cardinality(Tree) = Cardinality(inMst) - 1
    BY DEF TreeWeighed
  <2> HIDE DEF e
  <2>4. WeightOf(Tree \cup {e}) = WeightOf(Tree) + d[v]
    BY <2>1, <2>2, <2>3, WeightAdds
  <2>5. IsFiniteSet(Tree) /\ IsFiniteSet(inMst)
    <3>1. IsFiniteSet(Nodes) /\ inMst \in SUBSET Nodes
      BY <1>3, PrimAssumption, FS_Interval
    <3>2. IsFiniteSet(inMst)
      BY <3>1, FS_Subset
    <3> QED BY <2>3, <3>2, EdgesFinite
  <2>6. Cardinality(Tree) \in Nat /\ Cardinality(inMst) \in Nat
    BY <2>5, FS_CardinalityType
  <2>7. Cardinality(Tree \cup {e}) = Cardinality(Tree) + 1
    BY <2>2, <2>5, FS_AddElement
  <2>8. Cardinality(inMst \cup {v}) = Cardinality(inMst) + 1
    BY <1>1, <2>5, FS_AddElement
  <2>9. Tree' = Tree \cup {e}
    BY <1>7 DEF e
  <2> QED BY <1>1, <1>8, <2>1, <2>3, <2>4, <2>6, <2>7, <2>8, <2>9 DEF TreeWeighed
<1>10. TreeExtends'
  <2>1. IsNearest(v, Nodes \ inMst, d) /\ v \in Nodes \ inMst
    BY DEF AddNode
  <2> SUFFICES ASSUME NEW E \in SpanningTrees
               PROVE  \E T \in SpanningTrees :
                        Tree \cup {Edge(whoTo[v], v)} \subseteq T /\ WeightOf(T) <= WeightOf(E)
    BY <1>7, <1>8 DEF TreeExtends
  <2> QED BY <2>1, NewEdgeExtends
<1> QED BY <1>4, <1>5, <1>6, <1>9, <1>10

LEMMA PrimNextInv == PrimInv /\ [PrimNext]_primVars => PrimInv'
<1> SUFFICES ASSUME PrimInv, [PrimNext]_primVars PROVE PrimInv'
  OBVIOUS
<1>1. ASSUME NEW v \in Nodes, AddNode(v) PROVE PrimInv'
  BY <1>1, AddNodeInv
<1>2. CASE UNCHANGED primVars
  <2>1. UNCHANGED <<weight, inMst, d, whoTo, printed, total>>
    BY <1>2 DEF primVars
  <2>2. PrimTypeOK' /\ NearestKnown' /\ EdgesGrowTree'
    BY <2>1 DEF PrimInv, PrimTypeOK, NearestKnown, EdgesGrowTree, Weight
  <2>3. /\ EdgesOfGraph' = EdgesOfGraph /\ SpanningTrees' = SpanningTrees /\ Tree' = Tree
        /\ \A E : WeightOf(E)' = WeightOf(E)
    BY <2>1 DEF EdgesOfGraph, SpanningTrees, Tree, WeightOf, Units, Weight
  <2>4. TreeWeighed' /\ TreeExtends'
    BY <2>1, <2>3 DEF PrimInv, TreeWeighed, TreeExtends
  <2> QED BY <2>2, <2>4 DEF PrimInv
<1> QED BY <1>1, <1>2 DEF PrimNext

\* d and whoTo always name the nearest edges, and the edges printed are edges
\* of the graph that form a tree over the nodes added.
THEOREM PrimInvariance == PrimSpec => []PrimInv
BY PrimInitInv, PrimNextInv, PTL DEF PrimSpec

\* When all nodes are in the tree, what has been printed is a spanning tree,
\* total is its weight, and no spanning tree of the graph weighs less.
THEOREM PrimTotalMinimal == PrimSpec => []TotalIsMinimal
BY PrimInvariance, TreeIsMinimal, PTL
=============================================================================
