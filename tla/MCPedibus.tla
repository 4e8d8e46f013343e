----------------------------- MODULE MCPedibus ------------------------------
(***************************************************************************)
(* Model checking of the programs of For_Challenge on five nodes.          *)
(*                                                                         *)
(* The points are the corners and sides of right triangles 3-4-5 and lines *)
(* through them, so that all distances are whole.                          *)
(***************************************************************************)
EXTENDS Pedibus, TLC

At(h, k) == [x |-> h, y |-> k]
Points ==
  <<At(-3, 0), At(0, 0), At(3, 0), At(6, 0), At(0, 4), At(3, 4), At(0, -4), At(0, 8), At(6, 8)>>
Whole(c) ==
  \A u, v \in Nodes : \E r \in 0 .. 12 :
    r * r = (c[u].x - c[v].x) * (c[u].x - c[v].x) + (c[u].y - c[v].y) * (c[u].y - c[v].y)

\* (what tells stops at equal distances apart is the danger: one order of the
\* points is enough)
InOrder == {p \in [Stops -> DOMAIN Points] : \A v \in 1 .. N - 2 : p[v] <= p[v + 1]}
Places ==
  {c \in {[v \in Nodes |-> IF v = School THEN At(0, 0) ELSE Points[p[v]]] : p \in InOrder} : Whole(c)}

\* Danger by the end the arc leads to, by the one it starts at, and mixed.
Dangers ==
  {[u, v \in Nodes |-> u], [u, v \in Nodes |-> N - v], [u, v \in Nodes |-> u + v],
   [u, v \in Nodes |-> (u * v + 3 * u) % 4], [u, v \in Nodes |-> (u + 2 * v) % 3]}

MCInputs == [coord : Places, danger : Dangers, num : {3, 4}, den : {2}]

\* (the draft does not take two stops at one place)
OnLine == {c \in [Nodes -> {At(h, 0) : h \in -3 .. 3}] : c[School] = At(0, 0)}
MCMaps ==
  [coord : {c \in OnLine \cup Places : \A u, v \in Nodes : u # v => c[u] # c[v]},
   num : {2, 3, 4, 6}, den : {2}]

Pairs == {e \in Nodes \X Nodes : e[1] < e[2]}
Matrix(f) ==
  [u, v \in Nodes |-> IF u = v THEN 0 ELSE IF u < v THEN f[<<u, v>>] ELSE f[<<v, u>>]]
OneEdge(f) == \A v \in 0 .. N - 3 : f[<<v, N - 1>>] = 0
MCWeights == {w \in {Matrix(f) : f \in {g \in [Pairs -> 0 .. 2] : OneEdge(g)}} : IsGraph(w)}

MCArcs ==
  {x \in [a : {0}, b : {1, 2}, branch : {0, 1}, dist : {1, 2}, danger : {1}] :
     x.branch = 1 => x.dist = 2}
MCArrays == UNION {[1 .. n -> MCArcs] : n \in 1 .. 4}
=============================================================================
