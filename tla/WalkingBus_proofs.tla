-------------------------- MODULE WalkingBus_proofs --------------------------
(***************************************************************************)
(* BusInv is inductive, for every number of stops, every input and every   *)
(* order in which equal arcs are taken.                                    *)
(***************************************************************************)
EXTENDS WalkingBus, FiniteSetTheorems, TLAPS

USE DEF School, Stops, Nodes

-----------------------------------------------------------------------------
\* Facts about the data.

LEMMA DataTypes ==
  ASSUME BusTypeOK
  PROVE  /\ \A u, v \in Nodes : Dist(u, v) \in Nat /\ Danger(u, v) \in Nat
         /\ input.num \in Nat /\ input.den \in Nat \ {0} /\ input.den <= input.num
BY DEF BusTypeOK, Dist, Danger

\* The straight way is never too long, and what is too long is longer than it.
LEMMA StraightIsShort ==
  ASSUME NEW length \in Nat, NEW straight \in Nat, NEW num \in Nat, NEW den \in Nat \ {0},
         den <= num
  PROVE  /\ ~ Exceeds(straight, straight, num, den)
         /\ Exceeds(length, straight, num, den) => straight < length
<1>1. straight * den <= straight * num
  OBVIOUS
<1>2. length <= straight => length * den <= straight * den
  OBVIOUS
<1> QED BY <1>1, <1>2 DEF Exceeds

LEMMA SchoolIsNear ==
  ASSUME BusTypeOK, NEW v \in Nodes, NEW length \in Nat
  PROVE  /\ ~ TooFar(Dist(School, v), v)
         /\ TooFar(length, v) => Dist(School, v) < length
<1>1. Dist(School, v) \in Nat
  BY DataTypes, BusAssumption
<1> QED BY <1>1, DataTypes, StraightIsShort DEF TooFar

\* The stops that hang under a node can be counted.
LEMMA ChildrenFinite ==
  ASSUME BusTypeOK, NEW u
  PROVE  IsFiniteSet(Children(u)) /\ Cardinality(Children(u)) \in Nat
<1>1. IsFiniteSet(Nodes)
  BY BusAssumption, FS_Interval
<1>2. Children(u) \subseteq Nodes
  BY DEF BusTypeOK, Children, Reached
<1> QED BY <1>1, <1>2, FS_Subset, FS_CardinalityType

\* A node has branched just when it has a child.
LEMMA BranchedIsParent ==
  ASSUME BusTypeOK, BranchedCounts, NEW u \in Nodes
  PROVE  branched[u] = 0 <=> Children(u) = {}
BY ChildrenFinite, FS_EmptySet DEF BranchedCounts

LEMMA LeavesFinite ==
  ASSUME BusTypeOK
  PROVE  IsFiniteSet(Leaves) /\ Cardinality(Leaves) \in Nat
<1>1. IsFiniteSet(Nodes)
  BY BusAssumption, FS_Interval
<1>2. Leaves \subseteq Nodes
  BY DEF BusTypeOK, Leaves, Reached
<1> QED BY <1>1, <1>2, FS_Subset, FS_CardinalityType

\* The last stop reached is a stop of the tree.
LEMMA LastReached ==
  ASSUME BusTypeOK, OrderListsTree
  PROVE  /\ Last \in inTree
         /\ Last = School <=> order = <<>>
         /\ order = <<>> <=> inTree = {School}
<1>1. order = <<>> <=> DOMAIN order = {}
  BY DEF BusTypeOK
<1>2. order # <<>> => Len(order) \in DOMAIN order
  BY DEF BusTypeOK
<1>3. Reached = {} <=> DOMAIN order = {}
  BY DEF OrderListsTree
<1>4. Reached = {} <=> inTree = {School}
  BY DEF Reached, BusTypeOK
<1>5. order # <<>> => order[Len(order)] \in Reached
  BY <1>2 DEF OrderListsTree
<1> QED BY <1>1, <1>3, <1>4, <1>5 DEF Last, Reached, BusTypeOK

\* In the first pass parents come before their children, so that the last stop
\* reached has none.
LEMMA LastIsLeaf ==
  ASSUME BusInv, pass = 1, Last # School
  PROVE  Last \in Leaves
<1>1. order \in Seq(Stops) /\ order # <<>>
  BY DEF BusInv, BusTypeOK, Last
<1>2. Len(order) \in DOMAIN order /\ Last = order[Len(order)]
  BY <1>1 DEF Last
<1>3. Last \in Reached
  BY <1>2 DEF BusInv, OrderListsTree
<1>4. ASSUME NEW v \in Reached, Parent(v) = Last PROVE FALSE
  <2>1. PICK l \in DOMAIN order : order[l] = v
    BY DEF BusInv, OrderListsTree
  <2>2. PICK k \in DOMAIN order : k < l /\ order[k] = Parent(order[l])
    BY <1>4, <2>1 DEF BusInv, OrderListsTree
  <2>3. k = Len(order)
    BY <1>2, <1>4, <2>1, <2>2 DEF BusInv, OrderListsTree
  <2> QED BY <1>1, <2>1, <2>2, <2>3
<1> QED BY <1>3, <1>4 DEF Leaves, Children

\* In the first pass nobody has moved.
LEMMA NobodyMoved ==
  ASSUME BusInv, pass = 1, NEW v \in inTree
  PROVE  way[v] = minDist[v]
<1>1. CASE v = School
  BY <1>1 DEF BusInv, WaysMeasured
<1>2. CASE v # School
  BY <1>2 DEF BusInv, OrderListsTree, Reached, NotMovedYet
<1> QED BY <1>1, <1>2

-----------------------------------------------------------------------------
\* A step that leaves the tree alone and goes on.
LEMMA OnwardStep ==
  ASSUME BusInv, UNCHANGED <<input, treeVars>>, pass' \in 1 .. 3, pass <= pass',
         pass' # 1 => inTree = Nodes, turn' \in Nat, turn <= turn', cand' \in Nodes
  PROVE  BusInv'
<1>1. BusTypeOK'
  <2>1. BusTypeOK /\ turn \in Nat \ {0}
    BY DEF BusInv, BusTypeOK
  <2>2. turn' \in Nat \ {0}
    BY <2>1
  <2> QED BY <2>1, <2>2 DEF BusTypeOK, treeVars
<1> USE DEF BusInv, treeVars
<1>2. /\ Reached' = Reached /\ Leaves' = Leaves /\ Last' = Last
      /\ \A v : Parent(v)' = Parent(v) /\ Children(v)' = Children(v)
  BY DEF Reached, Leaves, Last, Parent, Children
<1>3. /\ \A u, v : Dist(u, v)' = Dist(u, v) /\ Danger(u, v)' = Danger(u, v)
      /\ \A n, v : TooFar(n, v)' = TooFar(n, v)
  BY DEF Dist, Danger, TooFar
<1>4. pass' = 1 => pass = 1
  BY DEF BusTypeOK
<1>5. pass' < 3 => pass < 3
  BY DEF BusTypeOK
<1>o. /\ pass \in 1 .. 3 /\ turn \in Int /\ \A k \in DOMAIN order : k \in Int
  BY DEF BusTypeOK
<1>6. TreeToSchool' /\ LinesCounted'
  BY <1>2, <1>4 DEF TreeToSchool, LinesCounted
<1>7. WithinAlpha' /\ WaysMeasured'
  BY <1>2, <1>3 DEF WithinAlpha, WaysMeasured
<1>8. OrderListsTree' /\ BranchedCounts'
  BY <1>2, <1>4 DEF OrderListsTree, BranchedCounts
<1>9. NotMovedYet'
  <2> SUFFICES ASSUME NEW k \in DOMAIN order, pass' = 1 \/ (pass' = 2 /\ k > turn')
               PROVE  way[order[k]] = minDist[order[k]]
    BY DEF NotMovedYet
  <2>1. pass = 1 \/ (pass = 2 /\ k > turn)
    BY <1>o
  <2> QED BY <2>1 DEF NotMovedYet
<1>10. QueuedArcs'
  BY <1>3 DEF QueuedArcs, Arc, BranchOf
<1>11. ArcsWait' /\ OldEndsExhausted'
  BY <1>2, <1>3, <1>4 DEF ArcsWait, OldEndsExhausted
<1>12. LaterTooFar'
  <2> SUFFICES ASSUME pass' < 3, NEW k \in DOMAIN order, NEW l \in DOMAIN order,
                      turn' <= k, k < l,
                      \A m \in DOMAIN order : m > k => Parent(order[m]) # order[k]
               PROVE  TooFar(minDist[order[k]] + Dist(order[k], order[l]), order[l])
    BY <1>2, <1>3 DEF LaterTooFar
  <2>1. turn <= k
    BY <1>o
  <2> QED BY <1>5, <2>1 DEF LaterTooFar
<1>13. MovedTooFar'
  <2> SUFFICES ASSUME pass' < 3, NEW k \in DOMAIN order, NEW l \in DOMAIN order,
                      turn' <= l, k < l, way[order[k]] # minDist[order[k]]
               PROVE  TooFar(minDist[order[k]] + Dist(order[k], order[l]), order[l])
    BY <1>3 DEF MovedTooFar
  <2>1. turn <= l
    BY <1>o
  <2> QED BY <1>5, <2>1 DEF MovedTooFar
<1> QED
  BY <1>1, <1>6, <1>7, <1>8, <1>9, <1>10, <1>11, <1>12, <1>13
-----------------------------------------------------------------------------
\* The first pass: the queue.

\* A step of the first pass that changes nothing but the queue.
LEMMA QueueStep ==
  ASSUME BusInv, pass = 1,
         UNCHANGED <<input, pass, inTree, order, arcTo, branched, branches, minDist, way, turn, cand>>,
         QueuedArcs', ArcsWait'
  PROVE  BusInv'
<1> USE DEF BusInv
<1>1. BusTypeOK'
  BY DEF BusTypeOK
<1>2. /\ Reached' = Reached /\ Leaves' = Leaves /\ Last' = Last
      /\ \A v : Parent(v)' = Parent(v) /\ Children(v)' = Children(v)
  BY DEF Reached, Leaves, Last, Parent, Children
<1>3. /\ \A u, v : Dist(u, v)' = Dist(u, v)
      /\ \A n, v : TooFar(n, v)' = TooFar(n, v)
  BY DEF Dist, TooFar
<1>4. TreeToSchool' /\ LinesCounted' /\ OrderListsTree' /\ BranchedCounts'
  BY <1>2 DEF TreeToSchool, LinesCounted, OrderListsTree, BranchedCounts
<1>5. WithinAlpha' /\ WaysMeasured' /\ NotMovedYet'
  BY <1>2, <1>3 DEF WithinAlpha, WaysMeasured, NotMovedYet
<1>6. OldEndsExhausted' /\ LaterTooFar' /\ MovedTooFar'
  BY <1>2, <1>3 DEF OldEndsExhausted, LaterTooFar, MovedTooFar
<1> QED BY <1>1, <1>4, <1>5, <1>6

\* The queue is refilled only when the tree is the school alone.
LEMMA RefillStep ==
  ASSUME BusInv, Refill
  PROVE  BusInv'
<1> USE DEF BusInv
<1>1. inTree = {School}
  <2>1. PICK w \in Nodes : w \notin inTree
    BY DEF Refill, Growing, BusTypeOK
  <2> QED BY <2>1 DEF ArcsWait, Refill, Growing
<1>2. Last = School
  BY <1>1, LastReached
<1>3. /\ \A u, v : Dist(u, v)' = Dist(u, v) /\ Danger(u, v)' = Danger(u, v)
      /\ \A n, v : TooFar(n, v)' = TooFar(n, v)
      /\ Last' = Last
  BY DEF Refill, Dist, Danger, TooFar, Last
<1>4. /\ inTree' = inTree /\ minDist' = minDist
      /\ queue' = {Arc(School, v, minDist[School] + Dist(School, v), 0) : v \in Nodes \ inTree}
  BY <1>1 DEF Refill
<1>5. QueuedArcs'
  BY <1>1, <1>3, <1>4 DEF QueuedArcs, Arc
<1>6. ArcsWait'
  <2> SUFFICES ASSUME NEW w \in Nodes \ inTree
               PROVE  \E x \in queue' : x.a = School /\ x.b = w
    BY <1>2, <1>3, <1>4 DEF ArcsWait
  <2>1. Arc(School, w, minDist[School] + Dist(School, w), 0) \in queue'
    BY <1>4
  <2> QED BY <2>1 DEF Arc
<1>7. /\ pass = 1
      /\ UNCHANGED <<input, pass, inTree, order, arcTo, branched, branches, minDist, way, turn, cand>>
  BY DEF Refill, Growing
<1> QED BY <1>5, <1>6, <1>7, QueueStep

\* What is discarded is none of the arcs that wait.
LEMMA DiscardStep ==
  ASSUME BusInv, NEW arc \in queue, Discard(arc)
  PROVE  BusInv'
<1> USE DEF BusInv
<1>1. pass = 1
  BY DEF Discard, Growing
<1>2. arc.b \in inTree \/ arc.a \notin {School, Last}
  <2> SUFFICES ASSUME arc.b \notin inTree PROVE arc.a \notin {School, Last}
    OBVIOUS
  <2>1. branched[arc.a] > 0 /\ arc.branch = 1
    BY DEF Discard, Accepts
  <2>2. arc.a # School
    BY <2>1 DEF QueuedArcs
  <2>3. ASSUME arc.a = Last PROVE FALSE
    <3>1. Children(Last) = {}
      BY <1>1, <2>2, <2>3, LastIsLeaf DEF Leaves
    <3>2. arc.a \in Nodes
      BY DEF QueuedArcs, BusTypeOK
    <3> QED BY <2>1, <2>3, <3>1, <3>2, BranchedIsParent
  <2> QED BY <2>2, <2>3
<1>3. /\ \A u, v : Dist(u, v)' = Dist(u, v) /\ Danger(u, v)' = Danger(u, v)
      /\ \A n, v : TooFar(n, v)' = TooFar(n, v)
      /\ Last' = Last
  BY DEF Discard, Dist, Danger, TooFar, Last
<1>4. inTree' = inTree /\ minDist' = minDist /\ queue' = queue \ {arc} /\ pass' = pass
  BY DEF Discard
<1>5. QueuedArcs'
  BY <1>3, <1>4 DEF QueuedArcs, Arc, BranchOf
<1>6. ArcsWait'
  <2> SUFFICES ASSUME NEW u \in {School, Last}, NEW w \in Nodes \ inTree
               PROVE  \E x \in queue' : x.a = u /\ x.b = w
    BY <1>3, <1>4 DEF ArcsWait
  <2>1. PICK x \in queue : x.a = u /\ x.b = w
    BY <1>1 DEF ArcsWait
  <2> QED BY <1>2, <1>4, <2>1
<1> QED BY <1>1, <1>5, <1>6, QueueStep DEF Discard

-----------------------------------------------------------------------------
\* The first pass: the tree.

\* The least arc goes on with the line of the last stop, or starts one at the
\* school when nothing left is near enough to that line.
LEMMA LeastArc ==
  ASSUME BusInv, pass = 1, NEW arc \in Least(queue), Accepts(arc)
  PROVE  /\ ~ TooFar(arc.dist, arc.b)
         /\ \A u \in Leaves \ {arc.a}, w \in Nodes \ inTree : TooFar(minDist[u] + Dist(u, w), w)
         /\ (arc.branch = 0 /\ arc.a = School) \/ (arc.branch = 1 /\ arc.a \in Leaves)
<1> USE DEF BusInv
<1>1. /\ arc \in queue /\ \A x \in queue : ~ LessThan(x, arc)
      /\ arc.a \in inTree /\ arc.a \in Nodes /\ arc.b \in Stops /\ arc.b \notin inTree
      /\ arc.branch = IF arc.a = School THEN 0 ELSE BranchOf(arc.dist, arc.b)
      /\ arc.dist = minDist[arc.a] + Dist(arc.a, arc.b)
  <2>1. arc \in queue /\ \A x \in queue : ~ LessThan(x, arc)
    BY DEF Least
  <2>2. /\ arc.a \in inTree /\ arc.b \in Stops
        /\ arc.branch = IF arc.a = School THEN 0 ELSE BranchOf(arc.dist, arc.b)
        /\ arc = Arc(arc.a, arc.b, minDist[arc.a] + Dist(arc.a, arc.b), arc.branch)
    BY <2>1 DEF QueuedArcs
  <2>3. arc.dist = minDist[arc.a] + Dist(arc.a, arc.b)
    BY <2>2 DEF Arc
  <2> QED BY <2>1, <2>2, <2>3 DEF Accepts, BusTypeOK
<1>2. \A u \in Leaves \ {Last}, w \in Nodes \ inTree : TooFar(minDist[u] + Dist(u, w), w)
  BY DEF OldEndsExhausted
<1>3. CASE arc.branch = 1
  <2>1. arc.a # School /\ ~ TooFar(arc.dist, arc.b)
    BY <1>1, <1>3 DEF BranchOf
  <2>2. Children(arc.a) = {}
    <3>1. branched[arc.a] = 0
      BY <1>1, <1>3 DEF Accepts, BusTypeOK
    <3> QED BY <1>1, <3>1, BranchedIsParent
  <2>3. arc.a \in Leaves
    BY <1>1, <2>1, <2>2 DEF Leaves, Reached
  <2>4. arc.a = Last
    BY <1>1, <1>2, <2>1, <2>3
  <2> QED BY <1>2, <1>3, <2>1, <2>3, <2>4
<1>4. CASE arc.branch = 0
  <2>1. arc.a = School
    <3> SUFFICES ASSUME arc.a # School PROVE FALSE
      OBVIOUS
    <3>1. TooFar(arc.dist, arc.b)
      BY <1>1, <1>4 DEF BranchOf
    <3>2. PICK x \in queue : x.a = School /\ x.b = arc.b
      BY <1>1 DEF ArcsWait
    <3>3. x.branch = 0 /\ x.dist = minDist[School] + Dist(School, arc.b)
      BY <3>2 DEF QueuedArcs, Arc
    <3>4. x.dist = Dist(School, arc.b)
      <4>1. Dist(School, arc.b) \in Nat
        BY <1>1, BusAssumption, DataTypes
      <4> QED BY <3>3, <4>1 DEF WaysMeasured
    <3>5. arc.dist \in Nat
      <4>1. Dist(arc.a, arc.b) \in Nat
        BY <1>1, DataTypes
      <4>2. minDist[arc.a] \in Nat
        BY <1>1 DEF BusTypeOK
      <4> QED BY <1>1, <4>1, <4>2
    <3>6. x.dist < arc.dist
      BY <1>1, <3>1, <3>4, <3>5, SchoolIsNear
    <3> QED BY <1>1, <1>4, <3>3, <3>6 DEF LessThan
  <2>2. ~ TooFar(arc.dist, arc.b)
    <3>1. Dist(School, arc.b) \in Nat
      BY <1>1, BusAssumption, DataTypes
    <3>2. arc.dist = Dist(School, arc.b)
      BY <1>1, <2>1, <3>1 DEF WaysMeasured
    <3> QED BY <1>1, <3>1, <3>2, SchoolIsNear
  <2>3. ASSUME Last \in Leaves, NEW w \in Nodes \ inTree
        PROVE  TooFar(minDist[Last] + Dist(Last, w), w)
    <3>1. PICK x \in queue : x.a = Last /\ x.b = w
      BY <1>1 DEF ArcsWait
    <3>2. /\ x.branch = BranchOf(x.dist, w) /\ x.dist = minDist[Last] + Dist(Last, w)
      BY <2>3, <3>1 DEF QueuedArcs, Arc, Leaves, Reached
    <3>3. x.branch # 1
      BY <1>1, <1>4, <3>1 DEF LessThan
    <3> QED BY <3>2, <3>3 DEF BranchOf
  <2>4. ASSUME NEW u \in Leaves, NEW w \in Nodes \ inTree
        PROVE  TooFar(minDist[u] + Dist(u, w), w)
    <3>1. CASE u = Last
      BY <2>3, <3>1
    <3>2. CASE u # Last
      BY <1>2, <3>2
    <3> QED BY <3>1, <3>2
  <2> QED BY <1>4, <2>1, <2>2, <2>4
<1> QED BY <1>1, <1>3, <1>4 DEF BranchOf
\* What the new stop changes in the tree.
LEMMA VisitTree ==
  ASSUME BusInv, NEW arc \in queue, Visit(arc)
  PROVE  /\ arc.a \in inTree /\ arc.b \in Stops /\ arc.b \notin inTree
         /\ Reached' = Reached \cup {arc.b}
         /\ \A v \in Reached : Parent(v)' = Parent(v) /\ Parent(v) \in inTree
         /\ Parent(arc.b)' = arc.a
         /\ Children(arc.a)' = Children(arc.a) \cup {arc.b}
         /\ arc.b \notin Children(arc.a)
         /\ \A u \in Nodes \ {arc.a} : Children(u)' = Children(u)
         /\ Children(arc.b) = {}
         /\ Leaves' = (Leaves \ {arc.a}) \cup {arc.b}
         /\ arc.b \notin Leaves
<1> USE DEF BusInv
<1>1. arc.a \in inTree /\ arc.b \in Stops /\ arc.b \notin inTree /\ arc.a \in Nodes
  BY DEF QueuedArcs, Visit, Accepts, BusTypeOK
<1>2. Reached' = Reached \cup {arc.b} /\ arc.b \notin Reached
  BY <1>1 DEF Visit, Reached
<1>3. \A v \in Nodes : arcTo'[v] = IF v = arc.b THEN arc ELSE arcTo[v]
  BY DEF Visit, BusTypeOK
<1>4. Reached \subseteq Nodes /\ arc.b \in Nodes
  BY <1>1 DEF Reached, BusTypeOK
<1>5. /\ \A v \in Reached : Parent(v)' = Parent(v) /\ Parent(v) \in inTree
      /\ Parent(arc.b)' = arc.a
  BY <1>2, <1>3, <1>4 DEF Parent, TreeToSchool
<1>6. /\ Children(arc.a)' = Children(arc.a) \cup {arc.b}
      /\ \A u : u # arc.a => Children(u)' = Children(u)
  BY <1>2, <1>5 DEF Children
<1>7. Children(arc.b) = {} /\ arc.b \notin Children(arc.a)
  BY <1>1, <1>2, <1>5 DEF Children
<1>8. Leaves' = (Leaves \ {arc.a}) \cup {arc.b} /\ arc.b \notin Leaves
  BY <1>1, <1>2, <1>6, <1>7 DEF Leaves
<1> QED BY <1>1, <1>2, <1>5, <1>6, <1>7, <1>8

LEMMA VisitStep ==
  ASSUME BusInv, NEW arc \in queue, Visit(arc)
  PROVE  BusInv'
<1> DEFINE L == Len(order)
<1> USE DEF BusInv
<1>1. /\ pass = 1 /\ pass' = 1 /\ turn' = turn /\ cand' = cand
      /\ inTree' = inTree \cup {arc.b}
      /\ arc \in Least(queue) /\ Accepts(arc)
  BY DEF Visit, Growing
<1>2. /\ arc.a \in inTree /\ arc.b \in Stops /\ arc.b \notin inTree
      /\ arc.a \in Nodes /\ arc.b \in Nodes /\ arc.a # arc.b
  BY VisitTree DEF BusTypeOK
<1>3. /\ arc.branch \in {0, 1} /\ arc.danger \in Nat /\ arc.dist \in Nat
      /\ arc.dist = minDist[arc.a] + Dist(arc.a, arc.b)
      /\ arc = Arc(arc.a, arc.b, arc.dist, arc.branch)
  <2>1. /\ arc.branch = IF arc.a = School THEN 0 ELSE BranchOf(arc.dist, arc.b)
        /\ arc = Arc(arc.a, arc.b, minDist[arc.a] + Dist(arc.a, arc.b), arc.branch)
    BY DEF QueuedArcs
  <2>2. arc.dist = minDist[arc.a] + Dist(arc.a, arc.b) /\ arc.danger = Danger(arc.b, arc.a)
    BY <2>1 DEF Arc
  <2>3. Dist(arc.a, arc.b) \in Nat /\ Danger(arc.b, arc.a) \in Nat
    BY <1>2, DataTypes
  <2>4. minDist[arc.a] \in Nat
    BY <1>2 DEF BusTypeOK
  <2> QED BY <2>1, <2>2, <2>3, <2>4 DEF BranchOf
<1>4. arc \in [a : Nodes, b : Nodes, branch : {0, 1}, dist : Nat, danger : Nat]
  BY <1>2, <1>3 DEF Arc
<1>5. /\ \A u, v : Dist(u, v)' = Dist(u, v) /\ Danger(u, v)' = Danger(u, v)
      /\ \A n, v : TooFar(n, v)' = TooFar(n, v)
  BY DEF Visit, Dist, Danger, TooFar
<1>6. /\ \A v \in Nodes : v # arc.b => minDist'[v] = minDist[v] /\ way'[v] = way[v]
      /\ minDist'[arc.b] = arc.dist
      /\ way'[arc.b] = way[arc.a] + Dist(arc.a, arc.b)
  BY <1>2 DEF Visit, BusTypeOK
<1>7. way'[arc.b] = arc.dist
  BY <1>1, <1>2, <1>3, <1>6, NobodyMoved
<1>8. /\ L \in Nat /\ DOMAIN order = 1 .. L /\ DOMAIN order' = 1 .. L + 1
      /\ \A k \in 1 .. L : order'[k] = order[k]
      /\ order'[L + 1] = arc.b /\ order' \in Seq(Stops)
      /\ order' # <<>> /\ Len(order') = L + 1
  <2>1. order \in Seq(Stops) /\ order' = Append(order, arc.b)
    BY DEF Visit, BusTypeOK
  <2> HIDE DEF BusInv
  <2> QED BY <1>2, <2>1
<1>9. Last' = arc.b
  BY <1>8 DEF Last
<1>10. \A k \in 1 .. L : order[k] \in Reached /\ order[k] \in inTree /\ order[k] # arc.b
                         /\ order[k] \in Nodes
  BY <1>2, <1>8 DEF OrderListsTree, Reached, BusTypeOK
<1>p. (\A v \in Reached : arcTo'[v].a = Parent(v)) /\ arcTo'[arc.b].a = arc.a
  BY VisitTree DEF Parent
<1>11. BusTypeOK'
  <2>1. minDist' \in [Nodes -> Nat] /\ arcTo' \in [Nodes -> [a : Nodes, b : Nodes, branch : {0, 1}, dist : Nat, danger : Nat]]
    BY <1>2, <1>3, <1>4 DEF Visit, BusTypeOK
  <2>2. way' \in [Nodes -> Nat]
    <3>1. way[arc.a] + Dist(arc.a, arc.b) \in Nat
      BY <1>3, <1>7, <1>6
    <3> QED BY <3>1 DEF Visit, BusTypeOK
  <2>3. branched' \in [Nodes -> Nat] /\ branches' \in Nat
    <3>1. branched \in [Nodes -> Nat] /\ branched' = [branched EXCEPT ![arc.a] = @ + 1]
      BY DEF Visit, BusTypeOK
    <3>2. branches \in Nat /\ branches' \in {branches, branches + 1}
      BY DEF Visit, BusTypeOK
    <3> QED BY <1>2, <3>1, <3>2
  <2>4. input' = input
    BY DEF Visit
  <2> QED BY <1>1, <1>2, <1>8, <2>1, <2>2, <2>3, <2>4 DEF BusTypeOK
<1>12. TreeToSchool'
  <2>1. \A v \in Reached' : Parent(v)' \in inTree'
    BY <1>1, <1>2, VisitTree
  <2>2. ASSUME NEW S \in SUBSET (Reached'), S # {}
        PROVE  \E v \in S : Parent(v)' \notin S
    <3>1. CASE S = {arc.b}
      BY <1>2, <3>1, VisitTree
    <3>2. CASE S # {arc.b}
      <4>1. S \ {arc.b} \in SUBSET Reached /\ S \ {arc.b} # {}
        BY <2>2, <3>2, VisitTree
      <4>2. PICK v \in S \ {arc.b} : Parent(v) \notin S \ {arc.b}
        BY <4>1 DEF TreeToSchool
      <4>3. v \in Reached /\ Parent(v) # arc.b
        BY <1>2, <4>1, VisitTree
      <4> QED BY <4>2, <4>3, VisitTree
    <3> QED BY <3>1, <3>2
  <2> QED BY <2>1, <2>2 DEF TreeToSchool
<1>13. /\ ~ TooFar(arc.dist, arc.b)
       /\ \A u \in Leaves \ {arc.a}, w \in Nodes \ inTree : TooFar(minDist[u] + Dist(u, w), w)
       /\ (arc.branch = 0 /\ arc.a = School) \/ (arc.branch = 1 /\ arc.a \in Leaves)
  BY <1>1, LeastArc
<1>14. LinesCounted'
  <2>1. ASSUME NEW v \in Reached', NEW w \in Reached', Parent(v)' = Parent(w)'
        PROVE  v = w \/ Parent(v)' = School
    <3>1. CASE v \in Reached /\ w \in Reached
      BY <2>1, <3>1, VisitTree DEF LinesCounted
    <3>2. CASE v = arc.b /\ w # arc.b
      BY <1>13, <2>1, <3>2, VisitTree DEF Leaves, Children
    <3>3. CASE w = arc.b /\ v # arc.b
      BY <1>13, <2>1, <3>3, VisitTree DEF Leaves, Children
    <3> QED BY <3>1, <3>2, <3>3, VisitTree
  <2>2. Cardinality(Leaves)' = branches'
    <3>1. IsFiniteSet(Leaves) /\ Cardinality(Leaves) \in Nat /\ Cardinality(Leaves) = branches
      BY <1>1, LeavesFinite DEF LinesCounted
    <3>2. CASE arc.branch = 0 /\ arc.a = School
      <4>1. Leaves' = Leaves \cup {arc.b} /\ arc.b \notin Leaves
        BY <3>2, VisitTree DEF Leaves, Reached
      <4>2. Cardinality(Leaves \cup {arc.b}) = Cardinality(Leaves) + 1
        BY <3>1, <4>1, FS_AddElement
      <4> QED BY <3>1, <3>2, <4>1, <4>2 DEF Visit
    <3>3. CASE arc.branch = 1 /\ arc.a \in Leaves
      <4> DEFINE M == Leaves \ {arc.a}
      <4>1. IsFiniteSet(M) /\ Cardinality(M) = Cardinality(Leaves) - 1
        BY <3>1, <3>3, FS_RemoveElement
      <4>2. Leaves' = M \cup {arc.b} /\ arc.b \notin M
        BY VisitTree
      <4>3. Cardinality(M \cup {arc.b}) = Cardinality(M) + 1
        BY <4>1, <4>2, FS_AddElement
      <4> QED BY <3>1, <3>3, <4>1, <4>2, <4>3 DEF Visit
    <3> QED BY <1>13, <3>2, <3>3
  <2>3. branches' \in Nat
    BY <1>11 DEF BusTypeOK
  <2> QED BY <2>1, <2>2, <2>3 DEF LinesCounted
<1>15. WithinAlpha'
  <2> SUFFICES ASSUME NEW v \in Reached' PROVE ~ TooFar(way'[v], v)
    BY <1>5 DEF WithinAlpha
  <2>1. CASE v = arc.b
    BY <1>7, <1>13, <2>1
  <2>2. CASE v # arc.b
    <3>1. v \in Reached /\ v \in Nodes
      BY <2>2, VisitTree DEF Reached, BusTypeOK
    <3> QED BY <1>6, <2>2, <3>1 DEF WithinAlpha
  <2> QED BY <2>1, <2>2
<1>16. WaysMeasured'
  <2>1. way'[School] = 0 /\ minDist'[School] = 0
    BY <1>2, <1>6, BusAssumption DEF WaysMeasured, BusTypeOK
  <2>2. ASSUME NEW v \in Reached'
        PROVE  way'[v] = way'[Parent(v)'] + Dist(Parent(v)', v)
    <3>1. CASE v = arc.b
      BY <1>2, <1>6, <3>1, VisitTree
    <3>2. CASE v # arc.b
      <4>1. /\ v \in Reached /\ v \in Nodes /\ Parent(v)' = Parent(v)
            /\ Parent(v) \in Nodes /\ Parent(v) # arc.b
        <5>1. v \in Reached /\ Parent(v)' = Parent(v) /\ Parent(v) \in inTree
          BY <3>2, VisitTree
        <5> QED BY <1>2, <5>1 DEF Reached, BusTypeOK
      <4> QED BY <1>6, <3>2, <4>1 DEF WaysMeasured
    <3> QED BY <3>1, <3>2
  <2> QED BY <1>5, <2>1, <2>2 DEF WaysMeasured
<1>17. BranchedCounts'
  <2>1. ASSUME NEW v \in Nodes PROVE branched'[v] = Cardinality(Children(v)')
    <3>1. CASE v = arc.a
      <4>1. Cardinality(Children(arc.a) \cup {arc.b}) = Cardinality(Children(arc.a)) + 1
        BY ChildrenFinite, VisitTree, FS_AddElement
      <4>2. branched'[v] = branched[arc.a] + 1
        BY <1>2, <3>1 DEF Visit, BusTypeOK
      <4> QED BY <1>2, <3>1, <4>1, <4>2, VisitTree DEF BranchedCounts
    <3>2. CASE v # arc.a
      BY <3>2, VisitTree DEF BranchedCounts, Visit, BusTypeOK
    <3> QED BY <3>1, <3>2
  <2> QED BY <2>1 DEF BranchedCounts
<1>18. OrderListsTree'
  <2>1. ASSUME NEW v \in Reached' PROVE \E k \in DOMAIN order' : order'[k] = v
    <3>1. CASE v = arc.b
      BY <1>8, <3>1
    <3>2. CASE v # arc.b
      <4>1. PICK k \in DOMAIN order : order[k] = v
        BY <2>1, <3>2, VisitTree DEF OrderListsTree
      <4> QED BY <1>8, <4>1
    <3> QED BY <3>1, <3>2
  <2>2. \A k \in DOMAIN order' : order'[k] \in Reached'
    BY <1>8, <1>10, VisitTree
  <2>3. \A k, l \in DOMAIN order' : order'[k] = order'[l] => k = l
    BY <1>8, <1>10 DEF OrderListsTree
  <2>4. ASSUME NEW l \in DOMAIN order'
        PROVE  \/ arcTo'[order'[l]].a = School
               \/ \E k \in DOMAIN order' : k < l /\ order'[k] = arcTo'[order'[l]].a
    <3>1. CASE l = L + 1
      <4>1. arcTo'[order'[l]].a = arc.a
        BY <1>8, <1>p, <3>1
      <4>2. CASE arc.a # School
        <5>1. PICK k \in DOMAIN order : order[k] = arc.a
          BY <1>2, <4>2 DEF OrderListsTree, Reached
        <5> QED BY <1>8, <3>1, <4>1, <5>1
      <4> QED BY <4>1, <4>2
    <3>2. CASE l # L + 1
      <4>1. l \in 1 .. L /\ order'[l] = order[l] /\ arcTo'[order'[l]].a = Parent(order[l])
        BY <1>8, <1>10, <1>p, <3>2
      <4>2. CASE Parent(order[l]) # School
        <5>1. PICK k \in DOMAIN order : k < l /\ order[k] = Parent(order[l])
          BY <1>1, <1>8, <4>1, <4>2 DEF OrderListsTree
        <5> QED BY <1>8, <4>1, <5>1
      <4> QED BY <4>1, <4>2
    <3> QED BY <3>1, <3>2
  <2> QED BY <1>1, <2>1, <2>2, <2>3, <2>4 DEF OrderListsTree, Parent
<1>19. NotMovedYet' /\ MovedTooFar'
  <2>1. ASSUME NEW k \in DOMAIN order' PROVE way'[order'[k]] = minDist'[order'[k]]
    BY <1>1, <1>6, <1>7, <1>8, <1>10, NobodyMoved
  <2> QED BY <2>1 DEF NotMovedYet, MovedTooFar
<1>20. QueuedArcs'
  <2> SUFFICES ASSUME NEW x \in queue'
               PROVE  /\ x.a \in inTree' /\ x.b \in Stops
                      /\ x.branch = IF x.a = School THEN 0 ELSE BranchOf(x.dist, x.b)
                      /\ x = Arc(x.a, x.b, minDist'[x.a] + Dist(x.a, x.b), x.branch)
    BY <1>5 DEF QueuedArcs, Arc, BranchOf
  <2>1. CASE x \in queue
    <3>1. /\ x.a \in inTree /\ x.b \in Stops
          /\ x.branch = IF x.a = School THEN 0 ELSE BranchOf(x.dist, x.b)
          /\ x = Arc(x.a, x.b, minDist[x.a] + Dist(x.a, x.b), x.branch)
      BY <2>1 DEF QueuedArcs
    <3>2. minDist'[x.a] = minDist[x.a]
      BY <1>2, <1>6, <3>1 DEF BusTypeOK
    <3> QED BY <1>1, <3>1, <3>2
  <2>2. CASE x \in NewArcs(arc.b, arc.dist)
    <3>1. PICK w \in Nodes \ (inTree \cup {arc.b}) :
            x = Arc(arc.b, w, arc.dist + Dist(arc.b, w), BranchOf(arc.dist + Dist(arc.b, w), w))
      BY <2>2 DEF NewArcs
    <3>2. /\ x.a = arc.b /\ x.b = w /\ x.dist = arc.dist + Dist(arc.b, w)
          /\ x.branch = BranchOf(arc.dist + Dist(arc.b, w), w)
      BY <3>1 DEF Arc
    <3>3. w \in Stops
      BY <3>1 DEF BusTypeOK
    <3> QED BY <1>1, <1>2, <1>6, <3>1, <3>2, <3>3
  <2> QED BY <2>1, <2>2 DEF Visit
<1>21. ArcsWait'
  <2> SUFFICES ASSUME NEW u \in {School, arc.b}, NEW w \in Nodes \ inTree'
               PROVE  \E x \in queue' : x.a = u /\ x.b = w
    BY <1>9 DEF ArcsWait
  <2>1. w \in Nodes \ (inTree \cup {arc.b})
    BY <1>1
  <2>2. CASE u = School
    <3>1. PICK x \in queue : x.a = School /\ x.b = w
      BY <1>1, <2>1 DEF ArcsWait
    <3>2. x \in queue'
      BY <2>1, <3>1 DEF Visit
    <3> QED BY <2>2, <3>1, <3>2
  <2>3. CASE u = arc.b
    <3> DEFINE x == Arc(arc.b, w, arc.dist + Dist(arc.b, w), BranchOf(arc.dist + Dist(arc.b, w), w))
    <3>1. x \in queue'
      BY <2>1 DEF Visit, NewArcs
    <3>2. x.a = u /\ x.b = w
      BY <2>3 DEF Arc
    <3> HIDE DEF x
    <3> QED BY <3>1, <3>2
  <2> QED BY <2>2, <2>3
<1>22. OldEndsExhausted'
  <2> SUFFICES ASSUME NEW u \in Leaves' \ {arc.b}, NEW w \in Nodes \ inTree'
               PROVE  TooFar(minDist'[u] + Dist(u, w), w)
    BY <1>5, <1>9 DEF OldEndsExhausted
  <2>1. u \in Leaves \ {arc.a} /\ u \in Nodes /\ u # arc.b /\ w \in Nodes \ inTree
    BY <1>1, VisitTree DEF Leaves, Reached, BusTypeOK
  <2> QED BY <1>6, <1>13, <2>1
<1>23. LaterTooFar'
  <2> SUFFICES ASSUME NEW k \in DOMAIN order', NEW l \in DOMAIN order', turn <= k, k < l,
                      \A m \in DOMAIN order' : m > k => arcTo'[order'[m]].a # order'[k]
               PROVE  TooFar(minDist'[order'[k]] + Dist(order'[k], order'[l]), order'[l])
    BY <1>1, <1>5 DEF LaterTooFar, Parent
  <2>1. /\ k \in 1 .. L /\ order'[k] = order[k] /\ minDist'[order[k]] = minDist[order[k]]
        /\ order[k] \in Reached
    BY <1>6, <1>8, <1>10
  <2>2. \A m \in DOMAIN order : m > k => Parent(order[m]) # order[k]
    BY <1>8, <1>10, <1>p, <2>1
  <2>3. CASE l # L + 1
    <3>1. l \in DOMAIN order /\ order'[l] = order[l]
      BY <1>8, <2>3
    <3> QED BY <1>1, <1>8, <2>1, <2>2, <3>1 DEF LaterTooFar
  <2>4. CASE l = L + 1
    <3>1. order[k] # arc.a
      BY <1>8, <1>p, <2>1, <2>4
    <3>2. Children(order[k]) = {}
      <4> SUFFICES ASSUME NEW v \in Reached, Parent(v) = order[k] PROVE FALSE
        BY DEF Children
      <4>1. PICK j \in DOMAIN order : order[j] = v
        BY DEF OrderListsTree
      <4>2. PICK i \in DOMAIN order : i < j /\ order[i] = Parent(order[j])
        BY <1>1, <2>1, <4>1 DEF OrderListsTree, Reached
      <4>3. i = k
        BY <1>8, <2>1, <4>1, <4>2 DEF OrderListsTree
      <4> QED BY <2>2, <4>1, <4>2, <4>3
    <3>3. order[k] \in Leaves \ {arc.a}
      BY <2>1, <3>1, <3>2 DEF Leaves
    <3> QED BY <1>2, <1>8, <1>13, <2>1, <2>4, <3>3
  <2> QED BY <2>3, <2>4
<1> QED BY <1>11, <1>12, <1>14, <1>15, <1>16, <1>17, <1>18, <1>19, <1>20, <1>21, <1>22, <1>23
-----------------------------------------------------------------------------
\* The second pass.

LEMMA ArcMovedType ==
  ASSUME NEW r \in [a : Nodes, b : Nodes, branch : {0, 1}, dist : Nat, danger : Nat],
         NEW c \in Nodes, NEW n \in Nat, NEW m \in Nat
  PROVE  [r EXCEPT !.a = c, !.dist = n, !.danger = m]
           \in [a : Nodes, b : Nodes, branch : {0, 1}, dist : Nat, danger : Nat]
OBVIOUS

LEMMA AdvanceType ==
  ASSUME BusTypeOK, Advance
  PROVE  /\ cand' \in Nodes /\ turn \in Nat \ {0}
         /\ turn' \in {turn, turn + 1} /\ turn' \in Nat \ {0} /\ turn <= turn'
<1>1. N \in Nat \ {0} /\ cand \in Nodes /\ turn \in Nat \ {0}
  BY BusAssumption DEF BusTypeOK
<1> QED BY <1>1 DEF Advance

\* The arc whose turn it is leads to a stop of the tree.
LEMMA TurnType ==
  ASSUME BusTypeOK
  PROVE  /\ \A k \in DOMAIN order : k \in Nat /\ order[k] \in Stops
         /\ Selecting => turn \in DOMAIN order
<1>1. order \in Seq(Stops) /\ turn \in Nat \ {0}
  BY DEF BusTypeOK
<1> QED BY <1>1 DEF Selecting

\* What hanging the stop s under c, and no longer under p, changes in the tree.
LEMMA SwitchTree ==
  ASSUME BusInv, NEW s \in Stops, Switch(s), NEW c, c = cand, NEW p, p = Parent(s)
  PROVE  /\ pass = 2 /\ inTree = Nodes /\ Reached = Stops /\ Reached' = Reached
         /\ c \in Leaves /\ s \in Leaves /\ p \in Nodes
         /\ s # c /\ p # c /\ p # s
         /\ Parent(s)' = c /\ \A v \in Reached \ {s} : Parent(v)' = Parent(v)
         /\ s \in Children(p) /\ s \notin Children(c)
         /\ Children(c)' = Children(c) \cup {s}
         /\ Children(p)' = Children(p) \ {s}
         /\ \A u \in Nodes \ {c, p} : Children(u)' = Children(u)
<1> USE DEF BusInv
<1>1. /\ pass = 2 /\ inTree = Nodes /\ Reached = Stops /\ Reached' = Reached
  BY DEF Switch, Selecting, OrderListsTree, Reached
<1>2. /\ c \in Nodes /\ s \in Nodes /\ s # c
      /\ branched[c] = 0 /\ branched[s] = 0
  BY DEF Switch, Better, BusTypeOK
<1>3. Children(c) = {} /\ Children(s) = {}
  BY <1>2, BranchedIsParent
<1>4. c # School
  <2>1. Reached # {}
    BY <1>1
  <2>2. PICK v \in Reached : Parent(v) \notin Reached
    BY <2>1 DEF TreeToSchool
  <2>3. Parent(v) = School
    BY <2>2 DEF TreeToSchool, Reached
  <2> QED BY <1>3, <2>2, <2>3 DEF Children
<1>5. c \in Leaves /\ s \in Leaves
  BY <1>1, <1>2, <1>3, <1>4 DEF Leaves
<1>6. p \in Nodes /\ p # c /\ p # s /\ s \in Children(p)
  BY <1>1, <1>3 DEF Children, TreeToSchool
<1>7. Parent(s)' = c /\ \A v \in Reached \ {s} : Parent(v)' = Parent(v)
  <2>1. arcTo \in [Nodes -> [a : Nodes, b : Nodes, branch : {0, 1}, dist : Nat, danger : Nat]]
    BY DEF BusTypeOK
  <2>2. arcTo' = [arcTo EXCEPT ![s] = [@ EXCEPT !.a = c,
                                             !.dist = minDist[c] + Dist(c, s),
                                             !.danger = Danger(s, c)]]
    BY DEF Switch
  <2> QED BY <1>1, <1>2, <2>1, <2>2 DEF Parent
<1>8. /\ Children(c)' = Children(c) \cup {s}
      /\ Children(p)' = Children(p) \ {s}
      /\ \A u \in Nodes \ {c, p} : Children(u)' = Children(u)
  <2>1. \A u : Children(u)' = {v \in Reached : IF v = s THEN c = u ELSE Parent(v) = u}
    BY <1>1, <1>7 DEF Children
  <2>2. \A u : Children(u) = {v \in Reached : IF v = s THEN p = u ELSE Parent(v) = u}
    BY DEF Children
  <2> QED BY <1>1, <1>6, <2>1, <2>2
<1> QED BY <1>1, <1>2, <1>3, <1>5, <1>6, <1>7, <1>8

LEMMA SwitchStep ==
  ASSUME BusInv, NEW s \in Stops, Switch(s)
  PROVE  BusInv'
<1> USE DEF BusInv
<1>1. PICK c, p : c = cand /\ p = Parent(s)
  OBVIOUS
<1>2. /\ pass = 2 /\ pass' = 2 /\ inTree = Nodes /\ Reached = Stops /\ Reached' = Reached
      /\ UNCHANGED <<input, inTree, queue, order, branches, minDist>>
      /\ turn' \in {turn, turn + 1} /\ cand' \in Nodes /\ turn \in Nat \ {0}
      /\ turn \in DOMAIN order /\ order[turn] = s
      /\ \A k \in DOMAIN order : k \in Nat /\ order[k] \in Stops
  <2>1. cand' \in Nodes
    BY AdvanceType DEF Switch
  <2>2. turn \in DOMAIN order /\ \A k \in DOMAIN order : k \in Nat /\ order[k] \in Stops
    BY TurnType DEF Switch
  <2>3. turn' \in {turn, turn + 1} /\ turn \in Nat \ {0}
    BY AdvanceType DEF Switch
  <2> QED BY <1>1, <2>1, <2>2, <2>3, SwitchTree DEF Switch
<1>3. /\ c \in Leaves /\ s \in Leaves /\ p \in Nodes /\ c \in Nodes /\ c \in Stops
      /\ s # c /\ p # c /\ p # s
      /\ Parent(s)' = c /\ \A v \in Reached \ {s} : Parent(v)' = Parent(v)
      /\ s \in Children(p) /\ s \notin Children(c)
      /\ Children(c)' = Children(c) \cup {s}
      /\ Children(p)' = Children(p) \ {s}
      /\ \A u \in Nodes \ {c, p} : Children(u)' = Children(u)
  BY <1>1, SwitchTree DEF Leaves
<1>4. /\ arcTo'[s].a = c /\ \A v \in Reached \ {s} : arcTo'[v].a = Parent(v)
      /\ \A v \in Reached : Parent(v) # s /\ Parent(v) # c
  BY <1>3 DEF Parent, Leaves, Children
<1>5. /\ \A u, v : Dist(u, v)' = Dist(u, v) /\ Danger(u, v)' = Danger(u, v)
      /\ \A n, v : TooFar(n, v)' = TooFar(n, v)
  BY <1>2 DEF Dist, Danger, TooFar
<1>6. way[c] = minDist[c]
  <2>1. PICK k \in DOMAIN order : order[k] = c
    BY <1>2, <1>3 DEF OrderListsTree
  <2>2. k # turn
    BY <1>2, <1>3, <2>1
  <2>3. CASE k > turn
    BY <1>2, <2>1, <2>3 DEF NotMovedYet
  <2>4. CASE k < turn
    <3>1. ~ TooFar(minDist[c] + Dist(c, s), s)
      BY <1>1 DEF Switch, Better
    <3> QED BY <1>2, <2>1, <2>4, <3>1 DEF MovedTooFar
  <2> QED BY <1>2, <2>2, <2>3, <2>4
<1>7. /\ way'[s] = minDist[c] + Dist(c, s) /\ ~ TooFar(way'[s], s)
      /\ \A v \in Nodes \ {s} : way'[v] = way[v]
  BY <1>1, <1>6 DEF Switch, Better, BusTypeOK
<1>8. BranchedCounts' /\ branched' \in [Nodes -> Nat]
  <2>1. /\ branched \in [Nodes -> Nat]
        /\ branched' = [branched EXCEPT ![c] = @ + 1, ![p] = @ - 1]
    BY <1>1 DEF Switch, BusTypeOK, Parent
  <2>2. /\ branched'[c] = branched[c] + 1 /\ branched'[p] = branched[p] - 1
        /\ \A u \in Nodes \ {c, p} : branched'[u] = branched[u]
    BY <1>3, <2>1
  <2>3. Cardinality(Children(c) \cup {s}) = Cardinality(Children(c)) + 1
    BY <1>3, ChildrenFinite, FS_AddElement
  <2>4. Cardinality(Children(p) \ {s}) = Cardinality(Children(p)) - 1
    BY <1>3, ChildrenFinite, FS_RemoveElement
  <2>5. \A u \in Nodes : branched'[u] = Cardinality(Children(u)')
    BY <1>3, <2>2, <2>3, <2>4 DEF BranchedCounts
  <2>6. BranchedCounts'
    BY <2>5 DEF BranchedCounts
  <2>7. Cardinality(Children(p) \ {s}) \in Nat
    BY <1>3, ChildrenFinite, FS_RemoveElement, FS_CardinalityType
  <2>8. branched'[p] \in Nat
    BY <1>3, <2>5, <2>7
  <2>9. \A u \in Nodes : branched'[u] \in Nat
    <3> SUFFICES ASSUME NEW u \in Nodes PROVE branched'[u] \in Nat
      OBVIOUS
    <3>1. branched[u] \in Nat /\ branched[c] \in Nat
      BY <1>3, <2>1
    <3> QED BY <2>2, <2>8, <3>1
  <2>10. branched' = [u \in Nodes |-> branched'[u]]
    BY <2>1
  <2> QED BY <2>6, <2>9, <2>10
<1>9. BusTypeOK'
  <2>1. Dist(c, s) \in Nat /\ Danger(s, c) \in Nat /\ minDist[c] \in Nat
    BY <1>3, DataTypes DEF BusTypeOK
  <2>2. arcTo' \in [Nodes -> [a : Nodes, b : Nodes, branch : {0, 1}, dist : Nat, danger : Nat]]
    <3>1. /\ arcTo \in [Nodes -> [a : Nodes, b : Nodes, branch : {0, 1}, dist : Nat, danger : Nat]]
          /\ arcTo' = [arcTo EXCEPT ![s] = [@ EXCEPT !.a = c,
                                             !.dist = minDist[c] + Dist(c, s),
                                             !.danger = Danger(s, c)]]
      BY <1>1 DEF BusTypeOK, Switch
    <3>2. [arcTo[s] EXCEPT !.a = c, !.dist = minDist[c] + Dist(c, s), !.danger = Danger(s, c)]
            \in [a : Nodes, b : Nodes, branch : {0, 1}, dist : Nat, danger : Nat]
      <4>1. arcTo[s] \in [a : Nodes, b : Nodes, branch : {0, 1}, dist : Nat, danger : Nat]
        BY <3>1
      <4>2. c \in Nodes /\ minDist[c] + Dist(c, s) \in Nat /\ Danger(s, c) \in Nat
        BY <1>3, <2>1
      <4> QED BY <4>1, <4>2, ArcMovedType
    <3> QED BY <3>1, <3>2
  <2>3. way' \in [Nodes -> Nat]
    <3>1. way \in [Nodes -> Nat] /\ way' = [way EXCEPT ![s] = way[c] + Dist(c, s)]
      BY <1>1 DEF BusTypeOK, Switch
    <3>2. way[c] + Dist(c, s) \in Nat
      BY <1>6, <2>1
    <3> QED BY <3>1, <3>2
  <2>4. turn' \in Nat \ {0}
    BY <1>2
  <2> QED BY <1>2, <1>8, <2>2, <2>3, <2>4 DEF BusTypeOK
<1>10. TreeToSchool'
  <2>1. \A v \in Reached' : Parent(v)' \in inTree'
    BY <1>2, <1>3, <1>4 DEF TreeToSchool
  <2>2. ASSUME NEW S \in SUBSET (Reached'), S # {}
        PROVE  \E v \in S : Parent(v)' \notin S
    <3>1. CASE S = {s}
      BY <1>3, <3>1
    <3>2. CASE S # {s}
      <4>1. S \ {s} \in SUBSET Reached /\ S \ {s} # {}
        BY <1>2, <2>2, <3>2
      <4>2. PICK v \in S \ {s} : Parent(v) \notin S \ {s}
        BY <4>1 DEF TreeToSchool
      <4> QED BY <1>3, <1>4, <4>1, <4>2
    <3> QED BY <3>1, <3>2
  <2> QED BY <2>1, <2>2 DEF TreeToSchool
<1>11. LinesCounted'
  <2>1. \A v, w \in Reached' : Parent(v)' = Parent(w)' => v = w \/ Parent(v)' = School
    BY <1>2, <1>3, <1>4 DEF LinesCounted
  <2>2. Leaves' \subseteq (Leaves \ {c}) \cup {p}
    BY <1>2, <1>3, <1>4 DEF Leaves, BusTypeOK
  <2>3. /\ IsFiniteSet(Leaves \ {c}) /\ Cardinality(Leaves \ {c}) = Cardinality(Leaves) - 1
        /\ Cardinality(Leaves) \in Nat
    BY <1>3, LeavesFinite, FS_RemoveElement
  <2>4. /\ IsFiniteSet((Leaves \ {c}) \cup {p})
        /\ Cardinality((Leaves \ {c}) \cup {p}) <= Cardinality(Leaves)
    <3> DEFINE M == Leaves \ {c}
    <3>1. IsFiniteSet(M) /\ Cardinality(M) \in Nat
      BY <2>3, FS_CardinalityType
    <3>2. /\ IsFiniteSet(M \cup {p})
          /\ Cardinality(M \cup {p}) = Cardinality(M) \/ Cardinality(M \cup {p}) = Cardinality(M) + 1
      <4> HIDE DEF M
      <4> QED BY <3>1, FS_AddElement
    <3> QED BY <2>3, <3>1, <3>2
  <2>5. Cardinality(Leaves') <= Cardinality((Leaves \ {c}) \cup {p})
    BY <2>2, <2>4, FS_Subset
  <2>6. Cardinality(Leaves') \in Nat /\ Cardinality((Leaves \ {c}) \cup {p}) \in Nat
    BY <2>2, <2>4, FS_Subset, FS_CardinalityType
  <2>7. Cardinality(Leaves) <= branches /\ branches \in Nat
    BY DEF LinesCounted, BusTypeOK
  <2>8. Cardinality(Leaves') <= branches'
    BY <1>2, <2>3, <2>4, <2>5, <2>6, <2>7
  <2> QED BY <1>2, <2>1, <2>8 DEF LinesCounted
<1>12. WithinAlpha'
  BY <1>2, <1>5, <1>7 DEF WithinAlpha
<1>13. OrderListsTree'
  BY <1>2 DEF OrderListsTree
<1>14. WaysMeasured'
  <2>1. s # School /\ School \in Nodes
    BY BusAssumption
  <2>2. ASSUME NEW v \in Reached'
        PROVE  way'[v] = way'[arcTo'[v].a] + Dist(arcTo'[v].a, v)
    <3>1. CASE v = s
      BY <1>3, <1>4, <1>6, <1>7, <3>1
    <3>2. CASE v # s
      <4>1. /\ v \in Nodes \ {s} /\ v \in Reached /\ Parent(v) \in Nodes \ {s}
            /\ arcTo'[v].a = Parent(v)
        BY <1>2, <1>4, <3>2 DEF TreeToSchool
      <4> QED BY <1>7, <4>1 DEF WaysMeasured
    <3> QED BY <3>1, <3>2
  <2>3. way'[School] = 0 /\ minDist'[School] = 0
    BY <1>2, <1>7, <2>1 DEF WaysMeasured
  <2> QED BY <1>5, <2>2, <2>3 DEF WaysMeasured, Parent
<1>15. NotMovedYet'
  <2> SUFFICES ASSUME NEW k \in DOMAIN order, k > turn' PROVE way'[order[k]] = minDist[order[k]]
    BY <1>2 DEF NotMovedYet
  <2>1. k > turn /\ k # turn
    BY <1>2
  <2>2. order[k] \in Nodes \ {s}
    BY <1>2, <2>1 DEF OrderListsTree
  <2> QED BY <1>2, <1>7, <2>1, <2>2 DEF NotMovedYet
<1>16. QueuedArcs'
  BY <1>2, <1>5 DEF QueuedArcs, Arc, BranchOf
<1>17. ArcsWait' /\ OldEndsExhausted'
  BY <1>2 DEF ArcsWait, OldEndsExhausted
<1>18. LaterTooFar'
  <2> SUFFICES ASSUME NEW k \in DOMAIN order, NEW l \in DOMAIN order, turn' <= k, k < l,
                      \A m \in DOMAIN order : m > k => arcTo'[order[m]].a # order[k]
               PROVE  TooFar(minDist[order[k]] + Dist(order[k], order[l]), order[l])
    BY <1>2, <1>5 DEF LaterTooFar, Parent
  <2>1. turn <= k
    BY <1>2
  <2>2. ASSUME NEW m \in DOMAIN order, m > k PROVE Parent(order[m]) # order[k]
    <3>1. m # turn
      BY <1>2, <2>1, <2>2
    <3>2. order[m] # s /\ order[m] \in Reached
      BY <1>2, <3>1 DEF OrderListsTree
    <3> QED BY <1>4, <2>2, <3>2
  <2> QED BY <1>2, <2>1, <2>2 DEF LaterTooFar
<1>19. MovedTooFar'
  <2> SUFFICES ASSUME NEW k \in DOMAIN order, NEW l \in DOMAIN order, k < l, turn' <= l,
                      way'[order[k]] # minDist[order[k]]
               PROVE  TooFar(minDist[order[k]] + Dist(order[k], order[l]), order[l])
    BY <1>2, <1>5 DEF MovedTooFar
  <2>1. CASE k = turn
    <3>1. \A m \in DOMAIN order : Parent(order[m]) # order[k]
      BY <1>2, <1>4, <2>1
    <3> QED BY <1>2, <2>1, <3>1 DEF LaterTooFar
  <2>2. CASE k # turn
    <3>1. order[k] \in Nodes \ {s}
      BY <1>2, <2>2 DEF OrderListsTree
    <3>2. turn <= l /\ way[order[k]] # minDist[order[k]]
      BY <1>2, <1>7, <3>1
    <3> QED BY <1>2, <3>2 DEF MovedTooFar
  <2> QED BY <2>1, <2>2
<1> QED
  BY <1>8, <1>9, <1>10, <1>11, <1>12, <1>13, <1>14, <1>15, <1>16, <1>17, <1>18, <1>19

-----------------------------------------------------------------------------
LEMMA BusInitInv == BusInit => BusInv
<1> SUFFICES ASSUME BusInit PROVE BusInv
  OBVIOUS
<1>1. /\ Reached = {} /\ Leaves = {} /\ order = <<>> /\ School \in Nodes
      /\ \A u : Children(u) = {}
  BY BusAssumption DEF BusInit, Reached, Leaves, Children
<1>2. BusTypeOK
  <2>1. PICK p \in Inputs :
          input = [dist |-> DistM(p.coord), danger |-> p.danger, num |-> p.num, den |-> p.den]
    BY DEF BusInit
  <2>2. /\ input.dist \in [Nodes \X Nodes -> Nat] /\ input.danger \in [Nodes \X Nodes -> Nat]
        /\ input.num \in Nat /\ input.den \in Nat \ {0} /\ input.den <= input.num
    BY <2>1, BusAssumption
  <2>3. NoArc \in [a : Nodes, b : Nodes, branch : {0, 1}, dist : Nat, danger : Nat]
    BY <1>1 DEF NoArc
  <2>4. order \in Seq(Stops)
    BY <1>1
  <2> QED BY <1>1, <2>2, <2>3, <2>4 DEF BusInit, BusTypeOK
<1>3. LinesCounted /\ BranchedCounts
  <2>1. Cardinality({}) = 0
    BY FS_EmptySet
  <2>2. \A u \in Nodes : branched[u] = Cardinality(Children(u))
    BY <1>1, <2>1 DEF BusInit
  <2>3. Cardinality(Leaves) = 0 /\ branches = 0
    BY <1>1, <2>1 DEF BusInit
  <2> QED BY <1>1, <2>2, <2>3 DEF LinesCounted, BranchedCounts
<1>4. TreeToSchool /\ WithinAlpha /\ OrderListsTree /\ WaysMeasured /\ NotMovedYet
  BY <1>1 DEF BusInit, TreeToSchool, WithinAlpha, OrderListsTree, WaysMeasured, NotMovedYet
<1>5. QueuedArcs /\ ArcsWait /\ OldEndsExhausted /\ LaterTooFar /\ MovedTooFar
  BY <1>1 DEF BusInit, QueuedArcs, ArcsWait, OldEndsExhausted, LaterTooFar, MovedTooFar
<1> QED BY <1>2, <1>3, <1>4, <1>5 DEF BusInv

LEMMA BusNextInv == BusInv /\ [BusNext]_busVars => BusInv'
<1> SUFFICES ASSUME BusInv, [BusNext]_busVars PROVE BusInv'
  OBVIOUS
<1>1. CASE Refill
  BY <1>1, RefillStep
<1>2. ASSUME NEW arc \in queue, Visit(arc) PROVE BusInv'
  BY <1>2, VisitStep
<1>3. ASSUME NEW arc \in queue, Discard(arc) PROVE BusInv'
  BY <1>3, DiscardStep
<1>o. /\ pass \in 1 .. 3 /\ turn \in Nat /\ cand \in Nodes
      /\ pass # 1 => inTree = Nodes
  BY DEF BusInv, BusTypeOK, OrderListsTree
<1>4. CASE EndFirstPass
  <2>1. /\ UNCHANGED <<input, treeVars>> /\ pass' = 2 /\ inTree = Nodes
        /\ pass = 1 /\ turn' = turn /\ cand' = cand
    BY <1>4 DEF EndFirstPass
  <2> QED BY <1>o, <2>1, OnwardStep
<1>6. CASE Keep
  <2>1. cand' \in Nodes /\ turn' \in Nat /\ turn <= turn'
    BY <1>6, AdvanceType DEF Keep, BusInv
  <2>2. UNCHANGED <<input, treeVars>> /\ pass' = pass
    BY <1>6 DEF Keep
  <2> QED BY <1>o, <2>1, <2>2, OnwardStep
<1>7. CASE PassBy
  <2>1. /\ UNCHANGED <<input, treeVars>> /\ pass' = pass /\ turn' = turn + 1 /\ cand' = cand
    BY <1>7 DEF PassBy
  <2> QED BY <1>o, <2>1, OnwardStep
<1>8. CASE WriteSolution
  <2>1. /\ UNCHANGED <<input, treeVars>> /\ pass' = 3 /\ pass = 2 /\ turn' = turn /\ cand' = cand
    BY <1>8 DEF WriteSolution
  <2> QED BY <1>o, <2>1, OnwardStep
<1>9. CASE UNCHANGED busVars
  <2>1. /\ UNCHANGED <<input, treeVars>> /\ pass' = pass /\ turn' = turn /\ cand' = cand
    BY <1>9 DEF busVars
  <2> QED BY <1>o, <2>1, OnwardStep
<1>5. ASSUME NEW s \in Stops, Switch(s) PROVE BusInv'
  BY <1>5, SwitchStep
<1> QED BY <1>1, <1>2, <1>3, <1>4, <1>5, <1>6, <1>7, <1>8, <1>9
        DEF BusNext, FirstPass, SecondPass

\* The inductive invariant holds in both passes of walking_bus2.c.
THEOREM BusInvariance == BusSpec => []BusInv
<1> QED BY BusInitInv, BusNextInv, PTL DEF BusSpec

\* Every stop's way, walked along its line, is within alpha, also after the
\* second pass has moved leaves and left their minDist alone.
THEOREM BusWithinAlpha == BusSpec => []WithinAlpha
<1>1. BusInv => WithinAlpha
  BY DEF BusInv
<1> QED BY <1>1, BusInvariance, PTL

\* The number of lines reported after the first pass is never exceeded, and no
\* two lines share a stop.
THEOREM BusLinesCounted == BusSpec => []LinesCounted
<1>1. BusInv => LinesCounted
  BY DEF BusInv
<1> QED BY <1>1, BusInvariance, PTL

\* Every stop reached has a way that ends at the school.
THEOREM BusTreeToSchool == BusSpec => []TreeToSchool
<1>1. BusInv => TreeToSchool
  BY DEF BusInv
<1> QED BY <1>1, BusInvariance, PTL

\* The queue is filled from the tree only once, when the tree is the school.
THEOREM BusQueueLasts == BusSpec => []QueueLasts
<1>1. BusInv => QueueLasts
  <2> SUFFICES ASSUME BusInv, pass = 1, inTree # Nodes, inTree # {School} PROVE queue # {}
    BY DEF QueueLasts
  <2>1. PICK w \in Nodes : w \notin inTree
    BY DEF BusInv, BusTypeOK
  <2> QED BY <2>1 DEF BusInv, ArcsWait
<1> QED BY <1>1, BusInvariance, PTL
=============================================================================
