-------------------------- MODULE WalkingBusDraft ---------------------------
(***************************************************************************)
(* The first attempt at the walking-bus challenge (walking_bus.c): the     *)
(* program of module PrimsAlg, which now follows one line as long as the   *)
(* next stop is near enough, and lets updateDistances pass over stops that *)
(* would be too far away.                                                  *)
(***************************************************************************)
EXTENDS PrimsAlg

CONSTANT Maps   \* inputs: coordinates and alpha

\* No two points are the same: the program takes a distance of 0 for no edge,
\* and never sets whoTo of a stop at the school.
ASSUME DraftAssumption ==
  \A p \in Maps :
    /\ DistM(p.coord) \in [Nodes \X Nodes -> Nat]
    /\ \A u, v \in Nodes :
         /\ DistM(p.coord)[u, v] = DistM(p.coord)[v, u]
         /\ u # v => DistM(p.coord)[u, v] \in 1 .. Infinity - 1
    /\ p.num \in Nat /\ p.den \in Nat \ {0} /\ p.den <= p.num

VARIABLES
  alpha,
  partial,   \* partial[v]: distance from the school to v
  last       \* the last node added

draftVars == <<weight, inMst, d, whoTo, printed, alpha, partial, last>>

TooLong(length, v) == Exceeds(length, Weight(School, v), alpha.num, alpha.den)

\* (a mutant of NearEnough: no constraint)
NearAtAll(target, dist, part) == Nearer(target, dist)

\* updateDistances with the constraint
NearEnough(target, dist, part) ==
  {v \in Nearer(target, dist) : ~ TooLong(part[target] + Weight(target, v), v)}

Update(target, dist, part) ==
  /\ d' = [v \in Nodes |->
             IF v \in NearEnough(target, dist, part) THEN Weight(target, v) ELSE dist[v]]
  /\ whoTo' = [v \in Nodes |->
                 IF v \in NearEnough(target, dist, part) THEN target ELSE whoTo[v]]

DraftInit ==
  /\ \E p \in Maps :
       /\ weight = DistM(p.coord)
       /\ alpha = [num |-> p.num, den |-> p.den]
  /\ inMst = {School} /\ printed = {}
  /\ partial = [v \in Nodes |-> 0]
  /\ last = School
  /\ d = [v \in Nodes |-> IF v = School THEN Infinity ELSE Weight(School, v)]
  /\ whoTo = [v \in Nodes |-> School]

Add(v, length) ==
  /\ partial' = [partial EXCEPT ![v] = length]
  /\ printed' = printed \cup {<<whoTo[v], v>>}
  /\ inMst' = inMst \cup {v}
  /\ last' = v
  /\ Update(v, d, partial')
  /\ UNCHANGED <<weight, alpha>>

\* The stop nearest to the last one.
Following == {v \in Nodes \ inMst : IsNearest(v, Nodes \ inMst, [u \in Nodes |-> Weight(last, u)])}

GoOn(v) ==
  /\ v \in Following
  /\ ~ TooLong(partial[last] + Weight(last, v), v)
  /\ Add(v, partial[last] + Weight(last, v))

\* It is too far away: a new line, from wherever a stop is nearest to the tree.
Open(v) ==
  /\ \E u \in Following : TooLong(partial[last] + Weight(last, u), u)
  /\ v \in Nodes \ inMst
  /\ IsNearest(v, Nodes \ inMst, d)
  /\ Add(v, partial[whoTo[v]] + d[v])

DraftNext == \E v \in Nodes : GoOn(v) \/ Open(v)

DraftSpec == DraftInit /\ [][DraftNext]_draftVars
-----------------------------------------------------------------------------
DraftTypeOK ==
  /\ \A u, v \in Nodes : Weight(u, v) \in Nat /\ (u # v => Weight(u, v) # 0)
  /\ alpha.num \in Nat /\ alpha.den \in Nat \ {0} /\ alpha.den <= alpha.num
  /\ inMst \subseteq Nodes /\ School \in inMst /\ last \in inMst
  /\ printed \subseteq Nodes \X Nodes
  /\ d \in [Nodes -> Nat] /\ partial \in [Nodes -> Nat] /\ whoTo \in [Nodes -> Nodes]

\* What the program believes of the ways is within alpha, whichever of the two
\* kinds of step has added a stop, and a link it has noted for a stop still
\* outside remains good however the tree grows.
DraftWithinAlpha ==
  /\ \A v \in inMst : ~ TooLong(partial[v], v)
  /\ \A v \in Nodes \ inMst :
       /\ whoTo[v] \in inMst /\ d[v] = Weight(whoTo[v], v)
       /\ ~ TooLong(partial[whoTo[v]] + d[v], v)
       /\ \A u \in inMst :
            d[v] <= Weight(u, v) \/ TooLong(partial[u] + Weight(u, v), v)

\* The inductive invariant.
DraftInv == DraftTypeOK /\ DraftWithinAlpha
=============================================================================
