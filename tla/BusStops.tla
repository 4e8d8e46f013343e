------------------------------ MODULE BusStops ------------------------------
(***************************************************************************)
(* What the programs of For_Challenge have in common: node 0 (the school), *)
(* N - 1 stops, and a matrix of the distances between them.                *)
(***************************************************************************)
EXTENDS Integers

CONSTANT N   \* nodes

Nodes == 0 .. N - 1
School == 0
Stops == Nodes \ {School}

Gap(p, q) == IF p > q THEN p - q ELSE q - p

\* The distances, from the coordinates.  They are whole numbers for the points
\* used here: sqrt is exact, and no rounding is modelled.
DistM(coord) ==
  [u, v \in Nodes |->
     LET distx == Gap(coord[u].x, coord[v].x)
         disty == Gap(coord[u].y, coord[v].y)
     IN  CHOOSE r \in 0 .. distx + disty : r * r = distx * distx + disty * disty]

\* length is more than num / den times the straight way
Exceeds(length, straight, num, den) == length * den > straight * num
=============================================================================
