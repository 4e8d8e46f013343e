--------------------------- MODULE Pedibus_proofs ---------------------------
(***************************************************************************)
(* Proofs about quickSort and the draft, and the invariants of the four    *)
(* programs in the module that runs any one of them.                       *)
(***************************************************************************)
EXTENDS Pedibus, WalkingBus_proofs, PrimsAlg_proofs, SequenceTheorems

-----------------------------------------------------------------------------
\* quickSort.

\* The order of the arcs: what is not less is passed on.
LEMMA LessThanOrder ==
  ASSUME NEW x \in Arcs, NEW y \in Arcs, NEW z \in Arcs
  PROVE  /\ ~ LessThan(x, x)
         /\ LessThan(x, y) => ~ LessThan(y, x)
         /\ ~ LessThan(x, y) /\ ~ LessThan(y, z) => ~ LessThan(x, z)
<1>1. \A t \in Arcs : t.branch \in {0, 1} /\ t.dist \in Nat /\ t.danger \in Nat
  BY DEF Arcs
<1> QED BY <1>1 DEF LessThan

LEMMA SwapPlaces ==
  ASSUME NEW q \in Seq(Arcs), NEW k \in DOMAIN q, NEW m \in DOMAIN q
  PROVE  /\ Swap(q, k, m) \in Seq(Arcs)
         /\ Len(Swap(q, k, m)) = Len(q) /\ DOMAIN Swap(q, k, m) = DOMAIN q
         /\ Swap(q, k, m)[m] = q[k] /\ Swap(q, k, m)[k] = q[m]
         /\ \A i \in DOMAIN q : i # k /\ i # m => Swap(q, k, m)[i] = q[i]
<1> DEFINE s == Swap(q, k, m)
<1>1. q \in [1 .. Len(q) -> Arcs] /\ Len(q) \in Nat /\ DOMAIN q = 1 .. Len(q)
  BY LenProperties
<1>2. s \in [1 .. Len(q) -> Arcs] /\ DOMAIN s = DOMAIN q
  BY <1>1 DEF Swap
<1>3. s \in Seq(Arcs)
  BY <1>1, <1>2, SeqDef
<1>4. Len(s) = Len(q)
  BY <1>1, <1>2, <1>3, LenProperties
<1>5. s[m] = q[k] /\ s[k] = q[m] /\ \A i \in DOMAIN q : i # k /\ i # m => s[i] = q[i]
  BY <1>1 DEF Swap
<1> QED BY <1>2, <1>3, <1>4, <1>5

LEMMA SwapRearranges ==
  ASSUME NEW q \in Seq(Arcs), NEW k \in DOMAIN q, NEW m \in DOMAIN q, NEW g,
         Rearranged(q, g)
  PROVE  Rearranged(Swap(q, k, m), g)
<1>1. PICK at \in [DOMAIN g -> DOMAIN g] :
        /\ \A i, j \in DOMAIN g : at[i] = at[j] => i = j
        /\ \A i \in DOMAIN g : q[i] = g[at[i]]
  BY DEF Rearranged
<1>2. DOMAIN q = DOMAIN g
  BY DEF Rearranged
<1> DEFINE new == [at EXCEPT ![k] = at[m], ![m] = at[k]]
<1>3. new \in [DOMAIN g -> DOMAIN g]
  BY <1>2
<1>4. \A i \in DOMAIN g : new[i] = IF i = m THEN at[k] ELSE IF i = k THEN at[m] ELSE at[i]
  BY <1>2
<1>5. \A i, j \in DOMAIN g : new[i] = new[j] => i = j
  BY <1>1, <1>2, <1>4
<1> HIDE DEF new
<1>6. \A i \in DOMAIN g : Swap(q, k, m)[i] = g[new[i]]
  <2> TAKE i \in DOMAIN g
  <2>1. /\ Swap(q, k, m)[m] = q[k] /\ Swap(q, k, m)[k] = q[m]
        /\ \A h \in DOMAIN q : h # k /\ h # m => Swap(q, k, m)[h] = q[h]
    BY SwapPlaces
  <2>2. q[i] = g[at[i]] /\ q[k] = g[at[k]] /\ q[m] = g[at[m]]
    BY <1>1, <1>2
  <2> QED BY <1>2, <1>4, <2>1, <2>2
<1>7. DOMAIN Swap(q, k, m) = DOMAIN g
  BY <1>2, SwapPlaces
<1> QED BY <1>3, <1>5, <1>6, <1>7 DEF Rearranged

LEMMA SortTypes ==
  ASSUME SortInv
  PROVE  /\ Len(array) \in Nat /\ DOMAIN array = 1 .. Len(array)
         /\ \A k \in DOMAIN array : array[k] \in Arcs
         /\ \A c \in calls : c = <<c[1], c[2]>> /\ c[1] \in 1 .. Len(array) /\ c[2] \in 1 .. Len(array)
         /\ part = <<part[1], part[2]>> /\ part[1] \in Nat /\ part[2] \in Nat
         /\ Parting => part[1] \in DOMAIN array /\ part[2] \in DOMAIN array /\ Pivot \in Arcs
<1>1. array \in [1 .. Len(array) -> Arcs] /\ Len(array) \in Nat /\ DOMAIN array = 1 .. Len(array)
  BY LenProperties DEF SortInv, SortTypeOK
<1>2. \A c \in calls : c = <<c[1], c[2]>> /\ c[1] \in 1 .. Len(array) /\ c[2] \in 1 .. Len(array)
  BY DEF SortInv, SortTypeOK
<1>3. part = <<part[1], part[2]>> /\ part[1] \in Nat /\ part[2] \in Nat
  BY DEF SortInv, SortTypeOK
<1>4. Parting => part[1] \in DOMAIN array /\ part[2] \in DOMAIN array
  BY <1>1, <1>3 DEF SortInv, CallsApart
<1> QED BY <1>1, <1>2, <1>3, <1>4 DEF Pivot

LEMMA SortInitInv == SortInit => SortInv
<1> SUFFICES ASSUME SortInit PROVE SortInv
  OBVIOUS
<1>1. given \in Seq(Arcs) /\ array = given
  BY SortAssumption DEF SortInit
<1>2. Len(array) \in Nat /\ DOMAIN array = 1 .. Len(array)
  BY <1>1, LenProperties
<1>3. /\ calls \subseteq {<<1, Len(array)>>} /\ \A c \in calls : c[1] < c[2]
      /\ 1 < Len(array) => <<1, Len(array)>> \in calls
  BY <1>1 DEF SortInit
<1>4. SortTypeOK
  BY <1>1, <1>2, <1>3 DEF SortInit, SortTypeOK
<1>5. Rearranged(array, given)
  <2> DEFINE same == [k \in DOMAIN given |-> k]
  <2>1. same \in [DOMAIN given -> DOMAIN given]
    OBVIOUS
  <2>2. \A k \in DOMAIN given : same[k] = k
    OBVIOUS
  <2> HIDE DEF same
  <2> QED BY <1>1, <2>1, <2>2 DEF Rearranged
<1>6. CallsApart
  BY <1>2, <1>3 DEF SortInit, CallsApart, Parting
<1>7. OthersInOrder
  <2> SUFFICES ASSUME NEW k \in DOMAIN array, NEW l \in DOMAIN array, k < l
               PROVE  \E c \in calls : InCall(c, k) /\ InCall(c, l)
    BY DEF OthersInOrder
  <2> QED BY <1>2, <1>3 DEF InCall
<1>8. ScansSplit
  BY DEF SortInit, ScansSplit, Parting
<1> QED BY <1>4, <1>5, <1>6, <1>7, <1>8 DEF SortInv

LEMMA CallInv ==
  ASSUME SortInv, Call
  PROVE  SortInv'
<1>1. PICK c \in calls : calls' = calls \ {c} /\ part' = c /\ up' = c[1] /\ down' = c[2]
  BY DEF Call
<1>2. phase = "call" /\ phase' = "up" /\ array' = array /\ given' = given
  BY DEF Call
<1>3. c = <<c[1], c[2]>> /\ c[1] \in DOMAIN array /\ c[2] \in DOMAIN array /\ c[1] < c[2]
  BY SortTypes DEF SortInv, CallsApart
<1>4. SortTypeOK'
  BY <1>1, <1>2, <1>3, SortTypes DEF SortInv, SortTypeOK
<1>5. Rearranged(array, given)'
  BY <1>2 DEF SortInv
<1>6. CallsApart'
  BY <1>1, <1>2, <1>3, SortTypes DEF SortInv, CallsApart, Parting
<1>7. OthersInOrder'
  <2> SUFFICES ASSUME NEW k \in DOMAIN array, NEW l \in DOMAIN array, k < l,
                      LessThan(array[k], array[l])
               PROVE  (\E e \in calls' : InCall(e, k) /\ InCall(e, l)) \/ (InCall(c, k) /\ InCall(c, l))
    BY <1>1, <1>2 DEF OthersInOrder, Parting
  <2>1. PICK e \in calls : InCall(e, k) /\ InCall(e, l)
    BY <1>2 DEF SortInv, OthersInOrder, Parting
  <2> QED BY <2>1, <1>1
<1>8. ScansSplit'
  <2>1. Pivot' = array[c[1]] /\ Pivot' \in Arcs
    BY <1>1, <1>2, <1>3, SortTypes DEF Pivot
  <2> QED BY <1>1, <1>2, <1>3, <2>1, SortTypes, LessThanOrder DEF ScansSplit, Parting
<1> QED BY <1>4, <1>5, <1>6, <1>7, <1>8 DEF SortInv

LEMMA ScanUpInv ==
  ASSUME SortInv, ScanUp
  PROVE  SortInv'
<1>1. /\ phase = "up" /\ up' = up + 1 /\ phase' \in {"up", "down"}
      /\ phase' = IF up + 1 <= part[2] /\ LessThan(Pivot, array[up + 1]) THEN "up" ELSE "down"
      /\ UNCHANGED <<given, array, calls, part, down>>
  BY DEF ScanUp
<1>2. up \in Nat /\ down \in Nat /\ up <= part[2] /\ part[1] <= up
  BY <1>1 DEF SortInv, SortTypeOK, ScansSplit, Parting
<1>3. SortTypeOK'
  BY <1>1, <1>2 DEF SortInv, SortTypeOK
<1>4. Rearranged(array, given)'
  BY <1>1 DEF SortInv
<1>5. CallsApart'
  BY <1>1 DEF SortInv, CallsApart, Parting
<1>6. OthersInOrder'
  BY <1>1 DEF SortInv, OthersInOrder, Parting
<1>7. ScansSplit'
  <2>1. Pivot' = Pivot /\ Pivot \in Arcs
    BY <1>1, SortTypes DEF Pivot, Parting
  <2>2. phase' = "up" => up + 1 \in DOMAIN array /\ ~ LessThan(array[up + 1], Pivot)
    <3> HAVE phase' = "up"
    <3>1. up + 1 <= part[2] /\ LessThan(Pivot, array[up + 1])
      BY <1>1
    <3>2. up + 1 \in DOMAIN array
      BY <3>1, <1>1, <1>2, SortTypes DEF Parting
    <3> QED BY <3>1, <3>2, <2>1, SortTypes, LessThanOrder
  <2>3. \A k \in DOMAIN array :
          part[1] <= k /\ (k < up + 1 \/ (k = up + 1 /\ phase' = "up")) => ~ LessThan(array[k], Pivot)
    BY <1>1, <1>2, <2>2, SortTypes DEF SortInv, ScansSplit, Parting
  <2>4. phase' = "up" => up + 1 <= part[2]
    BY <1>1
  <2> QED BY <1>1, <1>2, <2>1, <2>3, <2>4, SortTypes DEF SortInv, ScansSplit, Parting
<1> QED BY <1>3, <1>4, <1>5, <1>6, <1>7 DEF SortInv

LEMMA ScanDownInv ==
  ASSUME SortInv, ScanDown
  PROVE  SortInv'
<1>1. /\ phase = "down" /\ down >= 1 /\ LessThan(array[down], Pivot) /\ down' = down - 1
      /\ UNCHANGED <<given, array, calls, phase, part, up>>
  BY DEF ScanDown, GoesDown
<1>2. up \in Nat /\ down \in Nat /\ part[1] <= down /\ down <= part[2]
  BY <1>1 DEF SortInv, SortTypeOK, ScansSplit, Parting
<1>3. SortTypeOK'
  BY <1>1, <1>2 DEF SortInv, SortTypeOK
<1>4. Rearranged(array, given)'
  BY <1>1 DEF SortInv
<1>5. CallsApart'
  BY <1>1 DEF SortInv, CallsApart, Parting
<1>6. OthersInOrder'
  BY <1>1 DEF SortInv, OthersInOrder, Parting
<1>7. ScansSplit'
  <2>1. Pivot' = Pivot /\ Pivot \in Arcs
    BY <1>1, SortTypes DEF Pivot, Parting
  <2>2. down \in DOMAIN array /\ ~ LessThan(Pivot, array[down])
    BY <1>1, <1>2, <2>1, SortTypes, LessThanOrder DEF Parting
  <2>3. down # part[1]
    BY <1>1, <2>1, LessThanOrder DEF Pivot
  <2>4. \A k \in DOMAIN array : down - 1 < k /\ k <= part[2] => ~ LessThan(Pivot, array[k])
    BY <1>1, <1>2, <2>2, SortTypes DEF SortInv, ScansSplit, Parting
  <2> QED BY <1>1, <1>2, <2>1, <2>3, <2>4, SortTypes DEF SortInv, ScansSplit, Parting
<1> QED BY <1>3, <1>4, <1>5, <1>6, <1>7 DEF SortInv

\* An exchange of two arcs of the part being parted, as seen from outside it.
LEMMA SwapInPart ==
  ASSUME SortInv, Parting, NEW k, NEW m, k \in Nat, m \in Nat, InCall(part, k), InCall(part, m),
         NEW i \in DOMAIN array, NEW j \in DOMAIN array, i < j,
         ~ (InCall(part, i) /\ InCall(part, j)),
         LessThan(Swap(array, k, m)[i], Swap(array, k, m)[j])
  PROVE  \E c \in calls : InCall(c, i) /\ InCall(c, j)
<1> DEFINE from(h) == IF h = m THEN k ELSE IF h = k THEN m ELSE h
<1>1. k \in DOMAIN array /\ m \in DOMAIN array
  BY SortTypes DEF InCall
<1>2. /\ Swap(array, k, m)[i] = array[from(i)] /\ Swap(array, k, m)[j] = array[from(j)]
      /\ from(i) \in DOMAIN array /\ from(j) \in DOMAIN array
  <2>1. /\ Swap(array, k, m)[m] = array[k] /\ Swap(array, k, m)[k] = array[m]
        /\ \A h \in DOMAIN array : h # k /\ h # m => Swap(array, k, m)[h] = array[h]
    BY <1>1, SwapPlaces DEF SortInv, SortTypeOK
  <2> QED BY <1>1, <2>1
<1>3. /\ from(i) < from(j) /\ ~ (InCall(part, from(i)) /\ InCall(part, from(j)))
      /\ from(i) # i => InCall(part, i) /\ InCall(part, from(i))
      /\ from(j) # j => InCall(part, j) /\ InCall(part, from(j))
  BY <1>1, SortTypes DEF InCall
<1> HIDE DEF from
<1>4. PICK c \in calls : InCall(c, from(i)) /\ InCall(c, from(j))
  BY <1>2, <1>3 DEF SortInv, OthersInOrder
<1>5. part[2] < c[1] \/ c[2] < part[1]
  BY DEF SortInv, CallsApart
<1>6. from(i) = i /\ from(j) = j
  BY <1>1, <1>2, <1>3, <1>4, <1>5, SortTypes DEF InCall
<1> QED BY <1>4, <1>6

LEMMA ExchangeInv ==
  ASSUME SortInv, Exchange
  PROVE  SortInv'
<1>1. /\ phase = "down" /\ ~ GoesDown /\ up < down /\ phase' = "up"
      /\ array' = Swap(array, up, down) /\ UNCHANGED <<given, calls, part, up, down>>
  BY DEF Exchange
<1>2. up \in Nat /\ down \in Nat /\ part[1] < up /\ down <= part[2]
  BY <1>1 DEF SortInv, SortTypeOK, ScansSplit, Parting
<1>3. up \in DOMAIN array /\ down \in DOMAIN array /\ down >= 1
  BY <1>1, <1>2, SortTypes DEF Parting
<1>4. array' \in Seq(Arcs) /\ Len(array') = Len(array) /\ DOMAIN array' = DOMAIN array
  BY <1>1, <1>3, SwapPlaces DEF SortInv, SortTypeOK
<1>5. /\ array'[down] = array[up] /\ array'[up] = array[down]
      /\ \A i \in DOMAIN array : i # up /\ i # down => array'[i] = array[i]
  BY <1>1, <1>3, SwapPlaces DEF SortInv, SortTypeOK
<1>6. SortTypeOK'
  BY <1>1, <1>4 DEF SortInv, SortTypeOK
<1>7. Rearranged(array, given)'
  BY <1>1, <1>3, SwapRearranges DEF SortInv, SortTypeOK
<1>8. CallsApart'
  BY <1>1, <1>4 DEF SortInv, CallsApart, Parting
<1>9. OthersInOrder'
  <2> SUFFICES ASSUME NEW i \in DOMAIN array, NEW j \in DOMAIN array, i < j,
                      LessThan(array'[i], array'[j]), ~ (InCall(part, i) /\ InCall(part, j))
               PROVE  \E c \in calls : InCall(c, i) /\ InCall(c, j)
    BY <1>1, <1>4 DEF OthersInOrder, Parting
  <2>1. InCall(part, up) /\ InCall(part, down)
    BY <1>1, <1>2, SortTypes DEF InCall
  <2> QED BY <1>1, <1>2, <2>1, SwapInPart DEF Parting
<1>10. ScansSplit'
  <2>1. Pivot' = Pivot /\ Pivot \in Arcs
    BY <1>1, <1>2, <1>5, SortTypes DEF Pivot, Parting
  <2>2. ~ LessThan(array[down], Pivot)
    BY <1>1, <1>3 DEF GoesDown
  <2>3. \A i \in DOMAIN array : part[1] <= i /\ i <= up => ~ LessThan(array'[i], Pivot)
    BY <1>1, <1>2, <1>5, <2>2, SortTypes DEF SortInv, ScansSplit, Parting
  <2>4. \A i \in DOMAIN array : down < i /\ i <= part[2] => ~ LessThan(Pivot, array'[i])
    BY <1>1, <1>2, <1>5, SortTypes DEF SortInv, ScansSplit, Parting
  <2> QED BY <1>1, <1>2, <1>4, <2>1, <2>3, <2>4, SortTypes DEF ScansSplit, Parting
<1> QED BY <1>6, <1>7, <1>8, <1>9, <1>10 DEF SortInv

LEMMA SplitInv ==
  ASSUME SortInv, Split
  PROVE  SortInv'
<1> DEFINE l == part[1]  r == part[2]
<1>1. /\ phase = "down" /\ ~ GoesDown /\ up >= down /\ phase' = "call"
      /\ array' = Swap(array, l, down) /\ calls' = calls \cup Calls(l, down, r)
      /\ UNCHANGED <<given, part, up, down>>
  BY DEF Split
<1>2. /\ up \in Nat /\ down \in Nat /\ l \in Nat /\ r \in Nat
      /\ 1 <= l /\ l < up /\ l <= down /\ down <= r /\ r <= Len(array) /\ Len(array) \in Nat
  BY <1>1, SortTypes DEF SortInv, SortTypeOK, ScansSplit, Parting, CallsApart
<1>3. l \in DOMAIN array /\ down \in DOMAIN array
  BY <1>2, SortTypes
<1>4. array' \in Seq(Arcs) /\ Len(array') = Len(array) /\ DOMAIN array' = DOMAIN array
  BY <1>1, <1>3, SwapPlaces DEF SortInv, SortTypeOK
<1>5. /\ array'[down] = array[l] /\ array'[l] = array[down]
      /\ \A i \in DOMAIN array : i # l /\ i # down => array'[i] = array[i]
  BY <1>1, <1>3, SwapPlaces DEF SortInv, SortTypeOK
<1>6. /\ \A c \in Calls(l, down, r) : c = <<l, down - 1>> \/ c = <<down + 1, r>>
      /\ \A c \in Calls(l, down, r) :
           /\ c \in (1 .. Len(array)) \X (1 .. Len(array)) /\ c[1] < c[2]
           /\ l <= c[1] /\ c[2] <= r /\ (c[2] < down \/ down < c[1])
      /\ l < down - 1 => <<l, down - 1>> \in Calls(l, down, r)
      /\ down + 1 < r => <<down + 1, r>> \in Calls(l, down, r)
  BY <1>2 DEF Calls
<1>7. SortTypeOK'
  BY <1>1, <1>4, <1>6 DEF SortInv, SortTypeOK
<1>8. Rearranged(array, given)'
  BY <1>1, <1>3, SwapRearranges DEF SortInv, SortTypeOK
<1>9. CallsApart'
  <2>1. \A c \in calls' : c[1] < c[2]
    BY <1>1, <1>6 DEF SortInv, CallsApart
  <2>2. \A b \in calls, c \in Calls(l, down, r) : b[2] < c[1] \/ c[2] < b[1]
    <3> TAKE b \in calls, c \in Calls(l, down, r)
    <3>1. r < b[1] \/ b[2] < l
      BY <1>1 DEF SortInv, CallsApart, Parting
    <3>2. /\ b[1] \in Nat /\ b[2] \in Nat /\ c[1] \in Nat /\ c[2] \in Nat
          /\ l <= c[1] /\ c[2] <= r
      BY <1>6, SortTypes
    <3> QED BY <1>2, <3>1, <3>2
  <2>3. \A b, c \in Calls(l, down, r) : b = c \/ b[2] < c[1] \/ c[2] < b[1]
    BY <1>2, <1>6
  <2>4. \A b, c \in calls' : b = c \/ b[2] < c[1] \/ c[2] < b[1]
    BY <1>1, <2>2, <2>3 DEF SortInv, CallsApart
  <2> QED BY <1>1, <2>1, <2>4 DEF CallsApart, Parting
<1>10. OthersInOrder'
  <2> SUFFICES ASSUME NEW i \in DOMAIN array, NEW j \in DOMAIN array, i < j,
                      LessThan(array'[i], array'[j])
               PROVE  \E c \in calls' : InCall(c, i) /\ InCall(c, j)
    BY <1>4 DEF OthersInOrder
  <2>1. CASE ~ (InCall(part, i) /\ InCall(part, j))
    <3>1. InCall(part, l) /\ InCall(part, down)
      BY <1>2 DEF InCall
    <3>2. \E c \in calls : InCall(c, i) /\ InCall(c, j)
      BY <1>1, <1>2, <2>1, <3>1, SwapInPart DEF Parting
    <3> QED BY <1>1, <3>2
  <2>2. CASE InCall(part, i) /\ InCall(part, j)
    <3>0. l <= i /\ i <= r /\ l <= j /\ j <= r /\ i \in Nat /\ j \in Nat
      BY <2>2, SortTypes DEF InCall
    <3>1. CASE j < down
      BY <1>1, <1>2, <1>6, <3>0, <3>1 DEF InCall
    <3>2. CASE down < i
      BY <1>1, <1>2, <1>6, <3>0, <3>2 DEF InCall
    <3>3. CASE i <= down /\ down <= j
      <4>1. /\ Pivot \in Arcs /\ array'[i] \in Arcs /\ array'[j] \in Arcs /\ array'[down] = Pivot
            /\ ~ LessThan(array[down], Pivot)
        BY <1>1, <1>2, <1>3, <1>5, SortTypes DEF Pivot, Parting, GoesDown
      <4>2. ~ LessThan(array'[i], Pivot)
        <5>1. CASE i = down
          BY <4>1, <5>1, LessThanOrder
        <5>2. CASE i # down /\ i = l
          BY <1>5, <4>1, <5>2
        <5>3. CASE i # down /\ i # l
          BY <1>1, <1>2, <1>5, <3>0, <3>3, <5>3 DEF SortInv, ScansSplit, Parting
        <5> QED BY <5>1, <5>2, <5>3
      <4>3. ~ LessThan(Pivot, array'[j])
        <5>1. CASE j = down
          BY <4>1, <5>1, LessThanOrder
        <5>2. CASE j # down
          BY <1>1, <1>2, <1>5, <3>0, <3>3, <5>2 DEF SortInv, ScansSplit, Parting
        <5> QED BY <5>1, <5>2
      <4> QED BY <4>1, <4>2, <4>3, LessThanOrder
    <3> QED BY <1>2, <3>0, <3>1, <3>2, <3>3
  <2> QED BY <2>1, <2>2
<1>11. ScansSplit'
  BY <1>1 DEF ScansSplit, Parting
<1> QED BY <1>7, <1>8, <1>9, <1>10, <1>11 DEF SortInv

LEMMA SortNextInv == SortInv /\ [SortNext]_sortVars => SortInv'
<1>1. SortInv /\ UNCHANGED sortVars => SortInv'
  <2> SUFFICES ASSUME SortInv, UNCHANGED sortVars PROVE SortInv'
    OBVIOUS
  <2>1. UNCHANGED <<given, array, calls, phase, part, up, down>>
    BY DEF sortVars
  <2>2. SortTypeOK' /\ Rearranged(array, given)'
    BY <2>1 DEF SortInv, SortTypeOK
  <2>3. CallsApart' /\ OthersInOrder'
    BY <2>1 DEF SortInv, CallsApart, OthersInOrder, Parting
  <2>4. ScansSplit'
    BY <2>1 DEF SortInv, ScansSplit, Parting, Pivot
  <2> QED BY <2>2, <2>3, <2>4 DEF SortInv
<1> QED BY <1>1, CallInv, ScanUpInv, ScanDownInv, ExchangeInv, SplitInv DEF SortNext

LEMMA SortInvSorts == SortInv => SortedLeastLast
<1> SUFFICES ASSUME SortInv, Sorted PROVE SortedLeastLast
  BY DEF SortedLeastLast
<1>1. Rearranged(array, given)
  BY DEF SortInv
<1>2. \A k, l \in DOMAIN array : k < l => ~ LessThan(array[k], array[l])
  BY DEF SortInv, OthersInOrder, Sorted, Parting
<1>3. array # <<>> => array[Len(array)] \in Least({array[k] : k \in DOMAIN array})
  <2> HAVE array # <<>>
  <2>1. Len(array) \in DOMAIN array
    BY SortTypes, EmptySeq DEF SortInv, SortTypeOK
  <2>2. \A k \in DOMAIN array : ~ LessThan(array[k], array[Len(array)])
    BY <1>2, <2>1, SortTypes, LessThanOrder
  <2> QED BY <2>1, <2>2 DEF Least
<1> QED BY <1>1, <1>2, <1>3 DEF SortedLeastLast

\* quickSort of walking_bus2.c loses and doubles no arc of any array, leaves no
\* arc before a greater one, and leaves one of the least last, where main takes it.
THEOREM SortLeavesLeastLast == SortSpec => []SortedLeastLast
<1>1. SortSpec => []SortInv
  BY SortInitInv, SortNextInv, PTL DEF SortSpec
<1> QED BY <1>1, SortInvSorts, PTL

-----------------------------------------------------------------------------
\* The first attempt at the challenge.

USE DEF School, Nodes

LEMMA DraftInitInv == DraftInit => DraftInv
<1> SUFFICES ASSUME DraftInit PROVE DraftInv
  OBVIOUS
<1>1. N \in Nat \ {0} /\ Infinity \in Nat /\ School \in Nodes
  BY PrimAssumption
<1>2. PICK p \in Maps : weight = DistM(p.coord) /\ alpha = [num |-> p.num, den |-> p.den]
  BY DEF DraftInit
<1>3. \A u, v \in Nodes : Weight(u, v) \in Nat /\ (u # v => Weight(u, v) # 0)
  <2>1. DistM(p.coord) \in [Nodes \X Nodes -> Nat]
    BY DraftAssumption
  <2>2. \A u, v \in Nodes : u # v => DistM(p.coord)[u, v] \in 1 .. Infinity - 1
    BY DraftAssumption
  <2>3. \A u, v \in Nodes : Weight(u, v) \in Nat
    BY <1>2, <2>1 DEF Weight
  <2>4. \A u, v \in Nodes : u # v => Weight(u, v) \in 1 .. Infinity - 1
    BY <1>2, <2>2, Zenon DEF Weight
  <2>5. \A u, v \in Nodes : u # v => Weight(u, v) # 0
    BY <1>1, <2>4
  <2> QED BY <2>3, <2>5
<1>4. alpha.num \in Nat /\ alpha.den \in Nat \ {0} /\ alpha.den <= alpha.num
  BY <1>2, DraftAssumption
<1>5. /\ inMst = {School} /\ printed = {} /\ last = School
      /\ partial = [v \in Nodes |-> 0] /\ whoTo = [v \in Nodes |-> School]
      /\ d = [v \in Nodes |-> IF v = School THEN Infinity ELSE Weight(School, v)]
  BY DEF DraftInit
<1>6. DraftTypeOK
  BY <1>1, <1>3, <1>4, <1>5 DEF DraftTypeOK
<1>7. \A v \in Nodes : ~ TooLong(Weight(School, v), v) /\ ~ TooLong(0, School)
  <2>1. ASSUME NEW v \in Nodes
        PROVE  Weight(School, v) * alpha.den <= Weight(School, v) * alpha.num
    BY <1>1, <1>3, <1>4
  <2>2. 0 * alpha.den <= Weight(School, School) * alpha.num
    BY <1>1, <1>3, <1>4
  <2>3. ASSUME NEW v \in Nodes
        PROVE  /\ Weight(School, v) * alpha.den \in Int /\ Weight(School, v) * alpha.num \in Int
    BY <1>1, <1>3, <1>4
  <2> QED BY <1>1, <1>4, <2>1, <2>2, <2>3 DEF TooLong, Exceeds
<1>8. \A v \in Nodes : Weight(School, v) <= Weight(School, v) /\ 0 + Weight(School, v) = Weight(School, v)
  BY <1>1, <1>3
<1>9. DraftWithinAlpha
  <2>1. \A v \in inMst : ~ TooLong(partial[v], v)
    BY <1>1, <1>5, <1>7
  <2>2. ASSUME NEW v \in Nodes \ inMst
        PROVE  /\ whoTo[v] = School /\ d[v] = Weight(School, v) /\ partial[School] = 0
    BY <1>1, <1>5
  <2> QED BY <1>1, <1>5, <1>7, <1>8, <2>1, <2>2 DEF DraftWithinAlpha
<1> QED BY <1>6, <1>9 DEF DraftInv

LEMMA AddInv ==
  ASSUME DraftInv, NEW v \in Nodes \ inMst, NEW length \in Nat, ~ TooLong(length, v),
         Add(v, length)
  PROVE  DraftInv'
<1>1. /\ inMst' = inMst \cup {v} /\ last' = v /\ printed' = printed \cup {<<whoTo[v], v>>}
      /\ partial' = [partial EXCEPT ![v] = length]
      /\ \A x, y : Weight(x, y)' = Weight(x, y)
      /\ alpha' = alpha /\ \A n, x : TooLong(n, x)' = TooLong(n, x)
  BY DEF Add, Weight, TooLong
<1>2. /\ \A x, y \in Nodes : Weight(x, y) \in Nat /\ (x # y => Weight(x, y) # 0)
      /\ inMst \subseteq Nodes /\ School \in inMst
      /\ d \in [Nodes -> Nat] /\ partial \in [Nodes -> Nat] /\ whoTo \in [Nodes -> Nodes]
      /\ printed \subseteq Nodes \X Nodes
  BY DEF DraftInv, DraftTypeOK
<1>3. partial' \in [Nodes -> Nat] /\ partial'[v] = length /\ \A x \in Nodes \ {v} : partial'[x] = partial[x]
  BY <1>1, <1>2
<1>4. ASSUME NEW w \in Nodes
      PROVE  \/ /\ d'[w] = Weight(v, w) /\ whoTo'[w] = v
                /\ ~ TooLong(length + Weight(v, w), w) /\ d[w] > Weight(v, w)
             \/ /\ d'[w] = d[w] /\ whoTo'[w] = whoTo[w]
                /\ \/ Weight(v, w) = 0 \/ ~ (d[w] > Weight(v, w))
                   \/ TooLong(length + Weight(v, w), w)
  <2>1. Update(v, d, partial')
    BY DEF Add
  <2> QED BY <1>3, <2>1 DEF Update, NearEnough, Nearer
<1>5. DraftTypeOK'
  <2>1. /\ d' = [w \in Nodes |-> d'[w]] /\ whoTo' = [w \in Nodes |-> whoTo'[w]]
    BY DEF Add, Update
  <2>2. \A w \in Nodes : d'[w] \in Nat /\ whoTo'[w] \in Nodes
    BY <1>2, <1>4
  <2>3. d' \in [Nodes -> Nat] /\ whoTo' \in [Nodes -> Nodes]
    BY <2>1, <2>2
  <2>4. printed' \subseteq Nodes \X Nodes
    <3>1. <<whoTo[v], v>> \in Nodes \X Nodes
      BY <1>2
    <3>2. printed' = printed \cup {<<whoTo[v], v>>} /\ printed \subseteq Nodes \X Nodes
      BY <1>1, <1>2
    <3> QED BY <3>1, <3>2
  <2> QED BY <1>1, <1>2, <1>3, <2>3, <2>4 DEF DraftInv, DraftTypeOK
<1>6. DraftWithinAlpha'
  <2>1. ASSUME NEW x \in inMst \cup {v} PROVE ~ TooLong(partial'[x], x)
    BY <1>2, <1>3 DEF DraftInv, DraftWithinAlpha
  <2>2. ASSUME NEW w \in Nodes \ (inMst \cup {v})
        PROVE  /\ whoTo'[w] \in inMst \cup {v} /\ d'[w] = Weight(whoTo'[w], w)
               /\ ~ TooLong(partial'[whoTo'[w]] + d'[w], w)
               /\ \A u \in inMst \cup {v} :
                    d'[w] <= Weight(u, w) \/ TooLong(partial'[u] + Weight(u, w), w)
    <3>1. /\ whoTo[w] \in inMst /\ d[w] = Weight(whoTo[w], w)
          /\ ~ TooLong(partial[whoTo[w]] + d[w], w)
          /\ \A u \in inMst : d[w] <= Weight(u, w) \/ TooLong(partial[u] + Weight(u, w), w)
      BY DEF DraftInv, DraftWithinAlpha
    <3>2. /\ whoTo[w] # v /\ w # v /\ Weight(v, w) \in Nat /\ Weight(v, w) # 0 /\ d[w] \in Nat
          /\ \A u \in inMst : Weight(u, w) \in Nat /\ u # v /\ u \in Nodes
      BY <1>2, <3>1
    <3>3. /\ \A u \in inMst : partial'[u] = partial[u]
          /\ partial'[whoTo[w]] = partial[whoTo[w]] /\ partial'[v] = length
      BY <1>3, <3>1, <3>2
    <3>4. CASE /\ d'[w] = Weight(v, w) /\ whoTo'[w] = v
               /\ ~ TooLong(length + Weight(v, w), w) /\ d[w] > Weight(v, w)
      BY <3>1, <3>2, <3>3, <3>4
    <3>5. CASE /\ d'[w] = d[w] /\ whoTo'[w] = whoTo[w]
               /\ ~ (d[w] > Weight(v, w)) \/ TooLong(length + Weight(v, w), w)
      BY <3>1, <3>2, <3>3, <3>5
    <3> QED BY <1>4, <3>2, <3>4, <3>5
  <2> QED BY <1>1, <2>1, <2>2 DEF DraftWithinAlpha
<1> QED BY <1>5, <1>6 DEF DraftInv

LEMMA DraftNextInv == DraftInv /\ [DraftNext]_draftVars => DraftInv'
<1> SUFFICES ASSUME DraftInv, [DraftNext]_draftVars PROVE DraftInv'
  OBVIOUS
<1>1. ASSUME NEW v \in Nodes, GoOn(v) PROVE DraftInv'
  <2>1. v \in Nodes \ inMst
    BY <1>1 DEF GoOn, Following
  <2>2. partial[last] + Weight(last, v) \in Nat
    <3>1. last \in Nodes /\ partial \in [Nodes -> Nat] /\ Weight(last, v) \in Nat
      BY DEF DraftInv, DraftTypeOK
    <3> QED BY <3>1
  <2> QED BY <1>1, <2>1, <2>2, AddInv DEF GoOn
<1>2. ASSUME NEW v \in Nodes, Open(v) PROVE DraftInv'
  <2>1. v \in Nodes \ inMst /\ Add(v, partial[whoTo[v]] + d[v])
    BY <1>2 DEF Open
  <2>2. ~ TooLong(partial[whoTo[v]] + d[v], v)
    BY <2>1 DEF DraftInv, DraftWithinAlpha
  <2>3. partial[whoTo[v]] + d[v] \in Nat
    <3>1. whoTo[v] \in Nodes /\ partial \in [Nodes -> Nat] /\ d \in [Nodes -> Nat]
      BY DEF DraftInv, DraftTypeOK
    <3> QED BY <3>1
  <2> QED BY <2>1, <2>2, <2>3, AddInv
<1>3. CASE UNCHANGED draftVars
  BY <1>3 DEF draftVars, DraftInv, DraftTypeOK, DraftWithinAlpha, TooLong, Weight
<1> QED BY <1>1, <1>2, <1>3 DEF DraftNext

\* The way the draft believes a stop has is within alpha, and so is the one
\* that the noted link of every stop still outside would give it.
THEOREM DraftInvariance == DraftSpec => []DraftInv
BY DraftInitInv, DraftNextInv, PTL DEF DraftSpec

-----------------------------------------------------------------------------
\* The four programs.

LEMMA PedibusInitInv ==
  PedibusInit => BusInvariant /\ SortInvariant /\ PrimInvariant /\ DraftInvariant
BY BusInitInv, SortInitInv, PrimInitInv, DraftInitInv
   DEF PedibusInit, BusInvariant, SortInvariant, PrimInvariant, DraftInvariant

LEMMA PedibusNextInv ==
  ASSUME BusInvariant, SortInvariant, PrimInvariant, DraftInvariant, [PedibusNext]_pedibusVars
  PROVE  BusInvariant' /\ SortInvariant' /\ PrimInvariant' /\ DraftInvariant'
<1> USE DEF BusInvariant, SortInvariant, PrimInvariant, DraftInvariant
<1>1. CASE BusNext /\ BusRuns
  <2>1. program = "walking_bus2" /\ program' = "walking_bus2"
    BY <1>1 DEF BusRuns
  <2> QED BY <1>1, <2>1, BusNextInv
<1>2. CASE SortNext /\ SortRuns
  <2>1. program = "quickSort" /\ program' = "quickSort"
    BY <1>2 DEF SortRuns
  <2> QED BY <1>2, <2>1, SortNextInv
<1>3. CASE PrimNext /\ PrimRuns
  <2>1. program = "prims_alg" /\ program' = "prims_alg"
    BY <1>3 DEF PrimRuns
  <2> QED BY <1>3, <2>1, PrimNextInv
<1>4. CASE DraftNext /\ DraftRuns
  <2>1. program = "walking_bus" /\ program' = "walking_bus"
    BY <1>4 DEF DraftRuns
  <2> QED BY <1>4, <2>1, DraftNextInv
<1>5. CASE UNCHANGED pedibusVars
  <2>1. program' = program /\ UNCHANGED <<busVars, sortVars, primVars, draftVars>>
    BY <1>5 DEF pedibusVars, primVars, draftVars
  <2> QED BY <2>1, BusNextInv, SortNextInv, PrimNextInv, DraftNextInv
<1> QED BY <1>1, <1>2, <1>3, <1>4, <1>5 DEF PedibusNext

LEMMA PedibusInvariance ==
  PedibusSpec => [](BusInvariant /\ SortInvariant /\ PrimInvariant /\ DraftInvariant)
BY PedibusInitInv, PedibusNextInv, PTL DEF PedibusSpec

\* The inductive invariants hold of the programs as they are run side by side:
\* that of both passes of walking_bus2,
THEOREM PedibusBusInvariant == PedibusSpec => []BusInvariant
BY PedibusInvariance, PTL

\* that of quickSort,
THEOREM PedibusSortInvariant == PedibusSpec => []SortInvariant
BY PedibusInvariance, PTL

\* that of prims_alg,
THEOREM PedibusPrimInvariant == PedibusSpec => []PrimInvariant
BY PedibusInvariance, PTL

\* and that of walking_bus.
THEOREM PedibusDraftInvariant == PedibusSpec => []DraftInvariant
BY PedibusInvariance, PTL

\* Whichever program is run, prims_alg's total is that of a minimal tree.
THEOREM PedibusMinimalTotal == PedibusSpec => []MinimalTotal
<1>1. PrimInvariant => MinimalTotal
  BY TreeIsMinimal DEF PrimInvariant, MinimalTotal
<1> QED BY <1>1, PedibusInvariance, PTL
=============================================================================
