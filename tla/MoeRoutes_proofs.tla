-------------------------- MODULE MoeRoutes_proofs --------------------------
(* Theorems about the kernel that sorts routed rows, for every number of   *)
(* threads, warps, experts and rows, every block size and selection.       *)
EXTENDS Plans_proofs, FiniteSetTheorems, FunctionTheorems

Fields == {"phase", "selected", "experts", "block", "zeroed", "counted", "counts",
           "offsets", "ranks", "placed", "sorted", "blocks"}

RoutedCount       == Cardinality(Routed)
Buffer     == 0..((RoutedCount + routing.experts * (routing.block - 1)) - 1)
Choosing(selected, e, rows) == {row \in rows : selected[row] = e}
Chosen(e, rows)             == Cardinality(Choosing(routing.selected, e, rows))

RoutingTypes ==
    /\ DOMAIN routing = Fields
    /\ routing.phase \in {"count", "place", "done"}
    /\ routing.experts \in Nat \ {0} /\ routing.block \in Nat \ {0}
    /\ IsFiniteSet(Routed) /\ routing.selected \in [0..(RoutedCount - 1) -> Nat]
    /\ routing.zeroed \subseteq RoutedExperts
    /\ routing.counted \subseteq Routed /\ routing.placed \subseteq Routed
    /\ routing.counts \in [RoutedExperts -> Nat]
    /\ routing.offsets \in [RoutedExperts -> Nat]
    /\ routing.ranks \in [RoutedExperts -> Nat]
    /\ DOMAIN routing.sorted = Buffer

(* A count is of rows counted, though some of them may be lost.            *)
CountsAreOfRows ==
    \A e \in RoutedExperts : routing.counts[e] <= Chosen(e, routing.counted)

RanksArePlaced ==
    \A e \in RoutedExperts : routing.ranks[e] = Chosen(e, routing.placed)

NothingIsPlaced ==
    routing.phase = "count" =>
        /\ routing.placed = {}
        /\ \A i \in Buffer : routing.sorted[i] = RoutedCount

(* An expert's rows fit in the buffer from its offset on.                  *)
OffsetsFit ==
    routing.phase # "count" =>
        /\ \A e \in RoutedExperts :
             routing.offsets[e] + Chosen(e, Routed)
                 <= RoutedCount + routing.experts * (routing.block - 1)
        /\ Len(routing.blocks) * routing.block
             <= RoutedCount + routing.experts * (routing.block - 1)

BoundsInv == RoutingTypes /\ CountsAreOfRows /\ RanksArePlaced
                 /\ NothingIsPlaced /\ OffsetsFit

(* No count was lost.                                                      *)
Exact == \A e \in RoutedExperts : routing.counts[e] = Chosen(e, Routed)

(* Blocks are those of the experts, in their order.                        *)
BlocksInOrder ==
    (routing.phase # "count" /\ Exact) =>
        /\ \A e \in RoutedExperts :
             /\ routing.offsets[e] = routing.block * BlocksBefore(e)
             /\ \A b \in BlocksBefore(e)..(BlocksBefore(e + 1) - 1) :
                  routing.blocks[b + 1] = e
        /\ Len(routing.blocks) = BlocksBefore(routing.experts)

(* The places that an expert has given out hold its placed rows.           *)
PlacesHoldRows ==
    (routing.phase = "place" /\ Exact) =>
        /\ \A e \in RoutedExperts :
             /\ \A k \in 0..(routing.ranks[e] - 1) :
                  routing.sorted[routing.offsets[e] + k]
                      \in Choosing(routing.selected, e, routing.placed)
             /\ \A k, l \in 0..(routing.ranks[e] - 1) :
                  routing.sorted[routing.offsets[e] + k]
                      = routing.sorted[routing.offsets[e] + l] => k = l
        /\ \A i \in Buffer :
             \/ routing.sorted[i] = RoutedCount
             \/ \E e \in RoutedExperts : i - routing.offsets[e] \in 0..(routing.ranks[e] - 1)

SortedInv == BlocksInOrder /\ PlacesHoldRows /\ RoutesAreBuckets

RouteInv == routing = Idle \/ (BoundsInv /\ SortedInv)

-----------------------------------------------------------------------------
(* Induction and recursion, over sets.                                     *)

(* A set of naturals with zero and every successor has all of them.        *)
LEMMA Induction ==
    ASSUME NEW S \in SUBSET Nat, 0 \in S, \A n \in S : n + 1 \in S
    PROVE  \A n \in Nat : n \in S
<1>. SUFFICES ASSUME Nat \ S # {}  PROVE FALSE
  OBVIOUS
<1>1. PICK m \in Nat \ S : \A k \in Nat \ S : m <= k
  BY LeastElement
<1>2. m # 0 /\ m - 1 \in Nat
  BY <1>1
<1>3. m - 1 \in S
  BY <1>1, <1>2
<1>4. (m - 1) + 1 \in S
  BY <1>3
<1>. QED  BY <1>1, <1>4

(* A function that is known at zero, and by steps of one.                  *)
Recurs(f, n, base, g) == f[0] = base /\ \A i \in 1..n : f[i] = g[i][f[i - 1]]

LEMMA Recursion ==
    ASSUME NEW n \in Nat, NEW V, NEW base \in V, NEW g \in [0..n -> [V -> V]]
    PROVE  \E f \in [0..n -> V] : Recurs(f, n, base, g)
<1>. DEFINE Upto(k, f) == Recurs(f, k, base, g)
            S == {k \in Nat : k <= n => \E f \in [0..k -> V] : Upto(k, f)}
<1>1. 0 \in S
  <2>1. [i \in 0..0 |-> base] \in [0..0 -> V] /\ Upto(0, [i \in 0..0 |-> base])
    BY DEF Recurs
  <2>. QED  BY <2>1
<1>2. ASSUME NEW k \in S  PROVE k + 1 \in S
  <2>. SUFFICES ASSUME k + 1 <= n
                PROVE  \E f \in [0..(k + 1) -> V] : Upto(k + 1, f)
    OBVIOUS
  <2>1. PICK f \in [0..k -> V] : Upto(k, f)
    BY <1>2
  <2>. DEFINE h == [i \in 0..(k + 1) |-> IF i = k + 1 THEN g[k + 1][f[k]] ELSE f[i]]
  <2>2. g[k + 1][f[k]] \in V
    OBVIOUS
  <2>3. h \in [0..(k + 1) -> V]
    BY <2>2
  <2>4. h[0] = base
    BY <2>1 DEF Recurs
  <2>5. \A i \in 1..(k + 1) : h[i] = g[i][h[i - 1]]
    BY <2>1 DEF Recurs
  <2>. QED  BY <2>3, <2>4, <2>5 DEF Recurs
<1>. HIDE DEF S
<1>3. n \in S
  BY <1>1, <1>2, Induction DEF S
<1>. QED  BY <1>3 DEF S

-----------------------------------------------------------------------------
(* Offsets.                                                                *)

(* The serial loop adds up whole blocks.                                   *)
LEMMA SerialAdds ==
    ASSUME RoutingTypes
    PROVE  /\ Serial \in [0..routing.experts -> Int]
           /\ Serial[0] = 0
           /\ \A e \in RoutedExperts : Serial[e + 1] = Serial[e] + WholeBlocks(e)
<1>. DEFINE n == routing.experts
            Sums(f) == f = [e \in 0..n |->
                IF e = 0 THEN 0 ELSE f[e - 1] + WholeBlocks(e - 1)]
            g == [e \in 0..n |-> [v \in Int |->
                IF e = 0 THEN 0 ELSE v + WholeBlocks(e - 1)]]
<1>1. n \in Nat
  BY DEF RoutingTypes
<1>2. \A e \in RoutedExperts : WholeBlocks(e) \in Int
  BY DEF WholeBlocks, RoutingTypes
<1>3. \A e \in 0..n : e # 0 => e - 1 \in RoutedExperts
  BY <1>1 DEF RoutedExperts
<1>4. g \in [0..n -> [Int -> Int]]
  BY <1>2, <1>3
<1>. HIDE DEF g
<1>5. PICK f \in [0..n -> Int] : Recurs(f, n, 0, g)
  <2>1. 0 \in Int
    OBVIOUS
  <2>. QED  BY <1>1, <1>4, <2>1, Recursion, Zenon
<1>6. ASSUME NEW e \in 0..n
      PROVE  f[e] = IF e = 0 THEN 0 ELSE f[e - 1] + WholeBlocks(e - 1)
  <2>1. CASE e # 0
    <3>1. e \in 1..n /\ f[e - 1] \in Int
      BY <2>1, <1>1
    <3>2. g[e][f[e - 1]] = f[e - 1] + WholeBlocks(e - 1)
      BY <3>1, <2>1 DEF g
    <3>. QED  BY <3>1, <3>2, <2>1, <1>5 DEF Recurs
  <2>. QED  BY <2>1, <1>5 DEF Recurs
<1>7. Sums(f)
  BY <1>6
<1>8. Serial = CHOOSE h : Sums(h)
  BY DEF Serial
<1>9. Sums(Serial)
  <2>. HIDE DEF Sums
  <2>. QED  BY <1>7, <1>8
<1>10. \A e \in 0..n : Serial[e] = IF e = 0 THEN 0 ELSE Serial[e - 1] + WholeBlocks(e - 1)
  BY <1>9
<1>11. DOMAIN Serial = 0..n /\ Serial = [e \in 0..n |-> Serial[e]]
  BY <1>9
<1>12. \A e \in RoutedExperts : e + 1 \in 0..n /\ e + 1 # 0 /\ (e + 1) - 1 = e
  BY <1>1 DEF RoutedExperts
<1>13. \A e \in RoutedExperts : Serial[e + 1] = Serial[e] + WholeBlocks(e)
  BY <1>10, <1>12
<1>14. \A e \in 0..n : Serial[e] \in Int
  <2>. DEFINE S == {e \in Nat : e <= n => Serial[e] \in Int}
  <2>1. 0 \in S
    BY <1>1, <1>10
  <2>2. ASSUME NEW e \in S  PROVE e + 1 \in S
    <3>. SUFFICES ASSUME e + 1 <= n  PROVE Serial[e + 1] \in Int
      OBVIOUS
    <3>1. e \in RoutedExperts /\ Serial[e] \in Int
      BY <1>1 DEF RoutedExperts
    <3>. QED  BY <3>1, <1>2, <1>13
  <2>. HIDE DEF S
  <2>3. \A e \in Nat : e \in S
    BY <2>1, <2>2, Induction DEF S
  <2>. QED  BY <2>3, <1>1 DEF S
<1>15. Serial \in [0..n -> Int]
  BY <1>11, <1>14
<1>16. Serial[0] = 0
  BY <1>1, <1>10
<1>. QED  BY <1>13, <1>15, <1>16

(* Strides double, and reach the number of experts in as many rounds.      *)
LEMMA StridesDouble ==
    ASSUME RoutingTypes
    PROVE  /\ Stride \in [0..routing.experts -> Nat \ {0}]
           /\ Stride[0] = 1
           /\ \A n \in 1..routing.experts : Stride[n] = 2 * Stride[n - 1]
           /\ Rounds \in 0..routing.experts /\ Stride[Rounds] >= routing.experts
<1>. DEFINE m == routing.experts
            Doubles(f) == f = [n \in 0..m |-> IF n = 0 THEN 1 ELSE 2 * f[n - 1]]
            g == [n \in 0..m |-> [v \in Nat \ {0} |-> 2 * v]]
<1>1. m \in Nat
  BY DEF RoutingTypes
<1>2. g \in [0..m -> [Nat \ {0} -> Nat \ {0}]]
  OBVIOUS
<1>. HIDE DEF g
<1>3. PICK f \in [0..m -> Nat \ {0}] : Recurs(f, m, 1, g)
  <2>1. 1 \in Nat \ {0}
    OBVIOUS
  <2>. QED  BY <1>1, <1>2, <2>1, Recursion, Zenon
<1>4. ASSUME NEW n \in 0..m  PROVE f[n] = IF n = 0 THEN 1 ELSE 2 * f[n - 1]
  <2>1. CASE n # 0
    <3>1. n \in 1..m /\ f[n - 1] \in Nat \ {0}
      BY <2>1, <1>1
    <3>2. g[n][f[n - 1]] = 2 * f[n - 1]
      BY <3>1 DEF g
    <3>. QED  BY <3>1, <3>2, <2>1, <1>3 DEF Recurs
  <2>. QED  BY <2>1, <1>3 DEF Recurs
<1>5. Doubles(f)
  BY <1>4
<1>6. Stride = CHOOSE h : Doubles(h)
  BY DEF Stride
<1>7. Doubles(Stride)
  <2>. HIDE DEF Doubles
  <2>. QED  BY <1>5, <1>6
<1>8. \A n \in 0..m : Stride[n] = IF n = 0 THEN 1 ELSE 2 * Stride[n - 1]
  BY <1>7
<1>9. DOMAIN Stride = 0..m /\ Stride = [n \in 0..m |-> Stride[n]]
  BY <1>7
<1>10. \A n \in 0..m : Stride[n] \in Nat \ {0} /\ Stride[n] >= n + 1
  <2>. DEFINE S == {n \in Nat : n <= m => Stride[n] \in Nat \ {0} /\ Stride[n] >= n + 1}
  <2>1. 0 \in S
    BY <1>1, <1>8
  <2>2. ASSUME NEW n \in S  PROVE n + 1 \in S
    <3>. SUFFICES ASSUME n + 1 <= m
                  PROVE  Stride[n + 1] \in Nat \ {0} /\ Stride[n + 1] >= n + 2
      OBVIOUS
    <3>1. n + 1 \in 0..m /\ n + 1 # 0 /\ (n + 1) - 1 = n /\ Stride[n] \in Nat \ {0}
          /\ Stride[n] >= n + 1
      BY <1>1
    <3>2. Stride[n + 1] = 2 * Stride[n]
      BY <3>1, <1>8
    <3>. QED  BY <3>1, <3>2
  <2>. HIDE DEF S
  <2>3. \A n \in Nat : n \in S
    BY <2>1, <2>2, Induction DEF S
  <2>. QED  BY <2>3, <1>1 DEF S
<1>11. \E n \in 0..m : /\ Stride[n] >= m
                       /\ \A round \in 0..(n - 1) : Stride[round] < m
  <2>. DEFINE S == {n \in 0..m : Stride[n] >= m}
  <2>1. m \in S
    BY <1>1, <1>10
  <2>2. S \in SUBSET Nat /\ S # {}
    BY <1>1, <2>1
  <2>3. PICK n \in S : \A k \in S : n <= k
    BY <2>2, LeastElement
  <2>4. \A round \in 0..(n - 1) : round \in 0..m /\ ~(n <= round)
    BY <1>1, <2>3
  <2>5. \A round \in 0..(n - 1) : Stride[round] < m
    BY <2>3, <2>4, <1>10, <1>1
  <2>. QED  BY <2>3, <2>5
<1>12. Rounds \in 0..m /\ Stride[Rounds] >= m
  BY <1>11 DEF Rounds
<1>13. Stride \in [0..m -> Nat \ {0}]
  BY <1>9, <1>10
<1>14. Stride[0] = 1 /\ \A n \in 1..m : Stride[n] = 2 * Stride[n - 1]
  BY <1>1, <1>8
<1>. QED  BY <1>12, <1>13, <1>14

(* After n rounds of the scan an expert has the sum of the whole blocks of *)
(* as many experts as the stride has grown to, or of all up to it.         *)
LEMMA ScanAdds ==
    ASSUME RoutingTypes
    PROVE  \A e \in RoutedExperts : Scanned[e] = Serial[e + 1]
<1>. DEFINE m == routing.experts
            V == [RoutedExperts -> Int]
            Added(before, stride) == [e \in RoutedExperts |->
                before[e] + (IF e >= stride THEN before[e - stride] ELSE 0)]
            base == [e \in RoutedExperts |-> WholeBlocks(e)]
            Scans(f) == f = [n \in 0..m |->
                IF n = 0 THEN base ELSE Added(f[n - 1], Stride[n - 1])]
            g == [n \in 0..m |-> [v \in V |->
                IF n = 0 THEN base ELSE Added(v, Stride[n - 1])]]
            Since(e, stride) == IF e + 1 >= stride THEN e + 1 - stride ELSE 0
<1>1. m \in Nat /\ RoutedExperts = 0..(m - 1)
  BY DEF RoutingTypes, RoutedExperts
<1>2. base \in V
  BY DEF WholeBlocks, RoutingTypes
<1>3. \A n \in 1..m : Stride[n - 1] \in Nat \ {0}
  <2>1. Stride \in [0..m -> Nat \ {0}]
    BY StridesDouble
  <2>2. \A n \in 1..m : n - 1 \in 0..m
    BY <1>1
  <2>. QED  BY <2>1, <2>2
<1>4. \A v \in V : \A stride \in Nat \ {0} : Added(v, stride) \in V
  BY <1>1
<1>. HIDE DEF base, Added
<1>5. g \in [0..m -> [V -> V]]
  <2>. HIDE DEF V
  <2>1. \A n \in 0..m : n # 0 => n \in 1..m
    BY <1>1
  <2>. QED  BY <1>2, <1>3, <1>4, <2>1
<1>. HIDE DEF g
<1>6. PICK f \in [0..m -> V] : Recurs(f, m, base, g)
  <2>. HIDE DEF V
  <2>. QED  BY <1>1, <1>2, <1>5, Recursion, Zenon
<1>7. ASSUME NEW n \in 0..m
      PROVE  f[n] = IF n = 0 THEN base ELSE Added(f[n - 1], Stride[n - 1])
  <2>1. CASE n # 0
    <3>1. n \in 1..m /\ f[n - 1] \in V
      BY <2>1, <1>1
    <3>2. g[n][f[n - 1]] = Added(f[n - 1], Stride[n - 1])
      BY <3>1 DEF g
    <3>. QED  BY <3>1, <3>2, <2>1, <1>6 DEF Recurs
  <2>. QED  BY <2>1, <1>6 DEF Recurs
<1>8. Scans(f)
  BY <1>7
<1>9. Scanned = (CHOOSE h : Scans(h))[Rounds]
  BY DEF Scanned, Added, base
<1>10. PICK scan : Scans(scan) /\ Scanned = scan[Rounds]
  <2>. HIDE DEF Scans
  <2>. QED  BY <1>8, <1>9
<1>11. \A n \in 0..m : scan[n] = IF n = 0 THEN base ELSE Added(scan[n - 1], Stride[n - 1])
  BY <1>10
<1>12. Serial \in [0..m -> Int] /\ Serial[0] = 0
  BY SerialAdds
<1>13. \A n \in Nat : n <= m =>
         \A e \in RoutedExperts : scan[n][e] = Serial[e + 1] - Serial[Since(e, Stride[n])]
  <2>. DEFINE S == {n \in Nat : n <= m => \A e \in RoutedExperts :
                      scan[n][e] = Serial[e + 1] - Serial[Since(e, Stride[n])]}
  <2>1. 0 \in S
    <3>1. scan[0] = base
      BY <1>1, <1>11
    <3>2. \A e \in RoutedExperts : base[e] = WholeBlocks(e)
      BY DEF base
    <3>3. \A e \in RoutedExperts : Since(e, Stride[0]) = e
      BY <1>1, StridesDouble
    <3>4. \A e \in RoutedExperts : Serial[e + 1] - Serial[e] = WholeBlocks(e)
      <4>1. \A e \in RoutedExperts : WholeBlocks(e) \in Int
        BY DEF WholeBlocks, RoutingTypes
      <4>2. \A e \in RoutedExperts : e \in 0..m /\ e + 1 \in 0..m
        BY <1>1
      <4>. QED  BY <4>1, <4>2, <1>12, SerialAdds
    <3>. QED  BY <3>1, <3>2, <3>3, <3>4
  <2>2. ASSUME NEW n \in S  PROVE n + 1 \in S
    <3>. SUFFICES ASSUME n + 1 <= m, NEW e \in RoutedExperts
                  PROVE  scan[n + 1][e]
                            = Serial[e + 1] - Serial[Since(e, Stride[n + 1])]
      OBVIOUS
    <3>. DEFINE stride == Stride[n]
    <3>1. n \in Nat /\ n + 1 \in 1..m /\ (n + 1) - 1 = n
      BY <1>1
    <3>2. stride \in Nat \ {0} /\ Stride[n + 1] = 2 * stride
      BY <3>1, <1>3, StridesDouble
    <3>3. scan[n + 1] = Added(scan[n], stride)
      <4>1. n + 1 \in 0..m /\ n + 1 # 0
        BY <3>1, <1>1
      <4>2. scan[n + 1] = Added(scan[(n + 1) - 1], Stride[(n + 1) - 1])
        BY <4>1, <1>11
      <4>. QED  BY <4>2, <3>1
    <3>4. \A d \in RoutedExperts :
            scan[n][d] = Serial[d + 1] - Serial[Since(d, stride)]
      <4>1. n <= m
        BY <3>1, <1>1
      <4>. QED  BY <4>1
    <3>5. scan[n + 1][e] = scan[n][e] + (IF e >= stride THEN scan[n][e - stride] ELSE 0)
      BY <3>3 DEF Added
    <3>. HIDE DEF stride
    <3>6. \A d \in 0..m : Serial[d] \in Int
      BY <1>12
    <3>7. CASE e >= stride
      <4>1. e - stride \in RoutedExperts /\ e \in Nat
        BY <3>2, <3>7, <1>1
      <4>2. (e - stride) + 1 = e + 1 - stride /\ Since(e, stride) = e + 1 - stride
            /\ Since(e - stride, stride) = Since(e, 2 * stride)
        BY <3>2, <3>7, <4>1
      <4>3. e + 1 \in 0..m /\ e + 1 - stride \in 0..m /\ Since(e, 2 * stride) \in 0..m
        <5>1. Since(e, 2 * stride) \in 0..e
          <6>1. CASE e + 1 >= 2 * stride
            BY <6>1, <3>2, <4>1
          <6>2. CASE ~(e + 1 >= 2 * stride)
            BY <6>2, <4>1
          <6>. QED  BY <6>1, <6>2
        <5>2. e \in 0..(m - 1)
          BY <1>1
        <5>. HIDE DEF Since
        <5>. QED  BY <5>1, <5>2, <3>2, <3>7, <1>1
      <4>. HIDE DEF Since
      <4>4. /\ scan[n][e] = Serial[e + 1] - Serial[e + 1 - stride]
            /\ scan[n][e - stride] = Serial[e + 1 - stride] - Serial[Since(e, 2 * stride)]
        BY <3>4, <4>1, <4>2
      <4>5. scan[n + 1][e] = scan[n][e] + scan[n][e - stride]
        BY <3>5, <3>7
      <4>6. /\ Serial[e + 1] \in Int /\ Serial[e + 1 - stride] \in Int
            /\ Serial[Since(e, 2 * stride)] \in Int
        BY <4>3, <3>6
      <4>. QED  BY <4>4, <4>5, <4>6, <3>2
    <3>8. CASE ~(e >= stride)
      <4>1. Since(e, stride) = 0 /\ Since(e, 2 * stride) = 0 /\ e + 1 \in 0..m
        BY <3>2, <3>8, <1>1
      <4>. HIDE DEF Since
      <4>2. scan[n][e] = Serial[e + 1] - Serial[0] /\ scan[n + 1][e] = scan[n][e] + 0
        BY <3>4, <3>5, <3>8, <4>1
      <4>3. Serial[e + 1] \in Int /\ Serial[0] \in Int
        BY <4>1, <3>6, <1>1
      <4>. QED  BY <4>1, <4>2, <4>3, <3>2
    <3>. QED  BY <3>7, <3>8
  <2>. HIDE DEF S
  <2>3. \A n \in Nat : n \in S
    BY <2>1, <2>2, Induction DEF S
  <2>. QED  BY <2>3 DEF S
<1>. QED
  <2>. TAKE e \in RoutedExperts
  <2>1. Rounds \in 0..m /\ Stride[Rounds] \in Nat /\ Stride[Rounds] >= m
    BY <1>1, StridesDouble
  <2>2. Since(e, Stride[Rounds]) = 0 /\ e + 1 \in 0..m
    BY <2>1, <1>1
  <2>3. Scanned[e] = Serial[e + 1] - Serial[Since(e, Stride[Rounds])]
    <3>1. Rounds \in Nat /\ Rounds <= m
      BY <2>1, <1>1
    <3>. HIDE DEF Since
    <3>. QED  BY <3>1, <1>10, <1>13
  <2>4. Serial[e + 1] \in Int
    BY <2>2, <1>12
  <2>. QED  BY <2>2, <2>3, <2>4, <1>12

(* Both ways give the same offsets.                                        *)
LEMMA OffsetsAdd ==
    ASSUME RoutingTypes
    PROVE  /\ \A e \in RoutedExperts : Offset(e) = Serial[e]
           /\ PaddedRows = Serial[routing.experts]
<1>1. routing.experts \in Nat \ {0}
  BY DEF RoutingTypes
<1>2. ASSUME NEW e \in RoutedExperts  PROVE Offset(e) = Serial[e]
  <2>1. WholeBlocks(e) \in Int
    BY DEF WholeBlocks, RoutingTypes
  <2>2. Serial[e] \in Int
    <3>1. e \in 0..routing.experts
      BY <1>1 DEF RoutedExperts
    <3>. QED  BY <3>1, SerialAdds
  <2>3. Scanned[e] = Serial[e] + WholeBlocks(e)
    BY ScanAdds, SerialAdds
  <2>. QED  BY <2>1, <2>2, <2>3 DEF Offset
<1>3. PaddedRows = Serial[routing.experts]
  <2>1. routing.experts - 1 \in RoutedExperts /\ (routing.experts - 1) + 1 = routing.experts
    BY <1>1 DEF RoutedExperts
  <2>2. Scanned[routing.experts - 1] = Serial[(routing.experts - 1) + 1]
    BY <2>1, ScanAdds
  <2>. QED  BY <2>1, <2>2 DEF PaddedRows
<1>. QED  BY <1>2, <1>3

-----------------------------------------------------------------------------
(* Sizes of sets of rows and of blocks.                                    *)

(* Rounding down to a multiple.                                            *)
LEMMA Division ==
    ASSUME NEW a \in Nat, NEW b \in Nat \ {0}
    PROVE  a \div b \in Nat /\ b * (a \div b) <= a /\ a < b * (a \div b) + b
OBVIOUS

(* Whole blocks hold their rows and less than a block more.                *)
LEMMA WholeBlocksFit ==
    ASSUME RoutingTypes, NEW e \in RoutedExperts
    PROVE  /\ WholeBlocks(e) \in Nat
           /\ routing.counts[e] <= WholeBlocks(e)
           /\ WholeBlocks(e) <= routing.counts[e] + (routing.block - 1)
<1>. DEFINE c == routing.counts[e]  b == routing.block  q == (c + b - 1) \div b
<1>1. c \in Nat /\ b \in Nat \ {0} /\ c + b - 1 \in Nat
  BY DEF RoutingTypes
<1>2. q \in Nat /\ b * q <= c + b - 1 /\ c + b - 1 < b * q + b
  BY <1>1, Division
<1>3. WholeBlocks(e) = q * b
  BY DEF WholeBlocks
<1>. HIDE DEF q, c, b
<1>4. q * b = b * q /\ q * b \in Nat
  BY <1>1, <1>2
<1>. QED  BY <1>1, <1>2, <1>3, <1>4 DEF c, b

(* The rows that select an expert below this one.                          *)
RowsBelow(e) == {row \in Routed : routing.selected[row] < e}

(* Rows of one more expert are so many more.                               *)
LEMMA RowsBelowAdd ==
    ASSUME RoutingTypes
    PROVE  /\ RoutedCount \in Nat
           /\ Cardinality(RowsBelow(0)) = 0
           /\ \A e \in Nat : /\ Cardinality(RowsBelow(e)) \in 0..RoutedCount
                             /\ Chosen(e, Routed) \in Nat
                             /\ Cardinality(RowsBelow(e + 1))
                                    = Cardinality(RowsBelow(e)) + Chosen(e, Routed)
<1>1. IsFiniteSet(Routed) /\ routing.selected \in [0..(RoutedCount - 1) -> Nat]
  BY DEF RoutingTypes
<1>2. RoutedCount \in Nat
  BY <1>1, FS_CardinalityType DEF RoutedCount
<1>0. \A row \in Routed : routing.selected[row] \in Nat
  <2>. DEFINE n == RoutedCount - 1
  <2>. HIDE DEF n
  <2>1. routing.selected \in [0..n -> Nat]
    BY <1>1 DEF n
  <2>. QED  BY <2>1 DEF Routed
<1>3. RowsBelow(0) = {}
  BY <1>0 DEF RowsBelow
<1>4. Cardinality(RowsBelow(0)) = 0
  BY <1>3, FS_EmptySet
<1>5. ASSUME NEW e \in Nat
      PROVE  /\ Cardinality(RowsBelow(e)) \in 0..RoutedCount
             /\ Chosen(e, Routed) \in Nat
             /\ Cardinality(RowsBelow(e + 1))
                    = Cardinality(RowsBelow(e)) + Chosen(e, Routed)
  <2>. DEFINE A == RowsBelow(e)  B == Choosing(routing.selected, e, Routed)
  <2>1. A \subseteq Routed /\ B \subseteq Routed
    BY DEF RowsBelow, Choosing
  <2>2. /\ IsFiniteSet(A) /\ Cardinality(A) \in Nat /\ Cardinality(A) <= RoutedCount
        /\ IsFiniteSet(B) /\ Cardinality(B) \in Nat
    BY <1>1, <2>1, FS_Subset, FS_CardinalityType DEF RoutedCount
  <2>3. A \cap B = {} /\ RowsBelow(e + 1) = A \cup B
    BY <1>0 DEF RowsBelow, Choosing
  <2>4. Cardinality(A \cup B) = Cardinality(A) + Cardinality(B) - Cardinality(A \cap B)
    BY <2>2, FS_Union
  <2>5. Cardinality(A \cap B) = 0
    BY <2>3, FS_EmptySet
  <2>6. Chosen(e, Routed) = Cardinality(B)
    BY DEF Chosen
  <2>7. RowsBelow(e) = A
    OBVIOUS
  <2>. HIDE DEF A, B
  <2>8. Cardinality(A \cup B) = Cardinality(A) + Cardinality(B)
    BY <2>2, <2>4, <2>5
  <2>9. Cardinality(A) \in 0..RoutedCount
    BY <2>2, <1>2
  <2>. QED  BY <2>2, <2>3, <2>6, <2>7, <2>8, <2>9
<1>. QED  BY <1>2, <1>4, <1>5

(* Offsets leave room for the padding of the experts before and no more.   *)
LEMMA OffsetsAreBounded ==
    ASSUME RoutingTypes,
           \A e \in RoutedExperts : routing.counts[e] <= Chosen(e, Routed)
    PROVE  \A e \in 0..routing.experts :
             /\ Serial[e] \in Nat
             /\ Serial[e] <= Cardinality(RowsBelow(e)) + e * (routing.block - 1)
<1>. DEFINE m == routing.experts  pad == routing.block - 1
            Fits(e) == /\ Serial[e] \in Nat
                       /\ Serial[e] <= Cardinality(RowsBelow(e)) + e * pad
            S == {e \in Nat : e <= m => Fits(e)}
<1>1. m \in Nat /\ pad \in Nat /\ RoutedExperts = 0..(m - 1)
  BY DEF RoutingTypes, RoutedExperts
<1>2. 0 \in S
  <2>1. Serial[0] = 0 /\ Cardinality(RowsBelow(0)) = 0 /\ 0 * pad = 0
    <3>1. Cardinality(RowsBelow(0)) = 0
      BY RowsBelowAdd
    <3>2. Serial[0] = 0
      BY SerialAdds
    <3>. QED  BY <1>1, <3>1, <3>2
  <2>. QED  BY <2>1
<1>3. ASSUME NEW e \in S  PROVE e + 1 \in S
  <2>. SUFFICES ASSUME e + 1 <= m  PROVE Fits(e + 1)
    OBVIOUS
  <2>1. e \in RoutedExperts /\ e \in Nat /\ Fits(e)
    BY <1>1
  <2>2. Serial[e + 1] = Serial[e] + WholeBlocks(e)
    BY <2>1, SerialAdds
  <2>3. WholeBlocks(e) \in Nat /\ WholeBlocks(e) <= routing.counts[e] + pad
    BY <2>1, WholeBlocksFit
  <2>4. routing.counts[e] \in Nat /\ routing.counts[e] <= Chosen(e, Routed)
    BY <2>1 DEF RoutingTypes
  <2>5. /\ Cardinality(RowsBelow(e)) \in Nat /\ Chosen(e, Routed) \in Nat
        /\ Cardinality(RowsBelow(e + 1)) = Cardinality(RowsBelow(e)) + Chosen(e, Routed)
    BY <2>1, RowsBelowAdd
  <2>6. e * pad \in Nat /\ (e + 1) * pad = e * pad + pad
    BY <1>1, <2>1
  <2>7. Serial[e] \in Nat /\ Serial[e] <= Cardinality(RowsBelow(e)) + e * pad
    BY <2>1
  <2>. DEFINE before == e * pad  after == (e + 1) * pad
  <2>. HIDE DEF pad, before, after
  <2>8. before \in Nat /\ after = before + pad /\ pad \in Nat
        /\ Serial[e] <= Cardinality(RowsBelow(e)) + before
    BY <1>1, <2>6, <2>7 DEF before, after
  <2>9. /\ Serial[e + 1] \in Nat
        /\ Serial[e + 1] <= Cardinality(RowsBelow(e + 1)) + after
    BY <2>2, <2>3, <2>4, <2>5, <2>7, <2>8
  <2>. QED  BY <2>9 DEF after
<1>. HIDE DEF S
<1>4. \A e \in Nat : e \in S
  BY <1>2, <1>3, Induction DEF S
<1>. QED  BY <1>1, <1>4 DEF S

(* Blocks before an expert, by one expert more.                            *)
LEMMA BlocksBeforeAdd ==
    ASSUME RoutingTypes
    PROVE  /\ BlocksBefore(0) = 0
           /\ \A e \in Nat : BlocksOf(e) \in Nat
           /\ \A e \in Nat : /\ BlocksBefore(e) \in Nat
                             /\ BlocksBefore(e + 1) = BlocksBefore(e) + BlocksOf(e)
<1>. DEFINE U(e) == UNION {{other} \X (1..BlocksOf(other)) : other \in 0..(e - 1)}
<1>1. ASSUME NEW e \in Nat  PROVE BlocksOf(e) \in Nat
  <2>1. Cardinality(Selecting(e)) \in Nat
    <3>1. Selecting(e) = Choosing(routing.selected, e, Routed)
      BY DEF Selecting, Choosing
    <3>. QED  BY <3>1, RowsBelowAdd DEF Chosen
  <2>. DEFINE c == Cardinality(Selecting(e))
  <2>2. routing.block \in Nat \ {0} /\ c + routing.block - 1 \in Nat
    BY <2>1 DEF RoutingTypes
  <2>. HIDE DEF c
  <2>. QED  BY <2>2, Division DEF BlocksOf, c
<1>2. U(0) = {}
  OBVIOUS
<1>3. BlocksBefore(0) = 0
  BY <1>2, FS_EmptySet DEF BlocksBefore
<1>4. ASSUME NEW e \in Nat
      PROVE  /\ U(e + 1) = U(e) \cup ({e} \X (1..BlocksOf(e)))
             /\ U(e) \cap ({e} \X (1..BlocksOf(e))) = {}
             /\ IsFiniteSet({e} \X (1..BlocksOf(e)))
             /\ Cardinality({e} \X (1..BlocksOf(e))) = BlocksOf(e)
  <2>1. 0..((e + 1) - 1) = 0..(e - 1) \cup {e} /\ e \notin 0..(e - 1)
    OBVIOUS
  <2>2. U(e + 1) = U(e) \cup ({e} \X (1..BlocksOf(e)))
    BY <2>1
  <2>3. U(e) \cap ({e} \X (1..BlocksOf(e))) = {}
    BY <2>1
  <2>4. /\ IsFiniteSet(1..BlocksOf(e)) /\ Cardinality(1..BlocksOf(e)) = BlocksOf(e)
        /\ IsFiniteSet({e}) /\ Cardinality({e}) = 1
    <3>1. BlocksOf(e) \in Int /\ BlocksOf(e) \in Nat /\ 1 \in Int
      BY <1>1
    <3>2. /\ IsFiniteSet(1..BlocksOf(e))
          /\ Cardinality(1..BlocksOf(e)) =
                 IF 1 > BlocksOf(e) THEN 0 ELSE BlocksOf(e) - 1 + 1
      BY <3>1, FS_Interval, Zenon
    <3>3. IsFiniteSet({e}) /\ Cardinality({e}) = 1
      BY FS_Singleton
    <3>. QED  BY <3>1, <3>2, <3>3
  <2>5. /\ IsFiniteSet({e} \X (1..BlocksOf(e)))
        /\ Cardinality({e} \X (1..BlocksOf(e))) = 1 * BlocksOf(e)
    BY <2>4, FS_Product
  <2>. QED  BY <2>2, <2>3, <2>5, <1>1
<1>. HIDE DEF U
<1>5. \A e \in Nat : IsFiniteSet(U(e))
  <2>. DEFINE S == {e \in Nat : IsFiniteSet(U(e))}
  <2>1. 0 \in S
    BY <1>2, FS_EmptySet
  <2>2. ASSUME NEW e \in S  PROVE e + 1 \in S
    <3>1. e \in Nat /\ IsFiniteSet(U(e))
      OBVIOUS
    <3>. DEFINE A == U(e)  B == {e} \X (1..BlocksOf(e))
    <3>2. IsFiniteSet(A) /\ IsFiniteSet(B) /\ U(e + 1) = A \cup B
      BY <3>1, <1>4
    <3>. HIDE DEF A, B
    <3>3. IsFiniteSet(A \cup B)
      BY <3>2, FS_Union
    <3>. QED  BY <3>1, <3>2, <3>3
  <2>. HIDE DEF S
  <2>3. \A e \in Nat : e \in S
    BY <2>1, <2>2, Induction DEF S
  <2>. QED  BY <2>3 DEF S
<1>6. ASSUME NEW e \in Nat
      PROVE  /\ BlocksBefore(e) \in Nat
             /\ BlocksBefore(e + 1) = BlocksBefore(e) + BlocksOf(e)
  <2>1. BlocksBefore(e) = Cardinality(U(e)) /\ BlocksBefore(e + 1) = Cardinality(U(e + 1))
    BY DEF BlocksBefore, U
  <2>2. IsFiniteSet(U(e)) /\ Cardinality(U(e)) \in Nat
    BY <1>5, FS_CardinalityType
  <2>3. Cardinality(U(e + 1)) = Cardinality(U(e)) + BlocksOf(e) - Cardinality({})
    <3>. DEFINE A == U(e)  B == {e} \X (1..BlocksOf(e))
    <3>1. /\ IsFiniteSet(A) /\ IsFiniteSet(B) /\ U(e + 1) = A \cup B /\ A \cap B = {}
          /\ Cardinality(B) = BlocksOf(e) /\ A = U(e)
      BY <2>2, <1>4
    <3>. HIDE DEF A, B
    <3>2. Cardinality(A \cup B) = Cardinality(A) + Cardinality(B) - Cardinality(A \cap B)
      BY <3>1, FS_Union
    <3>. QED  BY <3>1, <3>2
  <2>4. Cardinality({}) = 0
    BY FS_EmptySet
  <2>. QED  BY <1>1, <2>1, <2>2, <2>3, <2>4
<1>. QED  BY <1>1, <1>3, <1>6

-----------------------------------------------------------------------------
(* Steps of the kernel keep its bounds.                                    *)

(* No rows, one row more, all rows.                                        *)
LEMMA ChoosingGrows ==
    ASSUME NEW all, IsFiniteSet(all), NEW rows \in SUBSET all, NEW selected, NEW e
    PROVE  /\ Cardinality(Choosing(selected, e, {})) = 0
           /\ Cardinality(Choosing(selected, e, rows)) \in Nat
           /\ Cardinality(Choosing(selected, e, rows))
                  <= Cardinality(Choosing(selected, e, all))
           /\ \A row \in all \ rows :
                Cardinality(Choosing(selected, e, rows \cup {row}))
                    = Cardinality(Choosing(selected, e, rows))
                          + (IF selected[row] = e THEN 1 ELSE 0)
<1>1. Choosing(selected, e, {}) = {}
  BY DEF Choosing
<1>2. Cardinality(Choosing(selected, e, {})) = 0
  BY <1>1, FS_EmptySet
<1>. DEFINE A == Choosing(selected, e, rows)  B == Choosing(selected, e, all)
<1>3. B \subseteq all /\ A \in SUBSET B
  BY DEF Choosing
<1>4. IsFiniteSet(B)
  BY <1>3, FS_Subset
<1>5. IsFiniteSet(A) /\ Cardinality(A) <= Cardinality(B)
  <2>. HIDE DEF A, B
  <2>. QED  BY <1>3, <1>4, FS_Subset
<1>6. Cardinality(A) \in Nat
  BY <1>5, FS_CardinalityType
<1>7. ASSUME NEW row \in all \ rows
      PROVE  Cardinality(Choosing(selected, e, rows \cup {row}))
                 = Cardinality(A) + (IF selected[row] = e THEN 1 ELSE 0)
  <2>1. CASE selected[row] = e
    <3>1. Choosing(selected, e, rows \cup {row}) = A \cup {row} /\ row \notin A
      BY <2>1 DEF Choosing
    <3>. HIDE DEF A
    <3>. QED  BY <2>1, <3>1, <1>5, FS_AddElement
  <2>2. CASE selected[row] # e
    <3>1. Choosing(selected, e, rows \cup {row}) = A
      BY <2>2 DEF Choosing
    <3>. QED  BY <2>2, <3>1, <1>6
  <2>. QED  BY <2>1, <2>2
<1>. QED  BY <1>2, <1>5, <1>6, <1>7

(* Experts are numbers.                                                    *)
LEMMA ExpertsAreNumbers ==
    ASSUME RoutingTypes, NEW e \in RoutedExperts  PROVE e \in Nat
BY DEF RoutingTypes, RoutedExperts

(* Rows select numbers.                                                    *)
LEMMA SelectedExpert ==
    ASSUME RoutingTypes, NEW row \in Routed  PROVE routing.selected[row] \in Nat
<1>. DEFINE n == RoutedCount - 1
<1>. HIDE DEF n
<1>1. routing.selected \in [0..n -> Nat]
  BY DEF n, RoutingTypes
<1>. QED  BY <1>1 DEF Routed

(* What the steps between beginning and end do not touch.                  *)
SameRows == /\ DOMAIN routing' = Fields
            /\ routing'.selected = routing.selected
            /\ routing'.experts = routing.experts /\ routing'.block = routing.block

LEMMA SameSizes ==
    ASSUME SameRows
    PROVE  /\ Routed' = Routed /\ RoutedCount' = RoutedCount
           /\ RoutedExperts' = RoutedExperts /\ Buffer' = Buffer
BY DEF SameRows, Routed, RoutedCount, RoutedExperts, Buffer

(* A launch.                                                               *)
LEMMA BeginKeepsBounds ==
    ASSUME NEW selected, NEW experts \in Nat \ {0}, NEW block \in Nat \ {0},
           IsFiniteSet(DOMAIN selected),
           selected \in [0..(Cardinality(DOMAIN selected) - 1) -> Nat],
           BeginRoutes(selected, experts, block)
    PROVE  BoundsInv' /\ routing'.phase = "count"
<1>1. /\ DOMAIN routing' = Fields
      /\ routing'.phase = "count" /\ routing'.selected = selected
      /\ routing'.experts = experts /\ routing'.block = block
      /\ routing'.zeroed = {} /\ routing'.counted = {} /\ routing'.placed = {}
      /\ routing'.counts = [e \in 0..(experts - 1) |-> 0]
      /\ routing'.offsets = [e \in 0..(experts - 1) |-> 0]
      /\ routing'.ranks = [e \in 0..(experts - 1) |-> 0]
      /\ routing'.sorted = [i \in 0..(Capacity(Cardinality(DOMAIN selected),
                                               experts, block) - 1)
                              |-> Cardinality(DOMAIN selected)]
  BY DEF BeginRoutes, Fields
<1>2. /\ Routed' = DOMAIN selected /\ RoutedCount' = Cardinality(DOMAIN selected)
      /\ RoutedExperts' = 0..(experts - 1)
      /\ Buffer' = 0..((RoutedCount' + experts * (block - 1)) - 1)
  BY <1>1 DEF Routed, RoutedCount, RoutedExperts, Buffer
<1>3. routing'.sorted = [i \in Buffer' |-> RoutedCount']
  <2>. DEFINE filler == Cardinality(DOMAIN selected)
  <2>1. /\ Buffer' = 0..((RoutedCount' + experts * (block - 1)) - 1)
        /\ RoutedCount' = filler
        /\ routing'.sorted = [i \in 0..(Capacity(filler, experts, block) - 1) |-> filler]
    BY <1>1, <1>2
  <2>. HIDE DEF filler
  <2>. DEFINE places == 0..(Capacity(filler, experts, block) - 1)
  <2>2. Buffer' = 0..((filler + experts * (block - 1)) - 1)
    BY <2>1, Zenon
  <2>3. Buffer' = places
    BY <2>2, Zenon DEF Capacity
  <2>4. routing'.sorted = [i \in places |-> filler]
    BY <2>1
  <2>. HIDE DEF places
  <2>. QED  BY <2>1, <2>3, <2>4
<1>4. RoutingTypes'
  BY <1>1, <1>2, <1>3 DEF RoutingTypes
<1>5. \A e : Chosen(e, routing.counted)' = 0 /\ Chosen(e, routing.placed)' = 0
  BY <1>1, ChoosingGrows, FS_EmptySet DEF Chosen
<1>6. CountsAreOfRows' /\ RanksArePlaced'
  BY <1>1, <1>2, <1>5 DEF CountsAreOfRows, RanksArePlaced
<1>7. NothingIsPlaced'
  BY <1>1, <1>3 DEF NothingIsPlaced
<1>8. OffsetsFit'
  BY <1>1 DEF OffsetsFit
<1>. QED  BY <1>1, <1>4, <1>6, <1>7, <1>8 DEF BoundsInv

(* A count is zeroed, perhaps after rows were counted.                     *)
LEMMA ZeroKeepsBounds ==
    ASSUME BoundsInv, NEW e \in RoutedExperts, ZeroCount(e)
    PROVE  BoundsInv' /\ routing'.phase = "count"
<1>. USE DEF BoundsInv
<1>1. /\ SameRows /\ routing'.phase = "count"
      /\ routing'.zeroed = routing.zeroed \cup {e}
      /\ routing'.counts = [routing.counts EXCEPT ![e] = 0]
      /\ UNCHANGED <<routing.counted, routing.offsets, routing.ranks,
                     routing.placed, routing.sorted, routing.blocks>>
  BY DEF ZeroCount, SameRows, RoutingTypes, Fields
<1>2. /\ Routed' = Routed /\ RoutedCount' = RoutedCount
      /\ RoutedExperts' = RoutedExperts /\ Buffer' = Buffer
  BY <1>1, SameSizes
<1>3. RoutingTypes'
  BY <1>1, <1>2 DEF RoutingTypes, SameRows
<1>4. \A d : /\ Chosen(d, routing.counted)' = Chosen(d, routing.counted)
             /\ Chosen(d, routing.placed)' = Chosen(d, routing.placed)
  BY <1>1 DEF Chosen, SameRows
<1>5. \A d \in RoutedExperts : Chosen(d, routing.counted) \in Nat
  BY ChoosingGrows DEF Chosen, RoutingTypes
<1>6. CountsAreOfRows'
  BY <1>1, <1>2, <1>4, <1>5 DEF CountsAreOfRows, RoutingTypes
<1>7. RanksArePlaced'
  BY <1>1, <1>2, <1>4 DEF RanksArePlaced
<1>8. NothingIsPlaced' /\ OffsetsFit'
  BY <1>1, <1>2 DEF NothingIsPlaced, OffsetsFit, ZeroCount
<1>. QED  BY <1>1, <1>3, <1>6, <1>7, <1>8

(* A row is counted.                                                       *)
LEMMA CountKeepsBounds ==
    ASSUME BoundsInv, NEW row \in Routed, CountRow(row)
    PROVE  BoundsInv' /\ routing'.phase = "count"
<1>. USE DEF BoundsInv
<1>1. /\ SameRows /\ routing'.phase = "count"
      /\ routing'.counted = routing.counted \cup {row} /\ row \notin routing.counted
      /\ routing'.counts = IF Known(row)
            THEN [routing.counts EXCEPT ![routing.selected[row]] = @ + 1]
            ELSE routing.counts
      /\ UNCHANGED <<routing.zeroed, routing.offsets, routing.ranks,
                     routing.placed, routing.sorted, routing.blocks>>
  <2>. DEFINE counts == IF Known(row)
            THEN [routing.counts EXCEPT ![routing.selected[row]] = @ + 1]
            ELSE routing.counts
  <2>1. DOMAIN routing = Fields /\ routing.phase = "count" /\ row \notin routing.counted
    BY DEF CountRow, RoutingTypes
  <2>2. /\ SameRows /\ routing'.phase = "count"
        /\ routing'.counted = routing.counted \cup {row}
        /\ UNCHANGED <<routing.zeroed, routing.offsets, routing.ranks,
                       routing.placed, routing.sorted, routing.blocks>>
    BY <2>1 DEF CountRow, SameRows, Fields
  <2>3. routing'.counts = counts
    BY <2>1 DEF CountRow, Fields
  <2>. QED  BY <2>1, <2>2, <2>3 DEF counts
<1>2. /\ Routed' = Routed /\ RoutedCount' = RoutedCount
      /\ RoutedExperts' = RoutedExperts /\ Buffer' = Buffer
  BY <1>1, SameSizes
<1>3. RoutingTypes'
  <2>1. routing'.counts \in [RoutedExperts -> Nat]
    <3>1. routing.counts \in [RoutedExperts -> Nat]
      BY DEF RoutingTypes
    <3>2. CASE Known(row)
      <4>1. routing.selected[row] \in RoutedExperts
        BY <3>2, SelectedExpert DEF RoutedExperts, RoutingTypes, Known
      <4>. QED  BY <3>1, <3>2, <4>1, <1>1
    <3>. QED  BY <3>1, <3>2, <1>1
  <2>. QED  BY <1>1, <1>2, <2>1 DEF RoutingTypes, SameRows
<1>4. \A d : /\ Chosen(d, routing.placed)' = Chosen(d, routing.placed)
             /\ Chosen(d, routing.counted)'
                    = Chosen(d, routing.counted \cup {row})
  BY <1>1 DEF Chosen, SameRows
<1>5. ASSUME NEW d
      PROVE  /\ Chosen(d, routing.counted) \in Nat
             /\ Chosen(d, routing.counted \cup {row}) = Chosen(d, routing.counted)
                    + (IF routing.selected[row] = d THEN 1 ELSE 0)
  <2>. DEFINE all == Routed  rows == routing.counted
  <2>1. IsFiniteSet(all) /\ rows \in SUBSET all /\ row \in all \ rows
    BY <1>1 DEF RoutingTypes
  <2>. HIDE DEF all, rows
  <2>2. /\ Cardinality(Choosing(routing.selected, d, rows)) \in Nat
        /\ Cardinality(Choosing(routing.selected, d, rows \cup {row}))
              = Cardinality(Choosing(routing.selected, d, rows))
                    + (IF routing.selected[row] = d THEN 1 ELSE 0)
    BY <2>1, ChoosingGrows
  <2>. QED  BY <2>2 DEF Chosen, rows
<1>6. CountsAreOfRows'
  <2>. SUFFICES ASSUME NEW d \in RoutedExperts
                PROVE  routing'.counts[d] <= Chosen(d, routing.counted)'
    BY <1>2 DEF CountsAreOfRows
  <2>1. routing.counts[d] \in Nat /\ routing.counts[d] <= Chosen(d, routing.counted)
    BY DEF CountsAreOfRows, RoutingTypes
  <2>2. routing'.counts[d] = routing.counts[d]
            \/ (routing.selected[row] = d /\ routing'.counts[d] = routing.counts[d] + 1)
    BY <1>1 DEF RoutingTypes
  <2>3. Chosen(d, routing.counted) \in Nat
    BY <1>5
  <2>4. Chosen(d, routing.counted)' = Chosen(d, routing.counted)
                    + (IF routing.selected[row] = d THEN 1 ELSE 0)
    BY <1>4, <1>5
  <2>. DEFINE was == Chosen(d, routing.counted)  now == Chosen(d, routing.counted)'
  <2>. HIDE DEF was, now
  <2>5. /\ was \in Nat /\ routing.counts[d] <= was
        /\ now = was + (IF routing.selected[row] = d THEN 1 ELSE 0)
    BY <2>1, <2>3, <2>4 DEF was, now
  <2>6. routing'.counts[d] <= now
    BY <2>1, <2>2, <2>5
  <2>. QED  BY <2>6 DEF now
<1>7. RanksArePlaced'
  BY <1>1, <1>2, <1>4 DEF RanksArePlaced
<1>8. NothingIsPlaced' /\ OffsetsFit'
  BY <1>1, <1>2 DEF NothingIsPlaced, OffsetsFit, CountRow
<1>. QED  BY <1>1, <1>3, <1>6, <1>7, <1>8

(* Products grow.                                                          *)
LEMMA TimesGrows ==
    ASSUME NEW a \in Nat, NEW b \in Nat, NEW c \in Nat, a <= b
    PROVE  a * c \in Nat /\ b * c \in Nat /\ a * c <= b * c
<1>. DEFINE d == b - a
<1>1. d \in Nat /\ b = a + d
  OBVIOUS
<1>2. (a + d) * c = a * c + d * c /\ a * c \in Nat /\ d * c \in Nat
  BY <1>1
<1>. HIDE DEF d
<1>. DEFINE ac == a * c  dc == d * c
<1>3. (a + d) * c = ac + dc /\ ac \in Nat /\ dc \in Nat
  BY <1>2
<1>4. b * c = ac + dc
  BY <1>1, <1>3
<1>. HIDE DEF ac, dc
<1>5. b * c \in Nat /\ ac <= b * c
  BY <1>3, <1>4
<1>. QED  BY <1>3, <1>5 DEF ac

(* What is in the buffer, and how much.                                    *)
LEMMA BufferSize ==
    ASSUME RoutingTypes
    PROVE  /\ RoutedCount + routing.experts * (routing.block - 1) \in Nat
           /\ Cardinality(Buffer) = RoutedCount + routing.experts * (routing.block - 1)
           /\ \A i \in Nat : i < RoutedCount + routing.experts * (routing.block - 1)
                                <=> i \in Buffer
<1>. DEFINE padding == routing.experts * (routing.block - 1)  size == RoutedCount + padding
<1>1. padding \in Nat
  <2>1. routing.experts \in Nat /\ routing.block - 1 \in Nat
    BY DEF RoutingTypes
  <2>. QED  BY <2>1, TimesGrows
<1>2. RoutedCount \in Nat
  BY RowsBelowAdd
<1>. HIDE DEF padding
<1>3. size \in Nat
  BY <1>1, <1>2
<1>4. Buffer = 0..(size - 1)
  BY DEF Buffer, padding
<1>. HIDE DEF size
<1>5. Cardinality(0..(size - 1)) = size
  <2>. DEFINE top == size - 1
  <2>1. top \in Int /\ 0 \in Int
    BY <1>3
  <2>. HIDE DEF top
  <2>2. Cardinality(0..top) = IF 0 > top THEN 0 ELSE top - 0 + 1
    BY <2>1, FS_Interval, Zenon
  <2>. QED  BY <2>1, <2>2, <1>3 DEF top
<1>6. \A i \in Nat : i < size <=> i \in 0..(size - 1)
  BY <1>3
<1>. QED  BY <1>3, <1>4, <1>5, <1>6 DEF size, padding

(* Blocks are placed when all rows are counted.                            *)
LEMMA BlocksKeepBounds ==
    ASSUME BoundsInv, PlaceBlocks
    PROVE  BoundsInv' /\ routing'.phase = "place"
<1>. USE DEF BoundsInv
<1>. DEFINE pad == routing.block - 1  m == routing.experts
<1>1. /\ SameRows /\ routing'.phase = "place"
      /\ routing'.offsets = [e \in RoutedExperts |-> Offset(e)]
      /\ routing'.blocks = [i \in 1..(PaddedRows \div routing.block) |->
                               BlockExpert(i - 1)]
      /\ UNCHANGED <<routing.zeroed, routing.counted, routing.counts, routing.ranks,
                     routing.placed, routing.sorted>>
  BY DEF PlaceBlocks, SameRows, RoutingTypes, Fields
<1>2. /\ Routed' = Routed /\ RoutedCount' = RoutedCount
      /\ RoutedExperts' = RoutedExperts /\ Buffer' = Buffer
  BY <1>1, SameSizes
<1>3. routing.counted = Routed
  BY DEF PlaceBlocks
<1>4. \A e \in RoutedExperts : routing.counts[e] <= Chosen(e, Routed)
  BY <1>3 DEF CountsAreOfRows
<1>5. \A e \in 0..m : /\ Serial[e] \in Nat
                      /\ Serial[e] <= Cardinality(RowsBelow(e)) + e * pad
  BY <1>4, OffsetsAreBounded
<1>6. /\ \A e \in RoutedExperts : routing'.offsets[e] = Serial[e]
      /\ PaddedRows = Serial[m]
  BY <1>1, OffsetsAdd
<1>7. m \in Nat \ {0} /\ pad \in Nat /\ RoutedExperts = 0..(m - 1)
  BY DEF RoutingTypes, RoutedExperts
<1>. HIDE DEF pad, m
<1>8. RoutingTypes'
  <2>1. \A e \in RoutedExperts : e \in 0..m
    BY <1>7
  <2>2. routing'.offsets \in [RoutedExperts -> Nat]
    BY <1>1, <1>5, <1>6, <2>1
  <2>. QED  BY <1>1, <1>2, <2>2 DEF RoutingTypes, SameRows
<1>10. CountsAreOfRows' /\ RanksArePlaced'
  BY <1>1, <1>2 DEF CountsAreOfRows, RanksArePlaced, Chosen, SameRows
<1>11. NothingIsPlaced'
  BY <1>1 DEF NothingIsPlaced
<1>12. m * pad \in Nat /\ \A e \in 0..m : e * pad \in Nat /\ e * pad <= m * pad
  <2>1. m \in Nat /\ \A e \in 0..m : e \in Nat /\ e <= m
    BY <1>7
  <2>. QED  BY <2>1, <1>7, TimesGrows
<1>13. RoutedCount \in Nat
  BY RowsBelowAdd
<1>14. ASSUME NEW e \in RoutedExperts
       PROVE  Serial[e] + Chosen(e, Routed) <= RoutedCount + m * pad
  <2>1. e \in Nat /\ e + 1 \in Nat /\ e \in 0..m
    BY <1>7
  <2>2. /\ Cardinality(RowsBelow(e)) \in Nat /\ Chosen(e, Routed) \in Nat
        /\ Cardinality(RowsBelow(e)) + Chosen(e, Routed) <= RoutedCount
    <3>1. /\ Cardinality(RowsBelow(e)) \in 0..RoutedCount /\ Chosen(e, Routed) \in Nat
          /\ Cardinality(RowsBelow(e + 1)) = Cardinality(RowsBelow(e)) + Chosen(e, Routed)
          /\ Cardinality(RowsBelow(e + 1)) \in 0..RoutedCount
      BY <2>1, RowsBelowAdd
    <3>. QED  BY <3>1, <1>13
  <2>. DEFINE here == e * pad  all == m * pad
  <2>3. here \in Nat /\ all \in Nat /\ here <= all
    BY <2>1, <1>12
  <2>4. Serial[e] \in Nat /\ Serial[e] <= Cardinality(RowsBelow(e)) + here
    BY <2>1, <1>5
  <2>. HIDE DEF here, all
  <2>5. Serial[e] + Chosen(e, Routed) <= RoutedCount + all
    BY <2>2, <2>3, <2>4, <1>13
  <2>. QED  BY <2>5 DEF all
<1>15. /\ PaddedRows \in Nat /\ PaddedRows \div routing.block \in Nat
       /\ (PaddedRows \div routing.block) * routing.block <= RoutedCount + m * pad
  <2>1. m \in Nat /\ m \in 0..m
    BY <1>7
  <2>2. Cardinality(RowsBelow(m)) \in Nat /\ Cardinality(RowsBelow(m)) <= RoutedCount
    BY <2>1, <1>13, RowsBelowAdd
  <2>. DEFINE all == m * pad  rows == PaddedRows  block == routing.block
  <2>3. rows \in Nat /\ rows <= Cardinality(RowsBelow(m)) + all /\ all \in Nat
    BY <2>1, <1>5, <1>6, <1>12
  <2>4. block \in Nat \ {0}
    BY DEF RoutingTypes
  <2>. HIDE DEF all, rows, block
  <2>5. rows <= RoutedCount + all
    BY <2>2, <2>3, <1>13
  <2>. DEFINE q == rows \div block
  <2>6. q \in Nat /\ block * q <= rows
    BY <2>3, <2>4, Division
  <2>. HIDE DEF q
  <2>7. q * block = block * q /\ q * block \in Nat
    BY <2>4, <2>6
  <2>8. q * block <= RoutedCount + all
    BY <2>3, <2>5, <2>6, <2>7, <1>13
  <2>. QED  BY <2>3, <2>6, <2>8 DEF all, rows, block, q
<1>16. Len(routing'.blocks) = PaddedRows \div routing.block
  BY <1>1, <1>15
<1>17. OffsetsFit'
  <2>1. /\ \A e \in RoutedExperts : routing'.offsets[e] + Chosen(e, Routed)
                                        <= RoutedCount + m * pad
        /\ Len(routing'.blocks) * routing.block <= RoutedCount + m * pad
    BY <1>6, <1>14, <1>15, <1>16
  <2>2. \A e : Chosen(e, Routed)' = Chosen(e, Routed)
    BY <1>1, <1>2 DEF Chosen, SameRows
  <2>3. routing'.experts = m /\ routing'.block - 1 = pad /\ routing'.block = routing.block
    BY <1>1 DEF SameRows, m, pad
  <2>. QED  BY <2>1, <2>2, <2>3, <1>2 DEF OffsetsFit
<1>. QED  BY <1>1, <1>8, <1>10, <1>11, <1>17

(* Rows that are sorted stay where they fit.                               *)
LEMMA SortKeepsBounds ==
    ASSUME BoundsInv, SortRows
    PROVE  BoundsInv' /\ routing'.phase = "done"
<1>. USE DEF BoundsInv
<1>1. /\ SameRows /\ routing'.phase = "done"
      /\ DOMAIN routing'.sorted = DOMAIN routing.sorted
      /\ UNCHANGED <<routing.zeroed, routing.counted, routing.counts, routing.offsets,
                     routing.ranks, routing.placed, routing.blocks>>
  BY DEF SortRows, SameRows, RoutingTypes, Fields
<1>2. /\ Routed' = Routed /\ RoutedCount' = RoutedCount
      /\ RoutedExperts' = RoutedExperts /\ Buffer' = Buffer
  BY <1>1, SameSizes
<1>3. RoutingTypes'
  BY <1>1, <1>2 DEF RoutingTypes, SameRows
<1>4. CountsAreOfRows' /\ RanksArePlaced'
  BY <1>1, <1>2 DEF CountsAreOfRows, RanksArePlaced, Chosen, SameRows
<1>5. NothingIsPlaced'
  BY <1>1 DEF NothingIsPlaced
<1>6. OffsetsFit'
  <2>1. \A e : Chosen(e, Routed)' = Chosen(e, Routed)
    BY <1>1, <1>2 DEF Chosen, SameRows
  <2>. QED  BY <1>1, <1>2, <2>1 DEF OffsetsFit, SameRows, SortRows
<1>. QED  BY <1>1, <1>3, <1>4, <1>5, <1>6

(* A row that its expert has yet to place has a place in the buffer.       *)
LEMMA PlaceFits ==
    ASSUME BoundsInv, routing.phase = "place",
           NEW row \in Routed \ routing.placed, Known(row)
    PROVE  /\ routing.selected[row] \in RoutedExperts
           /\ routing.ranks[routing.selected[row]]
                  < Chosen(routing.selected[row], Routed)
           /\ PlaceOf(row) \in Buffer
<1>. USE DEF BoundsInv
<1>. DEFINE e == routing.selected[row]
<1>1. e \in RoutedExperts
  BY SelectedExpert DEF RoutedExperts, RoutingTypes, Known
<1>2. IsFiniteSet(Routed) /\ routing.placed \subseteq Routed
  BY DEF RoutingTypes
<1>3. /\ Chosen(e, routing.placed) \in Nat
      /\ Chosen(e, routing.placed \cup {row}) = Chosen(e, routing.placed) + 1
      /\ Chosen(e, routing.placed \cup {row}) <= Chosen(e, Routed)
  <2>. DEFINE all == Routed  rows == routing.placed  more == rows \cup {row}
  <2>1. IsFiniteSet(all) /\ rows \in SUBSET all /\ row \in all \ rows
        /\ more \in SUBSET all /\ more = rows \cup {row} /\ e = routing.selected[row]
    BY <1>2
  <2>. HIDE DEF all, rows, more
  <2>2. /\ Cardinality(Choosing(routing.selected, e, rows)) \in Nat
        /\ Cardinality(Choosing(routing.selected, e, more))
              <= Cardinality(Choosing(routing.selected, e, all))
        /\ Cardinality(Choosing(routing.selected, e, more))
              = Cardinality(Choosing(routing.selected, e, rows)) + 1
    <3>. HIDE DEF e
    <3>. QED  BY <2>1, ChoosingGrows
  <2>. QED  BY <2>1, <2>2 DEF Chosen, all, rows
<1>4. routing.ranks[e] \in Nat /\ routing.ranks[e] < Chosen(e, Routed)
      /\ Chosen(e, Routed) \in Nat
  <2>1. routing.ranks[e] = Chosen(e, routing.placed)
    BY <1>1 DEF RanksArePlaced
  <2>2. Chosen(e, Routed) \in Nat
    BY <1>1, RowsBelowAdd, ExpertsAreNumbers
  <2>. QED  BY <1>3, <2>1, <2>2
<1>5. PlaceOf(row) = routing.offsets[e] + routing.ranks[e]
  BY DEF PlaceOf
<1>6. routing.offsets[e] \in Nat
  BY <1>1 DEF RoutingTypes
<1>. DEFINE size == RoutedCount + routing.experts * (routing.block - 1)
<1>7. routing.offsets[e] + Chosen(e, Routed) <= size /\ size \in Nat
  BY <1>1, BufferSize DEF OffsetsFit
<1>. HIDE DEF size, e
<1>8. PlaceOf(row) \in Nat /\ PlaceOf(row) < size
  BY <1>4, <1>5, <1>6, <1>7
<1>9. PlaceOf(row) \in Buffer
  BY <1>8, BufferSize DEF size
<1>. QED  BY <1>1, <1>4, <1>9 DEF e

(* A row is placed.                                                        *)
LEMMA PlaceKeepsBounds ==
    ASSUME BoundsInv, NEW row \in Routed, PlaceRow(row)
    PROVE  BoundsInv' /\ routing'.phase = "place"
<1>. USE DEF BoundsInv
<1>. DEFINE e == routing.selected[row]
<1>1. routing.phase = "place" /\ row \in Routed \ routing.placed
  BY DEF PlaceRow
<1>2. /\ SameRows /\ routing'.phase = "place"
      /\ routing'.placed = routing.placed \cup {row}
      /\ routing'.ranks = IF Known(row) THEN [routing.ranks EXCEPT ![e] = @ + 1]
                          ELSE routing.ranks
      /\ routing'.sorted = IF Known(row)
                           THEN [routing.sorted EXCEPT ![PlaceOf(row)] = row]
                           ELSE routing.sorted
      /\ UNCHANGED <<routing.zeroed, routing.counted, routing.counts, routing.offsets,
                     routing.blocks>>
  <2>1. CASE Known(row)
    BY <2>1, <1>1 DEF PlaceRow, SameRows, RoutingTypes, Fields
  <2>2. CASE ~Known(row)
    BY <2>2, <1>1 DEF PlaceRow, SameRows, RoutingTypes, Fields
  <2>. QED  BY <2>1, <2>2
<1>3. /\ Routed' = Routed /\ RoutedCount' = RoutedCount
      /\ RoutedExperts' = RoutedExperts /\ Buffer' = Buffer
  BY <1>2, SameSizes
<1>4. RoutingTypes'
  <2>1. routing.ranks \in [RoutedExperts -> Nat] /\ DOMAIN routing.sorted = Buffer
    BY DEF RoutingTypes
  <2>2. routing'.ranks \in [RoutedExperts -> Nat] /\ DOMAIN routing'.sorted = Buffer
    <3>1. CASE Known(row)
      BY <2>1, <3>1, <1>1, <1>2, PlaceFits
    <3>2. CASE ~Known(row)
      BY <2>1, <3>2, <1>2
    <3>. QED  BY <3>1, <3>2
  <2>. QED  BY <1>2, <1>3, <2>2 DEF RoutingTypes, SameRows
<1>5. CountsAreOfRows'
  BY <1>2, <1>3 DEF CountsAreOfRows, Chosen, SameRows
<1>6. RanksArePlaced'
  <2>. SUFFICES ASSUME NEW d \in RoutedExperts
                PROVE  routing'.ranks[d] = Chosen(d, routing.placed)'
    BY <1>3 DEF RanksArePlaced
  <2>. DEFINE all == Routed  rows == routing.placed  was == Chosen(d, routing.placed)
  <2>1. IsFiniteSet(all) /\ rows \in SUBSET all /\ row \in all \ rows
    BY <1>1 DEF RoutingTypes
  <2>2. was = Cardinality(Choosing(routing.selected, d, rows))
    BY DEF Chosen
  <2>3. Chosen(d, routing.placed)'
            = Cardinality(Choosing(routing.selected, d, rows \cup {row}))
    BY <1>2 DEF Chosen, SameRows
  <2>. HIDE DEF all, rows, was
  <2>4. Chosen(d, routing.placed)' = was + (IF e = d THEN 1 ELSE 0) /\ was \in Nat
    BY <2>1, <2>2, <2>3, ChoosingGrows
  <2>5. routing.ranks[d] = was
    BY DEF RanksArePlaced, was
  <2>6. DOMAIN routing.ranks = RoutedExperts
    BY DEF RoutingTypes
  <2>7. CASE Known(row)
    BY <2>4, <2>5, <2>6, <2>7, <1>2
  <2>8. CASE ~Known(row)
    <3>1. e # d
      BY <2>8, SelectedExpert DEF RoutedExperts, RoutingTypes, Known
    <3>. QED  BY <2>4, <2>5, <2>8, <3>1, <1>2
  <2>. QED  BY <2>7, <2>8
<1>7. NothingIsPlaced'
  BY <1>2 DEF NothingIsPlaced
<1>8. OffsetsFit'
  <2>1. \A d : Chosen(d, Routed)' = Chosen(d, Routed)
    BY <1>2, <1>3 DEF Chosen, SameRows
  <2>. QED  BY <1>1, <1>2, <1>3, <2>1 DEF OffsetsFit, SameRows
<1>. QED  BY <1>2, <1>4, <1>5, <1>6, <1>7, <1>8

(* What the bounds are for.                                                *)
LEMMA BoundsSuffice == BoundsInv => RoutesStayInBounds
<1>. SUFFICES ASSUME BoundsInv, routing.phase = "place"
              PROVE  /\ \A row \in Routed \ routing.placed :
                          Known(row) => PlaceOf(row) \in DOMAIN routing.sorted
                     /\ \A e \in RoutedExperts :
                          routing.counts[e] > 0 =>
                              routing.offsets[e] + routing.counts[e] - 1
                                  \in DOMAIN routing.sorted
                     /\ Len(routing.blocks) * routing.block
                            <= Cardinality(DOMAIN routing.sorted)
  BY DEF RoutesStayInBounds
<1>. USE DEF BoundsInv
<1>. DEFINE size == RoutedCount + routing.experts * (routing.block - 1)
<1>1. DOMAIN routing.sorted = Buffer
  BY DEF RoutingTypes
<1>2. \A row \in Routed \ routing.placed :
          Known(row) => PlaceOf(row) \in DOMAIN routing.sorted
  BY <1>1, PlaceFits
<1>3. ASSUME NEW e \in RoutedExperts, routing.counts[e] > 0
      PROVE  routing.offsets[e] + routing.counts[e] - 1 \in DOMAIN routing.sorted
  <2>. DEFINE count == routing.counts[e]  from == routing.offsets[e]
  <2>1. count \in Nat /\ from \in Nat /\ count > 0
    BY <1>3 DEF RoutingTypes
  <2>2. count <= Chosen(e, Routed) /\ Chosen(e, Routed) \in Nat
    <3>. DEFINE all == Routed  rows == routing.counted
    <3>1. IsFiniteSet(all) /\ rows \in SUBSET all /\ count <= Chosen(e, rows)
      BY DEF RoutingTypes, CountsAreOfRows
    <3>. HIDE DEF all, rows
    <3>2. /\ Cardinality(Choosing(routing.selected, e, rows)) \in Nat
          /\ Cardinality(Choosing(routing.selected, e, rows))
                <= Cardinality(Choosing(routing.selected, e, all))
      BY <3>1, ChoosingGrows
    <3>3. Chosen(e, all) \in Nat
      BY RowsBelowAdd, ExpertsAreNumbers DEF all
    <3>. HIDE DEF count
    <3>4. /\ Chosen(e, rows) \in Nat /\ Chosen(e, rows) <= Chosen(e, all)
          /\ count <= Chosen(e, rows)
      BY <3>1, <3>2 DEF Chosen
    <3>. QED  BY <3>3, <3>4, <2>1 DEF all, count
  <2>3. from + Chosen(e, Routed) <= size /\ size \in Nat
    BY BufferSize DEF OffsetsFit
  <2>. HIDE DEF size, count, from
  <2>4. from + count - 1 \in Nat /\ from + count - 1 < size
    BY <2>1, <2>2, <2>3
  <2>5. from + count - 1 \in Buffer
    BY <2>4, BufferSize DEF size
  <2>. QED  BY <2>5, <1>1 DEF from, count
<1>4. Len(routing.blocks) * routing.block <= Cardinality(DOMAIN routing.sorted)
  BY <1>1, BufferSize DEF OffsetsFit
<1>. QED  BY <1>2, <1>3, <1>4

-----------------------------------------------------------------------------
(* Blocks and places of the experts.                                       *)

(* Places of n blocks from block x on are in those blocks.                 *)
LEMMA PlaceInBlocks ==
    ASSUME NEW size \in Nat \ {0}, NEW x \in Nat, NEW n \in Nat, NEW k \in Nat,
           k < size * n
    PROVE  /\ (size * x + k) \div size \in x..(x + n - 1)
           /\ size * x + k \in Nat
<1>. DEFINE place == size * x + k  q == place \div size
            sx == size * x  sn == size * n  sq == size * q  sums == size * (x + n)
<1>1. sx \in Nat /\ sn \in Nat /\ place = sx + k
  <2>1. x * size \in Nat /\ n * size \in Nat
    BY TimesGrows
  <2>. QED  BY <2>1
<1>2. place \in Nat
  <2>. HIDE DEF sx, place
  <2>. QED  BY <1>1
<1>. HIDE DEF place
<1>3. q \in Nat /\ sq <= place /\ place < sq + size
  BY <1>2, Division
<1>. HIDE DEF q
<1>4. x <= q
  <2>. SUFFICES ASSUME q + 1 <= x  PROVE FALSE
    BY <1>3
  <2>1. (q + 1) * size <= x * size
    BY <1>3, TimesGrows
  <2>2. (q + 1) * size = sq + size /\ x * size = sx
    BY <1>3
  <2>. HIDE DEF sx, sq, sn
  <2>3. sq + size <= sx
    BY <2>1, <2>2
  <2>4. sq \in Int
    BY <1>3 DEF sq
  <2>. QED  BY <2>3, <2>4, <1>1, <1>3
<1>5. q < x + n
  <2>. SUFFICES ASSUME x + n <= q  PROVE FALSE
    BY <1>3
  <2>1. (x + n) * size <= q * size
    BY <1>3, TimesGrows
  <2>2. (x + n) * size = sx + sn /\ q * size = sq
    BY <1>3
  <2>3. k < sn /\ sq \in Int
    BY <1>3
  <2>. HIDE DEF sx, sq, sn
  <2>. QED  BY <2>1, <2>2, <2>3, <1>1, <1>3
<1>6. q \in x..(x + n - 1)
  BY <1>3, <1>4, <1>5
<1>. QED  BY <1>2, <1>6 DEF q, place

(* Later experts have later blocks.                                        *)
LEMMA BlocksGrow ==
    ASSUME RoutingTypes, NEW d \in Nat
    PROVE  \A e \in Nat : d <= e => BlocksBefore(d) <= BlocksBefore(e)
<1>. DEFINE S == {e \in Nat : d <= e => BlocksBefore(d) <= BlocksBefore(e)}
<1>1. \A e \in Nat : /\ BlocksBefore(e) \in Nat /\ BlocksOf(e) \in Nat
                     /\ BlocksBefore(e + 1) = BlocksBefore(e) + BlocksOf(e)
  BY BlocksBeforeAdd
<1>2. 0 \in S
  <2>1. d <= 0 => d = 0
    OBVIOUS
  <2>. QED  BY <1>1, <2>1
<1>3. ASSUME NEW e \in S  PROVE e + 1 \in S
  <2>1. CASE d <= e
    BY <2>1, <1>1
  <2>2. CASE ~(d <= e)
    <3>1. d <= e + 1 => d = e + 1
      BY <2>2
    <3>. QED  BY <3>1, <1>1
  <2>. QED  BY <2>1, <2>2
<1>. HIDE DEF S
<1>4. \A e \in Nat : e \in S
  BY <1>2, <1>3, Induction DEF S
<1>. QED  BY <1>4 DEF S

(* A block is of one expert.                                               *)
LEMMA BlocksApart ==
    ASSUME RoutingTypes, NEW d \in Nat, NEW e \in Nat, NEW b \in Nat,
           b \in BlocksBefore(d)..(BlocksBefore(d + 1) - 1),
           b \in BlocksBefore(e)..(BlocksBefore(e + 1) - 1)
    PROVE  d = e
<1>1. \A x \in Nat : BlocksBefore(x) \in Nat
  BY BlocksBeforeAdd
<1>2. CASE d < e
  <2>1. BlocksBefore(d + 1) <= BlocksBefore(e) /\ d + 1 \in Nat
    BY <1>2, BlocksGrow
  <2>. QED  BY <2>1, <1>1
<1>3. CASE e < d
  <2>1. BlocksBefore(e + 1) <= BlocksBefore(d) /\ e + 1 \in Nat
    BY <1>3, BlocksGrow
  <2>. QED  BY <2>1, <1>1
<1>. QED  BY <1>2, <1>3

(* An expert's rows fit in its blocks.                                     *)
LEMMA RowsFitBlocks ==
    ASSUME RoutingTypes, NEW e \in Nat
    PROVE  /\ Chosen(e, Routed) = Cardinality(Selecting(e))
           /\ Chosen(e, Routed) \in Nat
           /\ Chosen(e, Routed) <= routing.block * BlocksOf(e)
<1>. DEFINE n == Chosen(e, Routed)  size == routing.block  q == (n + size - 1) \div size
<1>1. n = Cardinality(Selecting(e)) /\ n \in Nat
  <2>1. Selecting(e) = Choosing(routing.selected, e, Routed)
    BY DEF Selecting, Choosing
  <2>. QED  BY <2>1, RowsBelowAdd DEF Chosen
<1>2. BlocksOf(e) = q
  BY <1>1 DEF BlocksOf
<1>3. size \in Nat \ {0} /\ n + size - 1 \in Nat
  BY <1>1 DEF RoutingTypes
<1>. HIDE DEF n, size
<1>4. q \in Nat /\ n + size - 1 < size * q + size
  BY <1>3, Division
<1>. HIDE DEF q
<1>5. size * q \in Nat
  BY <1>3, <1>4
<1>6. n <= size * q
  BY <1>1, <1>3, <1>4, <1>5
<1>. QED  BY <1>1, <1>2, <1>6 DEF n, size

(* Places of two experts are not the same.                                 *)
LEMMA PlacesApart ==
    ASSUME RoutingTypes, NEW d \in Nat, NEW e \in Nat,
           NEW k \in 0..(Chosen(d, Routed) - 1), NEW l \in 0..(Chosen(e, Routed) - 1),
           routing.block * BlocksBefore(d) + k = routing.block * BlocksBefore(e) + l
    PROVE  d = e /\ k = l
<1>. DEFINE size == routing.block
            place(f, j) == size * BlocksBefore(f) + j
<1>1. size \in Nat \ {0}
  BY DEF RoutingTypes
<1>2. ASSUME NEW f \in Nat, NEW j \in 0..(Chosen(f, Routed) - 1)
      PROVE  /\ place(f, j) \div size \in BlocksBefore(f)..(BlocksBefore(f + 1) - 1)
             /\ place(f, j) \div size \in Nat /\ j \in Nat
             /\ size * BlocksBefore(f) \in Nat
  <2>1. /\ BlocksBefore(f) \in Nat /\ BlocksOf(f) \in Nat
        /\ BlocksBefore(f + 1) = BlocksBefore(f) + BlocksOf(f)
    BY BlocksBeforeAdd
  <2>. DEFINE room == size * BlocksOf(f)
  <2>2. Chosen(f, Routed) \in Nat /\ Chosen(f, Routed) <= room
    BY RowsFitBlocks
  <2>3. room \in Nat
    BY <1>1, <2>1
  <2>. HIDE DEF room, size
  <2>4. j \in Nat /\ j < room
    BY <2>2, <2>3
  <2>5. place(f, j) \div size \in BlocksBefore(f)..(BlocksBefore(f) + BlocksOf(f) - 1)
    BY <1>1, <2>1, <2>4, PlaceInBlocks DEF room
  <2>6. size * BlocksBefore(f) \in Nat
    BY <1>1, <2>1
  <2>. HIDE DEF place
  <2>. QED  BY <2>1, <2>4, <2>5, <2>6
<1>3. place(d, k) = place(e, l)
  OBVIOUS
<1>4. d = e
  <2>. DEFINE b == place(d, k) \div size
  <2>1. /\ b \in Nat /\ b \in BlocksBefore(d)..(BlocksBefore(d + 1) - 1)
        /\ b \in BlocksBefore(e)..(BlocksBefore(e + 1) - 1)
    <3>. HIDE DEF place
    <3>. QED  BY <1>2, <1>3
  <2>. HIDE DEF b
  <2>. QED  BY <2>1, BlocksApart
<1>5. k = l
  <2>. DEFINE from == size * BlocksBefore(d)
  <2>1. from + k = from + l /\ from \in Nat /\ k \in Nat /\ l \in Nat
    BY <1>2, <1>3, <1>4
  <2>. HIDE DEF from
  <2>. QED  BY <2>1
<1>. QED  BY <1>4, <1>5

(* When no count was lost, offsets are of the blocks before.               *)
LEMMA ExactOffsets ==
    ASSUME RoutingTypes, Exact
    PROVE  /\ \A e \in RoutedExperts : WholeBlocks(e) = routing.block * BlocksOf(e)
           /\ \A e \in 0..routing.experts : Serial[e] = routing.block * BlocksBefore(e)
<1>. DEFINE m == routing.experts  size == routing.block
            S == {e \in Nat : e <= m => Serial[e] = size * BlocksBefore(e)}
<1>1. size \in Nat \ {0} /\ m \in Nat /\ RoutedExperts = 0..(m - 1)
  BY DEF RoutingTypes, RoutedExperts
<1>2. ASSUME NEW e \in RoutedExperts
      PROVE  WholeBlocks(e) = size * BlocksOf(e) /\ BlocksOf(e) \in Nat
  <2>1. e \in Nat /\ BlocksOf(e) \in Nat
    BY ExpertsAreNumbers, BlocksBeforeAdd
  <2>2. routing.counts[e] = Cardinality(Selecting(e))
    BY <2>1, RowsFitBlocks DEF Exact
  <2>3. WholeBlocks(e) = BlocksOf(e) * size
    BY <2>2 DEF WholeBlocks, BlocksOf
  <2>4. BlocksOf(e) * size = size * BlocksOf(e)
    BY <2>1, <1>1
  <2>. QED  BY <2>1, <2>3, <2>4
<1>3. 0 \in S
  <2>1. Serial[0] = 0
    BY SerialAdds
  <2>2. BlocksBefore(0) = 0
    BY BlocksBeforeAdd
  <2>3. size * 0 = 0
    BY <1>1
  <2>. QED  BY <2>1, <2>2, <2>3
<1>4. ASSUME NEW e \in S  PROVE e + 1 \in S
  <2>. SUFFICES ASSUME e + 1 <= m  PROVE Serial[e + 1] = size * BlocksBefore(e + 1)
    OBVIOUS
  <2>1. e \in RoutedExperts /\ e \in Nat /\ Serial[e] = size * BlocksBefore(e)
    BY <1>1
  <2>2. Serial[e + 1] = Serial[e] + WholeBlocks(e)
    BY <2>1, SerialAdds
  <2>3. /\ BlocksBefore(e) \in Nat /\ BlocksOf(e) \in Nat
        /\ BlocksBefore(e + 1) = BlocksBefore(e) + BlocksOf(e)
    BY <2>1, BlocksBeforeAdd
  <2>4. size * (BlocksBefore(e) + BlocksOf(e))
            = size * BlocksBefore(e) + size * BlocksOf(e)
    BY <2>3, <1>1
  <2>5. WholeBlocks(e) = size * BlocksOf(e)
    BY <2>1, <1>2
  <2>. HIDE DEF size
  <2>. QED  BY <2>1, <2>2, <2>3, <2>4, <2>5
<1>. HIDE DEF S
<1>5. \A e \in Nat : e \in S
  BY <1>3, <1>4, Induction DEF S
<1>. QED  BY <1>1, <1>2, <1>5 DEF S

(* The expert of a block is the one that has it.                           *)
LEMMA BlockExpertIs ==
    ASSUME RoutingTypes, Exact, NEW e \in RoutedExperts,
           NEW b \in BlocksBefore(e)..(BlocksBefore(e + 1) - 1)
    PROVE  BlockExpert(b) = e
<1>. DEFINE size == routing.block
            Has(d) == b * size \in Offset(d)..(Offset(d) + WholeBlocks(d) - 1)
<1>1. size \in Nat \ {0} /\ \A d \in RoutedExperts : d \in Nat /\ d \in 0..routing.experts
  BY ExpertsAreNumbers DEF RoutingTypes, RoutedExperts
<1>2. \A d \in Nat : /\ BlocksBefore(d) \in Nat /\ BlocksOf(d) \in Nat
                     /\ BlocksBefore(d + 1) = BlocksBefore(d) + BlocksOf(d)
  BY BlocksBeforeAdd
<1>3. b \in Nat /\ b * size \in Nat /\ b * size = size * b
  <2>1. b \in Nat
    BY <1>1, <1>2
  <2>. QED  BY <2>1, <1>1
<1>4. ASSUME NEW d \in RoutedExperts
      PROVE  /\ Offset(d) = size * BlocksBefore(d) /\ WholeBlocks(d) = size * BlocksOf(d)
             /\ size * BlocksBefore(d) \in Nat /\ size * BlocksOf(d) \in Nat
  <2>1. Offset(d) = size * BlocksBefore(d) /\ WholeBlocks(d) = size * BlocksOf(d)
    BY <1>1, OffsetsAdd, ExactOffsets
  <2>2. BlocksBefore(d) \in Nat /\ BlocksOf(d) \in Nat
    BY <1>1, <1>2
  <2>. QED  BY <2>1, <2>2, <1>1
<1>5. Has(e)
  <2>. DEFINE from == size * BlocksBefore(e)  room == size * BlocksOf(e)  at == b * size
  <2>1. BlocksBefore(e) <= b /\ b + 1 <= BlocksBefore(e) + BlocksOf(e)
        /\ BlocksBefore(e) \in Nat /\ BlocksOf(e) \in Nat
    BY <1>1, <1>2, <1>3
  <2>2. BlocksBefore(e) * size <= b * size
        /\ (b + 1) * size <= (BlocksBefore(e) + BlocksOf(e)) * size
    BY <2>1, <1>1, <1>3, TimesGrows
  <2>3. /\ BlocksBefore(e) * size = from /\ (b + 1) * size = at + size
        /\ (BlocksBefore(e) + BlocksOf(e)) * size = from + room
    BY <2>1, <1>1, <1>3
  <2>4. from \in Nat /\ room \in Nat /\ at \in Nat
        /\ Offset(e) = from /\ WholeBlocks(e) = room
    BY <1>3, <1>4
  <2>. HIDE DEF from, room, at, size
  <2>5. at \in from..(from + room - 1)
    BY <2>2, <2>3, <2>4, <1>1 DEF at
  <2>. QED  BY <2>4, <2>5 DEF at
<1>6. ASSUME NEW d \in RoutedExperts, Has(d)  PROVE d = e
  <2>. DEFINE k == b * size - size * BlocksBefore(d)
  <2>1. k \in Nat /\ k < size * BlocksOf(d) /\ size * BlocksBefore(d) + k = b * size
    <3>. DEFINE from == size * BlocksBefore(d)  room == size * BlocksOf(d)  at == b * size
    <3>1. from \in Nat /\ room \in Nat /\ at \in Nat /\ at \in from..(from + room - 1)
      BY <1>3, <1>4, <1>6
    <3>. HIDE DEF from, room, at
    <3>2. at - from \in Nat /\ at - from < room /\ from + (at - from) = at
      BY <3>1
    <3>. QED  BY <3>2 DEF from, room, at
  <2>. HIDE DEF k
  <2>2. d \in Nat /\ BlocksBefore(d) \in Nat /\ BlocksOf(d) \in Nat
        /\ BlocksBefore(d + 1) = BlocksBefore(d) + BlocksOf(d)
    BY <1>1, <1>2
  <2>3. (b * size) \div size \in BlocksBefore(d)..(BlocksBefore(d) + BlocksOf(d) - 1)
    <3>. HIDE DEF size
    <3>1. (size * BlocksBefore(d) + k) \div size
              \in BlocksBefore(d)..(BlocksBefore(d) + BlocksOf(d) - 1)
      BY <2>1, <2>2, <1>1, PlaceInBlocks
    <3>. QED  BY <3>1, <2>1
  <2>4. (b * size) \div size = b
    <3>1. 0 \in Nat /\ 1 \in Nat /\ 0 < size * 1 /\ size * b + 0 = b * size
      BY <1>1, <1>3
    <3>. HIDE DEF size
    <3>2. (size * b + 0) \div size \in b..(b + 1 - 1)
      BY <3>1, <1>1, <1>3, PlaceInBlocks
    <3>3. b..(b + 1 - 1) = {b}
      BY <1>3
    <3>. QED  BY <3>1, <3>2, <3>3
  <2>5. b \in BlocksBefore(d)..(BlocksBefore(d + 1) - 1)
    BY <2>2, <2>3, <2>4
  <2>. QED  BY <2>2, <2>5, <1>1, <1>3, BlocksApart
<1>7. BlockExpert(b) = CHOOSE d \in RoutedExperts : Has(d)
  BY DEF BlockExpert
<1>. HIDE DEF Has
<1>. QED  BY <1>5, <1>6, <1>7

(* What depends on the selection alone stays.                              *)
LEMMA SameBlocks ==
    ASSUME SameRows
    PROVE  /\ \A e : /\ Selecting(e)' = Selecting(e) /\ BlocksOf(e)' = BlocksOf(e)
                     /\ BlocksBefore(e)' = BlocksBefore(e)
                     /\ Chosen(e, Routed)' = Chosen(e, Routed)
           /\ \A row : Known(row)' = Known(row) /\ Bucket(row)' = Bucket(row)
           /\ routing'.counts = routing.counts => (Exact' <=> Exact)
BY DEF SameRows, Selecting, BlocksOf, BlocksBefore, Chosen, Known, Bucket, Exact, Routed,
       RoutedExperts

(* The order of blocks, after a step.                                      *)
LEMMA SameOrder ==
    ASSUME SameRows, routing'.counts = routing.counts
    PROVE  BlocksInOrder' <=>
             ((routing'.phase # "count" /\ Exact) =>
                /\ \A e \in RoutedExperts :
                     /\ routing'.offsets[e] = routing.block * BlocksBefore(e)
                     /\ \A b \in BlocksBefore(e)..(BlocksBefore(e + 1) - 1) :
                          routing'.blocks[b + 1] = e
                /\ Len(routing'.blocks) = BlocksBefore(routing.experts))
<1>1. RoutedExperts' = RoutedExperts /\ (Exact' <=> Exact)
      /\ \A e : BlocksBefore(e)' = BlocksBefore(e)
  BY SameSizes, SameBlocks
<1>2. \A e : BlocksBefore(e + 1)' = BlocksBefore(e + 1)
  BY DEF SameRows, BlocksBefore, BlocksOf, Selecting, Routed
<1>3. BlocksBefore(routing.experts)' = BlocksBefore(routing.experts)
  BY DEF SameRows, BlocksBefore, BlocksOf, Selecting, Routed
<1>. QED  BY <1>1, <1>2, <1>3 DEF BlocksInOrder, SameRows

(* Blocks are placed in order.                                             *)
LEMMA BlocksArePlaced ==
    ASSUME BoundsInv, PlaceBlocks
    PROVE  BlocksInOrder'
<1>. USE DEF BoundsInv
<1>1. /\ SameRows /\ routing'.phase = "place"
      /\ routing'.offsets = [e \in RoutedExperts |-> Offset(e)]
      /\ routing'.blocks = [i \in 1..(PaddedRows \div routing.block) |->
                               BlockExpert(i - 1)]
      /\ routing'.counts = routing.counts
  BY DEF PlaceBlocks, SameRows, RoutingTypes, Fields
<1>. SUFFICES ASSUME Exact
     PROVE  /\ \A e \in RoutedExperts :
                 /\ routing'.offsets[e] = routing.block * BlocksBefore(e)
                 /\ \A b \in BlocksBefore(e)..(BlocksBefore(e + 1) - 1) :
                      routing'.blocks[b + 1] = e
            /\ Len(routing'.blocks) = BlocksBefore(routing.experts)
  BY <1>1, SameOrder
<1>. DEFINE m == routing.experts  size == routing.block
<1>2. m \in Nat /\ size \in Nat \ {0} /\ RoutedExperts = 0..(m - 1)
  BY DEF RoutingTypes, RoutedExperts
<1>3. \A e \in Nat : BlocksBefore(e) \in Nat
  BY BlocksBeforeAdd
<1>4. PaddedRows \div size = BlocksBefore(m)
  <2>0. m \in 0..m
    BY <1>2
  <2>1. m \in 0..m /\ BlocksBefore(m) \in Nat
    BY <2>0, <1>2, <1>3, Zenon
  <2>2. PaddedRows = size * BlocksBefore(m)
    BY <2>1, OffsetsAdd, ExactOffsets
  <2>. DEFINE x == BlocksBefore(m)
  <2>3. size * x + 0 = size * x /\ 0 < size * 1 /\ x..(x + 1 - 1) = {x} /\ 0 \in Nat /\ 1 \in Nat
    <3>1. size * x \in Nat
      BY <2>1, <1>2
    <3>. HIDE DEF x
    <3>. QED  BY <3>1, <2>1, <1>2 DEF x
  <2>. HIDE DEF x, size
  <2>4. (size * x + 0) \div size \in x..(x + 1 - 1)
    BY <2>1, <2>3, <1>2, PlaceInBlocks DEF x
  <2>. QED  BY <2>2, <2>3, <2>4 DEF x
<1>5. Len(routing'.blocks) = BlocksBefore(m)
  <2>1. BlocksBefore(m) \in Nat
    BY <1>2, <1>3
  <2>. QED  BY <2>1, <1>1, <1>4
<1>6. ASSUME NEW e \in RoutedExperts, NEW b \in BlocksBefore(e)..(BlocksBefore(e + 1) - 1)
      PROVE  routing'.blocks[b + 1] = e
  <2>0. e \in Nat /\ e + 1 \in Nat /\ e + 1 <= m /\ m \in Nat
    BY <1>2
  <2>1. /\ e \in Nat /\ e + 1 \in Nat /\ e + 1 <= m /\ m \in Nat
        /\ BlocksBefore(e) \in Nat /\ BlocksBefore(e + 1) \in Nat
        /\ BlocksBefore(m) \in Nat
    BY <2>0, <1>3, Zenon
  <2>2. BlocksBefore(e + 1) <= BlocksBefore(m)
    BY <2>1, BlocksGrow
  <2>3. b + 1 \in 1..BlocksBefore(m) /\ (b + 1) - 1 = b
    BY <2>1, <2>2
  <2>4. routing'.blocks[b + 1] = BlockExpert((b + 1) - 1)
    BY <2>3, <1>1, <1>4
  <2>. QED  BY <2>3, <2>4, BlockExpertIs
<1>7. ASSUME NEW e \in RoutedExperts
      PROVE  routing'.offsets[e] = size * BlocksBefore(e)
  <2>1. e \in 0..m
    BY <1>2
  <2>. QED  BY <2>1, <1>1, OffsetsAdd, ExactOffsets
<1>. QED  BY <1>5, <1>6, <1>7

-----------------------------------------------------------------------------
(* Rows in places.                                                         *)

(* Where the rows of an expert begin, and how many there are.              *)
LEMMA ExactPlaces ==
    ASSUME BoundsInv, BlocksInOrder, Exact, routing.phase # "count",
           NEW e \in RoutedExperts
    PROVE  /\ e \in Nat /\ routing.offsets[e] \in Nat
           /\ routing.offsets[e] = routing.block * BlocksBefore(e)
           /\ routing.counts[e] = Chosen(e, Routed) /\ Chosen(e, Routed) \in Nat
           /\ routing.ranks[e] \in 0..Chosen(e, Routed)
<1>1. e \in Nat
  BY ExpertsAreNumbers DEF BoundsInv
<1>2. routing.offsets[e] \in Nat /\ routing.offsets[e] = routing.block * BlocksBefore(e)
      /\ routing.counts[e] = Chosen(e, Routed)
  BY DEF BlocksInOrder, Exact, BoundsInv, RoutingTypes
<1>3. Chosen(e, Routed) \in Nat
  BY <1>1, RowsBelowAdd DEF BoundsInv
<1>4. routing.ranks[e] \in Nat /\ routing.ranks[e] <= Chosen(e, Routed)
  <2>. DEFINE all == Routed  rows == routing.placed
  <2>1. IsFiniteSet(all) /\ rows \in SUBSET all
    BY DEF BoundsInv, RoutingTypes
  <2>2. routing.ranks[e] = Chosen(e, rows)
    BY DEF BoundsInv, RanksArePlaced
  <2>. HIDE DEF all, rows
  <2>3. /\ Cardinality(Choosing(routing.selected, e, rows)) \in Nat
        /\ Cardinality(Choosing(routing.selected, e, rows))
              <= Cardinality(Choosing(routing.selected, e, all))
    BY <2>1, ChoosingGrows
  <2>. QED  BY <2>2, <2>3 DEF Chosen, all
<1>. QED  BY <1>1, <1>2, <1>3, <1>4

(* No two experts have a place in common.                                  *)
LEMMA ExactApart ==
    ASSUME BoundsInv, BlocksInOrder, Exact, routing.phase # "count",
           NEW d \in RoutedExperts, NEW e \in RoutedExperts,
           NEW k \in 0..(Chosen(d, Routed) - 1), NEW l \in 0..(Chosen(e, Routed) - 1),
           routing.offsets[d] + k = routing.offsets[e] + l
    PROVE  d = e /\ k = l
BY ExactPlaces, PlacesApart DEF BoundsInv

(* No place is given out before rows are placed.                           *)
LEMMA PlacesAreEmpty ==
    ASSUME BoundsInv, PlaceBlocks
    PROVE  PlacesHoldRows'
<1>1. /\ SameRows /\ routing'.ranks = routing.ranks /\ routing'.sorted = routing.sorted
      /\ routing.phase = "count"
  BY DEF PlaceBlocks, BoundsInv, SameRows, RoutingTypes, Fields
<1>2. RoutedExperts' = RoutedExperts /\ Buffer' = Buffer /\ RoutedCount' = RoutedCount
  BY <1>1, SameSizes
<1>3. \A e \in RoutedExperts : routing'.ranks[e] = 0
  <2>. TAKE e \in RoutedExperts
  <2>1. routing.ranks[e] = Cardinality(Choosing(routing.selected, e, {}))
    BY <1>1 DEF BoundsInv, RanksArePlaced, NothingIsPlaced, Chosen
  <2>. QED  BY <2>1, <1>1, ChoosingGrows, FS_EmptySet
<1>4. \A i \in Buffer : routing'.sorted[i] = RoutedCount
  BY <1>1 DEF BoundsInv, NothingIsPlaced
<1>5. 0..(0 - 1) = {}
  OBVIOUS
<1>. QED  BY <1>2, <1>3, <1>4, <1>5 DEF PlacesHoldRows

(* The places given out, after a step.                                     *)
LEMMA SamePlaces ==
    ASSUME SameRows, routing'.counts = routing.counts,
           Exact =>
             /\ \A e \in RoutedExperts :
                  /\ \A k \in 0..(routing'.ranks[e] - 1) :
                       routing'.sorted[routing'.offsets[e] + k]
                           \in Choosing(routing.selected, e, routing'.placed)
                  /\ \A k, l \in 0..(routing'.ranks[e] - 1) :
                       routing'.sorted[routing'.offsets[e] + k]
                           = routing'.sorted[routing'.offsets[e] + l] => k = l
             /\ \A i \in Buffer :
                  \/ routing'.sorted[i] = RoutedCount
                  \/ \E e \in RoutedExperts :
                        i - routing'.offsets[e] \in 0..(routing'.ranks[e] - 1)
    PROVE  PlacesHoldRows'
<1>1. /\ RoutedExperts' = RoutedExperts /\ Buffer' = Buffer
      /\ RoutedCount' = RoutedCount /\ (Exact' <=> Exact)
      /\ routing'.selected = routing.selected
  BY SameSizes, SameBlocks DEF SameRows
<1>. QED  BY <1>1 DEF PlacesHoldRows

(* A row that is placed takes a place of its own.                          *)
LEMMA PlacesStayHeld ==
    ASSUME BoundsInv, BlocksInOrder, PlacesHoldRows, NEW row \in Routed, PlaceRow(row)
    PROVE  BlocksInOrder' /\ PlacesHoldRows'
<1>. DEFINE e == routing.selected[row]
<1>1. routing.phase = "place" /\ row \in Routed \ routing.placed
  BY DEF PlaceRow
<1>2. /\ SameRows /\ routing'.phase = "place"
      /\ routing'.placed = routing.placed \cup {row}
      /\ routing'.ranks = IF Known(row) THEN [routing.ranks EXCEPT ![e] = @ + 1]
                          ELSE routing.ranks
      /\ routing'.sorted = IF Known(row)
                           THEN [routing.sorted EXCEPT ![PlaceOf(row)] = row]
                           ELSE routing.sorted
      /\ UNCHANGED <<routing.counts, routing.offsets, routing.blocks>>
  <2>1. CASE Known(row)
    BY <2>1, <1>1 DEF PlaceRow, SameRows, BoundsInv, RoutingTypes, Fields
  <2>2. CASE ~Known(row)
    BY <2>2, <1>1 DEF PlaceRow, SameRows, BoundsInv, RoutingTypes, Fields
  <2>. QED  BY <2>1, <2>2
<1>3. /\ RoutedExperts' = RoutedExperts /\ Buffer' = Buffer
      /\ RoutedCount' = RoutedCount /\ (Exact' <=> Exact)
  BY <1>2, SameSizes, SameBlocks
<1>4. BlocksInOrder'
  BY <1>1, <1>2, SameOrder DEF BlocksInOrder
<1>. SUFFICES ASSUME Exact  PROVE PlacesHoldRows'
  BY <1>3, <1>4 DEF PlacesHoldRows
<1>. DEFINE sorted == routing'.sorted  ranks == routing'.ranks  offsets == routing.offsets
<1>5. CASE ~Known(row)
  <2>1. ranks = routing.ranks /\ sorted = routing.sorted
    BY <1>2, <1>5
  <2>2. \A d \in RoutedExperts : Choosing(routing.selected, d, routing.placed)
                     \subseteq Choosing(routing.selected, d, routing.placed \cup {row})
    BY DEF Choosing
  <2>3. /\ \A d \in RoutedExperts :
             /\ \A k \in 0..(ranks[d] - 1) : sorted[offsets[d] + k]
                    \in Choosing(routing.selected, d, routing.placed \cup {row})
             /\ \A k, l \in 0..(ranks[d] - 1) :
                  sorted[offsets[d] + k] = sorted[offsets[d] + l] => k = l
        /\ \A i \in Buffer :
             \/ sorted[i] = RoutedCount
             \/ \E d \in RoutedExperts : i - offsets[d] \in 0..(ranks[d] - 1)
    BY <1>1, <2>1, <2>2 DEF PlacesHoldRows
  <2>. QED  BY <2>3, <1>2, SamePlaces
<1>6. CASE Known(row)
  <2>. DEFINE at == PlaceOf(row)
  <2>1. e \in RoutedExperts /\ routing.ranks[e] < Chosen(e, Routed) /\ at \in Buffer
    BY <1>1, <1>6, PlaceFits
  <2>2. at = offsets[e] + routing.ranks[e]
    BY DEF PlaceOf
  <2>3. /\ DOMAIN routing.ranks = RoutedExperts /\ DOMAIN routing.sorted = Buffer
    BY DEF BoundsInv, RoutingTypes
  <2>4. /\ sorted = [routing.sorted EXCEPT ![at] = row]
        /\ ranks = [routing.ranks EXCEPT ![e] = @ + 1]
    BY <1>2, <1>6
  <2>5. \A d \in RoutedExperts : /\ offsets[d] \in Nat /\ Chosen(d, Routed) \in Nat
                                 /\ routing.ranks[d] \in 0..Chosen(d, Routed)
    BY <1>1, ExactPlaces
  <2>6. ASSUME NEW d \in RoutedExperts, NEW k \in 0..(routing.ranks[d] - 1)
        PROVE  /\ offsets[d] + k # at /\ sorted[offsets[d] + k] = routing.sorted[offsets[d] + k]
               /\ sorted[offsets[d] + k] \in Choosing(routing.selected, d, routing.placed)
    <3>1. k \in 0..(Chosen(d, Routed) - 1) /\ routing.ranks[e] \in 0..(Chosen(e, Routed) - 1)
          /\ (d = e => k # routing.ranks[e])
      BY <2>1, <2>5
    <3>2. offsets[d] + k # at
      <4>. HIDE DEF e, at
      <4>. QED  BY <3>1, <2>1, <2>2, <1>1, ExactApart
    <3>3. sorted[offsets[d] + k] = routing.sorted[offsets[d] + k]
      BY <3>2, <2>4
    <3>4. routing.sorted[offsets[d] + k] \in Choosing(routing.selected, d, routing.placed)
      BY <1>1 DEF PlacesHoldRows
    <3>. QED  BY <3>2, <3>3, <3>4
  <2>7. ASSUME NEW d \in RoutedExperts
        PROVE  \A k \in 0..(ranks[d] - 1) :
                 \/ k \in 0..(routing.ranks[d] - 1)
                 \/ d = e /\ k = routing.ranks[e] /\ sorted[offsets[d] + k] = row
    <3>1. CASE d = e
      BY <3>1, <2>1, <2>2, <2>3, <2>4, <2>5
    <3>2. CASE d # e
      BY <3>2, <2>1, <2>3, <2>4
    <3>. QED  BY <3>1, <3>2
  <2>8. ASSUME NEW d \in RoutedExperts, NEW k \in 0..(ranks[d] - 1)
        PROVE  sorted[offsets[d] + k]
                   \in Choosing(routing.selected, d, routing.placed \cup {row})
    <3>1. CASE k \in 0..(routing.ranks[d] - 1)
      BY <3>1, <2>6 DEF Choosing
    <3>2. CASE d = e /\ sorted[offsets[d] + k] = row
      BY <3>2 DEF Choosing
    <3>. QED  BY <3>1, <3>2, <2>7
  <2>9. ASSUME NEW d \in RoutedExperts, NEW k \in 0..(ranks[d] - 1),
               NEW l \in 0..(ranks[d] - 1),
               sorted[offsets[d] + k] = sorted[offsets[d] + l]
        PROVE  k = l
    <3>1. \A j \in 0..(routing.ranks[d] - 1) : sorted[offsets[d] + j] # row
      BY <2>6, <1>1 DEF Choosing
    <3>2. CASE k \in 0..(routing.ranks[d] - 1) /\ l \in 0..(routing.ranks[d] - 1)
      <4>1. routing.sorted[offsets[d] + k] = routing.sorted[offsets[d] + l]
        BY <3>2, <2>6, <2>9
      <4>. QED  BY <4>1, <3>2, <1>1 DEF PlacesHoldRows
    <3>. QED  BY <3>1, <3>2, <2>7, <2>9
  <2>10. ASSUME NEW i \in Buffer
         PROVE  \/ sorted[i] = RoutedCount
                \/ \E d \in RoutedExperts : i - offsets[d] \in 0..(ranks[d] - 1)
    <3>1. CASE i = at
      <4>1. ranks[e] = routing.ranks[e] + 1
        BY <2>1, <2>3, <2>4
      <4>2. i - offsets[e] \in 0..(ranks[e] - 1)
        BY <4>1, <3>1, <2>1, <2>2, <2>5
      <4>. QED  BY <4>2, <2>1
    <3>2. CASE i # at
      <4>1. sorted[i] = routing.sorted[i]
        BY <3>2, <2>3, <2>4
      <4>2. \A d \in RoutedExperts : \A j \in Int :
              j \in 0..(routing.ranks[d] - 1) => j \in 0..(ranks[d] - 1)
        BY <2>1, <2>3, <2>4, <2>5
      <4>3. \/ routing.sorted[i] = RoutedCount
            \/ \E d \in RoutedExperts : i - offsets[d] \in 0..(routing.ranks[d] - 1)
        BY <1>1 DEF PlacesHoldRows
      <4>. QED  BY <4>1, <4>2, <4>3
    <3>. QED  BY <3>1, <3>2
  <2>. HIDE DEF sorted, ranks
  <2>11. /\ \A d \in RoutedExperts :
              /\ \A k \in 0..(ranks[d] - 1) : sorted[offsets[d] + k]
                     \in Choosing(routing.selected, d, routing.placed \cup {row})
              /\ \A k, l \in 0..(ranks[d] - 1) :
                   sorted[offsets[d] + k] = sorted[offsets[d] + l] => k = l
         /\ \A i \in Buffer :
              \/ sorted[i] = RoutedCount
              \/ \E d \in RoutedExperts : i - offsets[d] \in 0..(ranks[d] - 1)
    BY <2>8, <2>9, <2>10
  <2>. QED  BY <2>11, <1>2, SamePlaces DEF sorted, ranks
<1>. QED  BY <1>5, <1>6

-----------------------------------------------------------------------------
(* Rows in order.                                                          *)

(* How many numbers of a set are below one of them.                        *)
Lower(S, r) == Cardinality({other \in S : other < r})

LEMMA LowerCounts ==
    ASSUME NEW S \in SUBSET Nat, IsFiniteSet(S)
    PROVE  /\ \A r \in S : Lower(S, r) \in 0..(Cardinality(S) - 1)
           /\ \A r, q \in S : r < q => Lower(S, r) < Lower(S, q)
           /\ \A k \in 0..(Cardinality(S) - 1) : \E r \in S : Lower(S, r) = k
<1>. DEFINE n == Cardinality(S)  below(r) == {other \in S : other < r}
<1>1. n \in Nat
  BY FS_CardinalityType
<1>2. ASSUME NEW r \in S
      PROVE  /\ IsFiniteSet(below(r)) /\ Cardinality(below(r)) \in Nat
             /\ Cardinality(below(r) \cup {r}) = Cardinality(below(r)) + 1
             /\ below(r) \cup {r} \in SUBSET S
  <2>. DEFINE B == below(r)
  <2>1. B \in SUBSET S /\ r \notin B
    OBVIOUS
  <2>. HIDE DEF B
  <2>2. IsFiniteSet(B) /\ Cardinality(B) \in Nat
    BY <2>1, FS_Subset, FS_CardinalityType
  <2>3. Cardinality(B \cup {r}) = Cardinality(B) + 1
    BY <2>1, <2>2, FS_AddElement
  <2>4. B \cup {r} \in SUBSET S
    BY <2>1
  <2>. QED  BY <2>2, <2>3, <2>4 DEF B
<1>3. ASSUME NEW r \in S  PROVE Lower(S, r) \in 0..(n - 1)
  <2>. DEFINE C == below(r) \cup {r}
  <2>1. C \in SUBSET S /\ Cardinality(C) = Cardinality(below(r)) + 1
        /\ Cardinality(below(r)) \in Nat
    BY <1>2
  <2>. HIDE DEF C
  <2>2. Cardinality(C) <= n
    BY <2>1, FS_Subset
  <2>3. Lower(S, r) = Cardinality(below(r))
    BY DEF Lower
  <2>. HIDE DEF n, below
  <2>. QED  BY <2>1, <2>2, <2>3, <1>1
<1>4. ASSUME NEW r \in S, NEW q \in S, r < q  PROVE Lower(S, r) < Lower(S, q)
  <2>. DEFINE C == below(r) \cup {r}  D == below(q)
  <2>1. C \in SUBSET D
    <3>. SUFFICES ASSUME NEW other \in C  PROVE other \in D
      OBVIOUS
    <3>1. other \in S /\ (other < r \/ other = r)
      OBVIOUS
    <3>2. other \in Nat /\ r \in Nat /\ q \in Nat
      BY <3>1
    <3>3. other < q
      BY <3>1, <3>2, <1>4
    <3>. QED  BY <3>1, <3>3
  <2>2. IsFiniteSet(D) /\ Cardinality(D) \in Nat
        /\ Cardinality(C) = Cardinality(below(r)) + 1 /\ Cardinality(below(r)) \in Nat
    BY <1>2
  <2>3. Lower(S, r) = Cardinality(below(r)) /\ Lower(S, q) = Cardinality(D)
    BY DEF Lower
  <2>. HIDE DEF C, D, below
  <2>4. Cardinality(C) <= Cardinality(D)
    BY <2>1, <2>2, FS_Subset
  <2>. QED  BY <2>2, <2>3, <2>4
<1>5. \A k \in 0..(n - 1) : \E r \in S : Lower(S, r) = k
  <2>. DEFINE f == [r \in S |-> Lower(S, r)]  T == 0..(n - 1)
  <2>1. f \in [S -> T]
    BY <1>3
  <2>2. \A r, q \in S : f[r] = f[q] => r = q
    <3>. SUFFICES ASSUME NEW r \in S, NEW q \in S, Lower(S, r) = Lower(S, q), r # q
                  PROVE  FALSE
      OBVIOUS
    <3>1. r < q \/ q < r
      OBVIOUS
    <3>2. Lower(S, r) \in Nat
      BY <1>3, <1>1
    <3>. QED  BY <3>1, <3>2, <1>4
  <2>3. IsFiniteSet(T) /\ Cardinality(T) = n
    <3>. DEFINE top == n - 1
    <3>1. 0 \in Int /\ top \in Int
      BY <1>1
    <3>. HIDE DEF top
    <3>2. IsFiniteSet(0..top)
          /\ Cardinality(0..top) = IF 0 > top THEN 0 ELSE top - 0 + 1
      BY <3>1, FS_Interval, Zenon
    <3>3. (IF 0 > top THEN 0 ELSE top - 0 + 1) = n
      BY <1>1 DEF top
    <3>. QED  BY <3>2, <3>3 DEF top
  <2>. HIDE DEF f, T, n
  <2>4. f \in Injection(S, T)
    BY <2>1, <2>2 DEF Injection, IsInjective
  <2>5. f \in Surjection(S, T)
    BY <2>3, <2>4, FS_Injection DEF n
  <2>. QED  BY <2>5 DEF Surjection, f, T
<1>. QED  BY <1>3, <1>4, <1>5

(* Rows that are all different, sorted: each stands behind those below it. *)
LEMMA SortPlaces ==
    ASSUME NEW S \in SUBSET Nat, IsFiniteSet(S),
           NEW n \in Nat, Cardinality(S) = n, NEW rows \in [1..n -> S],
           \A i, j \in 1..n : rows[i] = rows[j] => i = j
    PROVE  \A r \in S : Sort(rows)[Lower(S, r) + 1] = r
<1>. DEFINE Once(s) == \A r \in S : Cardinality(Places(s, r)) = 1
            Rising(s) == \A i, j \in 1..n : i < j => s[i] <= s[j]
<1>1. \A r \in S : \E i \in 1..n : rows[i] = r
  <2>1. IsFiniteSet(1..n) /\ Cardinality(1..n) = n
    <3>1. 1 \in Int /\ n \in Int
      OBVIOUS
    <3>2. IsFiniteSet(1..n) /\ Cardinality(1..n) = IF 1 > n THEN 0 ELSE n - 1 + 1
      BY <3>1, FS_Interval, Zenon
    <3>. QED  BY <3>2
  <2>. DEFINE T == 1..n
  <2>2. rows \in Injection(T, S)
    BY DEF Injection, IsInjective
  <2>. HIDE DEF T
  <2>3. rows \in Surjection(T, S)
    BY <2>1, <2>2, FS_Injection DEF T
  <2>. QED  BY <2>3 DEF Surjection, T
<1>2. ASSUME NEW s \in [1..n -> S], \A i, j \in 1..n : s[i] = s[j] => i = j,
             NEW r \in S, NEW i \in 1..n, s[i] = r
      PROVE  Cardinality(Places(s, r)) = 1
  <2>1. Places(s, r) = {i}
    BY <1>2 DEF Places
  <2>. QED  BY <2>1, FS_Singleton
<1>3. Range(rows) = S /\ DOMAIN rows = 1..n /\ Once(rows)
  <2>1. Range(rows) = S
    <3>1. \A x \in Range(rows) : x \in S
      BY DEF Range
    <3>2. \A x \in S : x \in Range(rows)
      BY <1>1 DEF Range
    <3>. QED  BY <3>1, <3>2
  <2>2. Once(rows)
    BY <1>1, <1>2
  <2>. QED  BY <2>1, <2>2
<1>4. \A i \in 1..n : \E r \in S : Lower(S, r) = i - 1
  <2>1. \A i \in 1..n : i - 1 \in 0..(n - 1)
    OBVIOUS
  <2>. QED  BY <2>1, LowerCounts
<1>. DEFINE t == [i \in 1..n |-> CHOOSE r \in S : Lower(S, r) = i - 1]
<1>5. t \in [1..n -> S] /\ \A i \in 1..n : Lower(S, t[i]) = i - 1
  BY <1>4
<1>. HIDE DEF t
<1>6. Rising(t) /\ Once(t)
  <2>1. ASSUME NEW i \in 1..n, NEW j \in 1..n, i < j  PROVE t[i] <= t[j]
    <3>1. t[i] \in S /\ t[j] \in S /\ t[i] \in Nat /\ t[j] \in Nat
      BY <1>5
    <3>2. CASE t[i] > t[j]
      <4>1. Lower(S, t[j]) < Lower(S, t[i])
        BY <3>1, <3>2, LowerCounts
      <4>2. j - 1 < i - 1
        BY <4>1, <1>5
      <4>. QED  BY <4>2, <2>1
    <3>. QED  BY <3>1, <3>2
  <2>2. \A i, j \in 1..n : t[i] = t[j] => i = j
    <3>. SUFFICES ASSUME NEW i \in 1..n, NEW j \in 1..n, t[i] = t[j]  PROVE i = j
      OBVIOUS
    <3>1. i - 1 = j - 1
      BY <1>5
    <3>. QED  BY <3>1
  <2>3. ASSUME NEW r \in S  PROVE Cardinality(Places(t, r)) = 1
    <3>. DEFINE i == Lower(S, r) + 1
    <3>1. Lower(S, r) \in 0..(n - 1)
      BY LowerCounts
    <3>2. i \in 1..n /\ Lower(S, t[i]) = Lower(S, r)
      BY <3>1, <1>5
    <3>3. t[i] \in S
      BY <3>2, <1>5
    <3>4. t[i] = r
      <4>1. t[i] \in Nat /\ r \in Nat /\ Lower(S, r) \in Int
        <5>1. Lower(S, r) \in Int
          BY <3>1
        <5>. HIDE DEF i
        <5>. QED  BY <5>1, <3>3
      <4>2. ~(t[i] < r) /\ ~(r < t[i])
        <5>. HIDE DEF i
        <5>. QED  BY <3>2, <3>3, <4>1, LowerCounts
      <4>. QED  BY <4>1, <4>2
    <3>. HIDE DEF i
    <3>. QED  BY <3>2, <3>4, <2>2, <1>2, <1>5
  <2>. QED  BY <2>1, <2>3
<1>. DEFINE s == Sort(rows)
<1>7. s \in [1..n -> S] /\ Rising(s) /\ Once(s)
  <2>. DEFINE Sorts(q) ==
         /\ \A i, j \in DOMAIN rows : i < j => q[i] <= q[j]
         /\ \A row \in Range(rows) :
              Cardinality(Places(q, row)) = Cardinality(Places(rows, row))
  <2>1. t \in [DOMAIN rows -> Range(rows)] /\ Sorts(t)
    BY <1>3, <1>5, <1>6
  <2>2. s = CHOOSE q \in [DOMAIN rows -> Range(rows)] : Sorts(q)
    BY DEF Sort
  <2>. HIDE DEF Sorts, s
  <2>3. s \in [DOMAIN rows -> Range(rows)] /\ Sorts(s)
    BY <2>1, <2>2
  <2>. QED  BY <2>3, <1>3 DEF Sorts
<1>. HIDE DEF s
<1>8. \A i, j \in 1..n : s[i] = s[j] => i = j
  <2>. SUFFICES ASSUME NEW i \in 1..n, NEW j \in 1..n, s[i] = s[j]  PROVE i = j
    OBVIOUS
  <2>. DEFINE P == Places(s, s[i])
  <2>1. P \subseteq 1..n /\ i \in P /\ j \in P
    BY <1>7 DEF Places
  <2>2. IsFiniteSet(1..n)
    <3>1. 1 \in Int /\ n \in Int
      OBVIOUS
    <3>. QED  BY <3>1, FS_Interval, Zenon
  <2>3. Cardinality(P) = 1
    BY <1>7
  <2>. HIDE DEF P
  <2>4. IsFiniteSet(P)
    BY <2>1, <2>2, FS_Subset
  <2>5. \E x : P = {x}
    BY <2>3, <2>4, FS_Singleton
  <2>. QED  BY <2>1, <2>5
<1>9. ASSUME NEW r \in S  PROVE s[Lower(S, r) + 1] = r
  <2>1. PICK i \in 1..n : s[i] = r
    <3>1. Cardinality(Places(s, r)) = 1
      BY <1>7
    <3>2. Places(s, r) # {}
      <4>1. Cardinality({}) = 0
        BY FS_EmptySet
      <4>. QED  BY <4>1, <3>1
    <3>. QED  BY <3>2, <1>7 DEF Places
  <2>. DEFINE A == 1..(i - 1)  B == {other \in S : other < r}  f == [j \in A |-> s[j]]
  <2>2. \A j \in A : j \in 1..n /\ s[j] \in S /\ s[j] < r
    <3>. TAKE j \in A
    <3>1. j \in 1..n /\ j < i /\ i # j
      OBVIOUS
    <3>2. s[j] <= s[i] /\ s[j] # s[i]
      BY <3>1, <1>7, <1>8
    <3>3. s[j] \in S
      BY <3>1, <1>7
    <3>4. s[j] \in Nat /\ r \in Nat
      BY <3>3
    <3>. QED  BY <3>1, <3>2, <3>3, <3>4, <2>1
  <2>3. \A other \in B : \E j \in A : s[j] = other
    <3>. TAKE other \in B
    <3>1. PICK j \in 1..n : s[j] = other
      <4>1. Cardinality(Places(s, other)) = 1
        BY <1>7
      <4>2. Places(s, other) # {}
        <5>1. Cardinality({}) = 0
          BY FS_EmptySet
        <5>. QED  BY <5>1, <4>1
      <4>. QED  BY <4>2, <1>7 DEF Places
    <3>2. j < i
      <4>1. ~(i < j) /\ i # j
        BY <3>1, <2>1, <1>7
      <4>. QED  BY <4>1
    <3>. QED  BY <3>1, <3>2
  <2>4. IsFiniteSet(A) /\ Cardinality(A) = i - 1
    <3>. DEFINE top == i - 1
    <3>1. 1 \in Int /\ top \in Int
      OBVIOUS
    <3>. HIDE DEF top
    <3>2. IsFiniteSet(1..top) /\ Cardinality(1..top) = IF 1 > top THEN 0 ELSE top - 1 + 1
      BY <3>1, FS_Interval, Zenon
    <3>3. (IF 1 > top THEN 0 ELSE top - 1 + 1) = i - 1
      BY DEF top
    <3>. QED  BY <3>2, <3>3 DEF top
  <2>5. f \in Bijection(A, B)
    <3>1. f \in [A -> B]
      BY <2>2
    <3>2. \A j, k \in A : f[j] = f[k] => j = k
      BY <2>2, <1>8
    <3>3. \A other \in B : \E j \in A : f[j] = other
      BY <2>3
    <3>. HIDE DEF A, B, f
    <3>. QED  BY <3>1, <3>2, <3>3 DEF Bijection, Injection, Surjection, IsInjective
  <2>6. ExistsBijection(A, B)
    <3>. HIDE DEF A, B, f
    <3>. QED  BY <2>5 DEF ExistsBijection
  <2>7. Cardinality(B) = i - 1
    <3>. HIDE DEF A, B
    <3>. QED  BY <2>4, <2>6, FS_Bijection
  <2>8. Lower(S, r) + 1 = i
    BY <2>7 DEF Lower
  <2>. QED  BY <2>1, <2>8
<1>. QED  BY <1>9 DEF s

(* Sorting puts each expert's rows in order behind its offset, and leaves  *)
(* the rest.                                                               *)
LEMMA SortOrders ==
    ASSUME BoundsInv, BlocksInOrder, PlacesHoldRows, Exact, SortRows
    PROVE  /\ \A e \in RoutedExperts :
                /\ Selecting(e) \in SUBSET Nat /\ IsFiniteSet(Selecting(e))
                /\ Cardinality(Selecting(e)) = Chosen(e, Routed)
                /\ \A row \in Selecting(e) :
                     routing'.sorted[routing.offsets[e] + Lower(Selecting(e), row)] = row
           /\ \A i \in Buffer :
                \/ routing'.sorted[i] = RoutedCount
                \/ \E e \in RoutedExperts :
                     i - routing.offsets[e] \in 0..(Chosen(e, Routed) - 1)
<1>. DEFINE offsets == routing.offsets  c(e) == Chosen(e, Routed)
            rows(e) == [i \in 1..c(e) |-> routing.sorted[offsets[e] + i - 1]]
            owners(i) == {e \in RoutedExperts : i - offsets[e] \in 0..(c(e) - 1)}
<1>1. routing.phase = "place" /\ routing.placed = Routed
      /\ DOMAIN routing = Fields /\ DOMAIN routing.sorted = Buffer
  BY DEF SortRows, BoundsInv, RoutingTypes
<1>2. ASSUME NEW e \in RoutedExperts
      PROVE  /\ e \in Nat /\ offsets[e] \in Nat /\ c(e) \in Nat
             /\ routing.counts[e] = c(e) /\ routing.ranks[e] = c(e)
  BY <1>1, ExactPlaces DEF BoundsInv, RanksArePlaced
<1>3. ASSUME NEW e \in RoutedExperts
      PROVE  /\ Selecting(e) \in SUBSET Nat /\ IsFiniteSet(Selecting(e))
             /\ Cardinality(Selecting(e)) = c(e)
  <2>1. Selecting(e) \in SUBSET Routed /\ IsFiniteSet(Routed)
    BY DEF Selecting, BoundsInv, RoutingTypes
  <2>2. Routed \subseteq Nat
    <3>. DEFINE n == RoutedCount - 1
    <3>. HIDE DEF n
    <3>1. routing.selected \in [0..n -> Nat]
      BY DEF BoundsInv, RoutingTypes, n
    <3>2. n \in Int
      BY RowsBelowAdd DEF BoundsInv, n
    <3>. QED  BY <3>1, <3>2 DEF Routed
  <2>3. IsFiniteSet(Selecting(e))
    BY <2>1, FS_Subset
  <2>4. Cardinality(Selecting(e)) = c(e)
    BY <1>2, RowsFitBlocks DEF BoundsInv
  <2>. QED  BY <2>1, <2>2, <2>3, <2>4
<1>4. ASSUME NEW e \in RoutedExperts
      PROVE  /\ rows(e) \in [1..c(e) -> Selecting(e)]
             /\ \A i, j \in 1..c(e) : rows(e)[i] = rows(e)[j] => i = j
  <2>. DEFINE f == rows(e)
  <2>1. \A k \in 0..(c(e) - 1) : routing.sorted[offsets[e] + k] \in Selecting(e)
    <3>1. Selecting(e) = Choosing(routing.selected, e, routing.placed)
      BY <1>1 DEF Selecting, Choosing
    <3>. QED  BY <3>1, <1>1, <1>2 DEF PlacesHoldRows
  <2>2. \A k, l \in 0..(c(e) - 1) :
          routing.sorted[offsets[e] + k] = routing.sorted[offsets[e] + l] => k = l
    BY <1>1, <1>2 DEF PlacesHoldRows
  <2>3. \A i \in 1..c(e) : i - 1 \in 0..(c(e) - 1) /\ offsets[e] + i - 1 = offsets[e] + (i - 1)
    BY <1>2
  <2>4. \A i \in 1..c(e) : f[i] = routing.sorted[offsets[e] + (i - 1)]
    BY <2>3
  <2>5. f \in [1..c(e) -> Selecting(e)]
    BY <2>1, <2>3
  <2>6. ASSUME NEW i \in 1..c(e), NEW j \in 1..c(e), f[i] = f[j]  PROVE i = j
    <3>1. i - 1 = j - 1
      BY <2>2, <2>3, <2>4, <2>6
    <3>. QED  BY <3>1
  <2>. QED  BY <2>5, <2>6
<1>5. ASSUME NEW e \in RoutedExperts, NEW row \in Selecting(e)
      PROVE  Sort(rows(e))[Lower(Selecting(e), row) + 1] = row
  <2>. DEFINE f == rows(e)  S == Selecting(e)  n == c(e)
  <2>1. /\ S \in SUBSET Nat /\ IsFiniteSet(S) /\ n \in Nat /\ Cardinality(S) = n
        /\ f \in [1..n -> S] /\ \A i, j \in 1..n : f[i] = f[j] => i = j
        /\ row \in S
    BY <1>2, <1>3, <1>4
  <2>. HIDE DEF f, S, n
  <2>2. Sort(f)[Lower(S, row) + 1] = row
    BY <2>1, SortPlaces
  <2>. QED  BY <2>2 DEF f, S
<1>6. \A i \in Buffer : routing'.sorted[i] =
        IF owners(i) = {} THEN routing.sorted[i]
        ELSE LET e == CHOOSE e \in owners(i) : TRUE IN
             Sort(rows(e))[i - offsets[e] + 1]
  <2>1. \A i : owners(i) = {e \in RoutedExperts :
                              i - offsets[e] \in 0..(routing.counts[e] - 1)}
    BY <1>2
  <2>2. \A e \in RoutedExperts :
          Ordered(routing.sorted, offsets[e], routing.counts[e]) = Sort(rows(e))
    BY <1>2 DEF Ordered
  <2>3. \A i : owners(i) # {} => (CHOOSE e \in owners(i) : TRUE) \in RoutedExperts
    OBVIOUS
  <2>. DEFINE moved(i) ==
         LET mine == {e \in RoutedExperts :
                        i - offsets[e] \in 0..(routing.counts[e] - 1)}
         IN IF mine = {} THEN routing.sorted[i]
            ELSE LET e == CHOOSE e \in mine : TRUE IN
                 Ordered(routing.sorted, offsets[e], routing.counts[e])
                    [i - offsets[e] + 1]
  <2>4. \A i \in Buffer : routing'.sorted[i] = moved(i)
    BY <1>1 DEF SortRows, Fields
  <2>5. ASSUME NEW i \in Buffer
        PROVE  moved(i) = IF owners(i) = {} THEN routing.sorted[i]
                          ELSE LET e == CHOOSE e \in owners(i) : TRUE IN
                               Sort(rows(e))[i - offsets[e] + 1]
    <3>. DEFINE mine == {e \in RoutedExperts :
                           i - offsets[e] \in 0..(routing.counts[e] - 1)}
                owner == CHOOSE e \in mine : TRUE
    <3>1. mine = owners(i)
      BY <2>1
    <3>2. moved(i) = IF mine = {} THEN routing.sorted[i]
                     ELSE Ordered(routing.sorted, offsets[owner], routing.counts[owner])
                             [i - offsets[owner] + 1]
      OBVIOUS
    <3>3. owner = CHOOSE e \in owners(i) : TRUE
      BY <3>1
    <3>4. owners(i) # {} => owner \in RoutedExperts
      BY <2>3, <3>3
    <3>. HIDE DEF mine, owner, owners, moved, rows
    <3>. QED  BY <2>2, <3>1, <3>2, <3>3, <3>4
  <2>. HIDE DEF moved, owners, rows
  <2>. QED  BY <2>4, <2>5
<1>7. ASSUME NEW e \in RoutedExperts, NEW row \in Selecting(e)
      PROVE  routing'.sorted[offsets[e] + Lower(Selecting(e), row)] = row
  <2>. DEFINE k == Lower(Selecting(e), row)  i == offsets[e] + k
  <2>1. k \in 0..(c(e) - 1)
    BY <1>3, LowerCounts
  <2>. HIDE DEF k
  <2>2. i - offsets[e] = k /\ i \in Nat
    BY <2>1, <1>2
  <2>3. i \in Buffer
    <3>. DEFINE size == RoutedCount + routing.experts * (routing.block - 1)
    <3>1. offsets[e] + c(e) <= size /\ size \in Nat
      BY <1>1, BufferSize DEF BoundsInv, OffsetsFit
    <3>. HIDE DEF size, c
    <3>2. i < size
      BY <2>1, <3>1, <1>2
    <3>. HIDE DEF i
    <3>. QED  BY <2>2, <3>2, BufferSize DEF BoundsInv, size
  <2>4. owners(i) = {e}
    <3>1. e \in owners(i)
      BY <2>1, <2>2
    <3>2. ASSUME NEW d \in owners(i)  PROVE d = e
      <4>. DEFINE l == i - offsets[d]
      <4>1. d \in RoutedExperts /\ l \in 0..(c(d) - 1)
        OBVIOUS
      <4>2. offsets[d] + l = offsets[e] + k
        BY <4>1, <1>2, <2>1, <2>2
      <4>. HIDE DEF l, owners, i
      <4>. QED  BY <4>1, <4>2, <2>1, <1>1, ExactApart
    <3>. HIDE DEF owners, i
    <3>. QED  BY <3>1, <3>2
  <2>5. (CHOOSE d \in owners(i) : TRUE) = e
    BY <2>4
  <2>6. routing'.sorted[i] = Sort(rows(e))[k + 1]
    <3>. HIDE DEF owners, rows, i
    <3>. QED  BY <1>6, <2>2, <2>3, <2>4, <2>5
  <2>7. Sort(rows(e))[k + 1] = row
    BY <1>5 DEF k
  <2>. QED  BY <2>6, <2>7 DEF k
<1>8. ASSUME NEW i \in Buffer, owners(i) = {}
      PROVE  routing'.sorted[i] = RoutedCount
  <2>1. routing'.sorted[i] = routing.sorted[i]
    BY <1>6, <1>8
  <2>2. \A e \in RoutedExperts : ~(i - offsets[e] \in 0..(routing.ranks[e] - 1))
    BY <1>2, <1>8
  <2>. QED  BY <2>1, <2>2, <1>1 DEF PlacesHoldRows
<1>. QED  BY <1>3, <1>7, <1>8

(* The buckets, after a step.                                              *)
LEMMA SameBuckets ==
    ASSUME SameRows, DOMAIN routing'.sorted = Buffer,
           \A row \in Routed : Known(row) =>
             /\ routing'.sorted[Bucket(row)] = row
             /\ routing'.blocks[Bucket(row) \div routing.block + 1] = routing.selected[row],
           \A i \in Buffer :
             i \in {Bucket(row) : row \in {r \in Routed : Known(r)}}
               \/ routing'.sorted[i] = RoutedCount,
           Len(routing'.blocks) = BlocksBefore(routing.experts)
    PROVE  InBuckets'
<1>1. /\ Routed' = Routed /\ routing'.block = routing.block
      /\ routing'.selected = routing.selected
      /\ \A row : (Known(row)' <=> Known(row)) /\ Bucket(row)' = Bucket(row)
  BY SameSizes, SameBlocks DEF SameRows
<1>2. BlocksBefore(routing.experts)' = BlocksBefore(routing.experts)
  BY DEF SameRows, BlocksBefore, BlocksOf, Selecting, Routed
<1>3. {r \in Routed : Known(r)}' = {r \in Routed : Known(r)}
  BY DEF SameRows, Known, Routed
<1>4. {Bucket(row) : row \in {r \in Routed : Known(r)}}'
          = {Bucket(row) : row \in {r \in Routed : Known(r)}}
  BY <1>1, <1>3
<1>5. /\ \A row \in Routed' : Known(row)' =>
           /\ routing'.sorted[Bucket(row)'] = row
           /\ routing'.blocks[Bucket(row)' \div routing'.block + 1]
                  = routing'.selected[row]
      /\ Cardinality(Routed)' = RoutedCount
  BY <1>1 DEF RoutedCount
<1>. QED  BY <1>2, <1>4, <1>5 DEF InBuckets

(* Once rows are sorted they are in their buckets.                         *)
LEMMA SortFillsBuckets ==
    ASSUME BoundsInv, BlocksInOrder, PlacesHoldRows, SortRows
    PROVE  BlocksInOrder' /\ RoutesAreBuckets'
<1>1. /\ SameRows /\ routing.phase = "place" /\ routing'.phase = "done"
      /\ DOMAIN routing'.sorted = Buffer
      /\ UNCHANGED <<routing.counts, routing.offsets, routing.blocks>>
  BY DEF SortRows, SameRows, BoundsInv, RoutingTypes, Fields
<1>2. BlocksInOrder'
  BY <1>1, SameOrder DEF BlocksInOrder
<1>. SUFFICES ASSUME Exact  PROVE InBuckets'
  <2>1. ASSUME \A e \in RoutedExperts' : routing'.counts[e] = Cardinality(Selecting(e)')
        PROVE  Exact
    <3>1. ASSUME NEW e \in RoutedExperts  PROVE routing.counts[e] = Chosen(e, Routed)
      <4>1. routing.counts[e] = Cardinality(Selecting(e))
        BY <2>1, <1>1, SameSizes, SameBlocks
      <4>2. e \in Nat
        BY ExpertsAreNumbers DEF BoundsInv
      <4>. QED  BY <4>1, <4>2, RowsFitBlocks DEF BoundsInv
    <3>. QED  BY <3>1 DEF Exact
  <2>2. (\A e \in RoutedExperts : routing.counts[e] = Cardinality(Selecting(e)))'
            => InBuckets'
    BY <2>1
  <2>. QED  BY <1>2, <2>2 DEF RoutesAreBuckets
<1>. DEFINE size == routing.block
<1>3. /\ \A e \in RoutedExperts :
           /\ Selecting(e) \in SUBSET Nat /\ IsFiniteSet(Selecting(e))
           /\ Cardinality(Selecting(e)) = Chosen(e, Routed)
           /\ \A row \in Selecting(e) :
                routing'.sorted[routing.offsets[e] + Lower(Selecting(e), row)] = row
      /\ \A i \in Buffer :
           \/ routing'.sorted[i] = RoutedCount
           \/ \E e \in RoutedExperts :
                i - routing.offsets[e] \in 0..(Chosen(e, Routed) - 1)
  BY SortOrders
<1>4. ASSUME NEW row \in Routed, Known(row)
      PROVE  /\ routing.selected[row] \in RoutedExperts
             /\ row \in Selecting(routing.selected[row])
             /\ Bucket(row) = routing.offsets[routing.selected[row]]
                    + Lower(Selecting(routing.selected[row]), row)
  <2>1. routing.selected[row] \in RoutedExperts
    BY <1>4, SelectedExpert DEF BoundsInv, RoutedExperts, RoutingTypes, Known
  <2>2. row \in Selecting(routing.selected[row])
    BY DEF Selecting
  <2>3. routing.offsets[routing.selected[row]]
            = routing.block * BlocksBefore(routing.selected[row])
    BY <2>1, <1>1 DEF BlocksInOrder
  <2>. QED  BY <2>1, <2>2, <2>3 DEF Bucket, Lower
<1>5. ASSUME NEW row \in Routed, Known(row)
      PROVE  /\ routing'.sorted[Bucket(row)] = row
             /\ routing'.blocks[Bucket(row) \div size + 1] = routing.selected[row]
  <2>. DEFINE e == routing.selected[row]  k == Lower(Selecting(e), row)
              b == Bucket(row) \div size
  <2>1. e \in RoutedExperts /\ row \in Selecting(e) /\ Bucket(row) = routing.offsets[e] + k
    BY <1>4, <1>5
  <2>. HIDE DEF e
  <2>2. routing'.sorted[Bucket(row)] = row
    BY <2>1, <1>3
  <2>3. k \in 0..(Chosen(e, Routed) - 1)
    BY <2>1, <1>3, LowerCounts
  <2>4. /\ e \in Nat /\ Chosen(e, Routed) \in Nat
        /\ routing.offsets[e] = size * BlocksBefore(e)
    BY <2>1, <1>1, ExactPlaces
  <2>5. /\ BlocksBefore(e) \in Nat /\ BlocksOf(e) \in Nat
        /\ BlocksBefore(e + 1) = BlocksBefore(e) + BlocksOf(e)
        /\ Chosen(e, Routed) <= size * BlocksOf(e) /\ size \in Nat \ {0}
    BY <2>4, BlocksBeforeAdd, RowsFitBlocks DEF BoundsInv, RoutingTypes
  <2>6. k \in Nat /\ k < size * BlocksOf(e)
    <3>. DEFINE room == size * BlocksOf(e)
    <3>1. room \in Nat /\ Chosen(e, Routed) <= room
      BY <2>5
    <3>. HIDE DEF room, k
    <3>2. k \in Nat /\ k < room
      BY <3>1, <2>3, <2>4
    <3>. QED  BY <3>2 DEF room
  <2>. HIDE DEF k, size
  <2>7. (size * BlocksBefore(e) + k) \div size
            \in BlocksBefore(e)..(BlocksBefore(e) + BlocksOf(e) - 1)
    BY <2>5, <2>6, PlaceInBlocks
  <2>8. b \in BlocksBefore(e)..(BlocksBefore(e + 1) - 1)
    BY <2>1, <2>4, <2>5, <2>7
  <2>. HIDE DEF b
  <2>9. routing'.blocks[b + 1] = e
    BY <2>1, <2>8, <1>1 DEF BlocksInOrder
  <2>. QED  BY <2>2, <2>9 DEF b, e
<1>6. ASSUME NEW i \in Buffer, NEW e \in RoutedExperts,
             i - routing.offsets[e] \in 0..(Chosen(e, Routed) - 1)
      PROVE  i \in {Bucket(row) : row \in {r \in Routed : Known(r)}}
  <2>. DEFINE k == i - routing.offsets[e]  S == Selecting(e)
  <2>1. S \in SUBSET Nat /\ IsFiniteSet(S) /\ k \in 0..(Cardinality(S) - 1)
    BY <1>3, <1>6
  <2>. HIDE DEF k, S
  <2>2. PICK row \in S : Lower(S, row) = k
    BY <2>1, LowerCounts
  <2>3. row \in Routed /\ routing.selected[row] = e
    BY <2>2 DEF S, Selecting
  <2>4. Known(row)
    <3>1. e < routing.experts
      BY DEF BoundsInv, RoutingTypes, RoutedExperts
    <3>. QED  BY <3>1, <2>3 DEF Known
  <2>5. Bucket(row) = routing.offsets[e] + k
    BY <2>2, <2>3, <2>4, <1>4 DEF S
  <2>6. routing.offsets[e] \in Nat /\ i \in Int
    <3>1. i \in Int
      BY RowsBelowAdd DEF Buffer, BoundsInv, RoutingTypes
    <3>. QED  BY <3>1 DEF BoundsInv, RoutingTypes
  <2>7. Bucket(row) = i
    BY <2>5, <2>6 DEF k
  <2>. QED  BY <2>3, <2>4, <2>7
<1>7. Len(routing'.blocks) = BlocksBefore(routing.experts)
  BY <1>1 DEF BlocksInOrder
<1>8. \A i \in Buffer : i \in {Bucket(row) : row \in {r \in Routed : Known(r)}}
                          \/ routing'.sorted[i] = RoutedCount
  BY <1>3, <1>6
<1>. QED  BY <1>1, <1>5, <1>7, <1>8, SameBuckets

-----------------------------------------------------------------------------
(* The kernel among the other steps.                                       *)

(* Only the kernel's own steps are of its state.                           *)
LEMMA KernelAlone ==
    ASSUME world \in Worlds, [Next]_vars
    PROVE  \/ UNCHANGED routing
           \/ RouteStep
           \/ EndRoutes
           \/ \E selected : /\ selected \in world.routes.selections
                            /\ BeginRoutes(selected, world.routes.experts,
                                           world.routes.block)
<1>1. ASSUME NEW t, NEW slot, Create(t, slot) \/ Begin(t, slot) \/ Drop(slot)
      PROVE  UNCHANGED routing
  BY <1>1 DEF Create, Begin, Drop
<1>2. ASSUME NEW t, NEW slot, Call(t, slot)  PROVE UNCHANGED routing
  BY <1>2 DEF Call
<1>3. ASSUME NEW t, ProjectionStep(t)  PROVE UNCHANGED routing
  BY <1>3
  DEF ProjectionStep, LockInput, LockFactors, LockPlan, Lock, LaunchQuantize, ExecutePlan
<1>4. ASSUME NEW s, Run(s)  PROVE UNCHANGED routing
  BY <1>4 DEF Run
<1>5. ASSUME NEW s, StartRoutes(s)
      PROVE  \E selected : /\ selected \in world.routes.selections
                           /\ BeginRoutes(selected, world.routes.experts,
                                          world.routes.block)
  BY <1>5 DEF StartRoutes
<1>6. ASSUME NEW s, FinishRoutes(s)  PROVE EndRoutes
  BY <1>6 DEF FinishRoutes
<1>7. CASE StepRoutes
  BY <1>7 DEF StepRoutes
<1>8. CASE UNCHANGED vars
  BY <1>8 DEF vars
<1>. QED  BY <1>1, <1>2, <1>3, <1>4, <1>5, <1>6, <1>7, <1>8 DEF Next

(* A step of the kernel keeps its books.                                   *)
LEMMA RouteKeeps ==
    ASSUME BoundsInv, SortedInv, RouteStep
    PROVE  BoundsInv' /\ SortedInv'
<1>. DEFINE Placed == BlocksInOrder' /\ PlacesHoldRows'
<1>1. ASSUME routing'.phase = "count"  PROVE SortedInv'
  BY <1>1 DEF SortedInv, BlocksInOrder, PlacesHoldRows, RoutesAreBuckets
<1>2. ASSUME routing'.phase = "place", Placed  PROVE SortedInv'
  BY <1>2 DEF SortedInv, RoutesAreBuckets
<1>3. ASSUME NEW e \in RoutedExperts, ZeroCount(e)  PROVE BoundsInv' /\ SortedInv'
  BY <1>1, <1>3, ZeroKeepsBounds
<1>4. ASSUME NEW row \in Routed, CountRow(row)  PROVE BoundsInv' /\ SortedInv'
  BY <1>1, <1>4, CountKeepsBounds
<1>5. ASSUME PlaceBlocks  PROVE BoundsInv' /\ SortedInv'
  BY <1>2, <1>5, BlocksKeepBounds, BlocksArePlaced, PlacesAreEmpty
<1>6. ASSUME NEW row \in Routed, PlaceRow(row)  PROVE BoundsInv' /\ SortedInv'
  BY <1>2, <1>6, PlaceKeepsBounds, PlacesStayHeld DEF SortedInv
<1>7. ASSUME SortRows  PROVE BoundsInv' /\ SortedInv'
  <2>1. BoundsInv' /\ routing'.phase = "done"
    BY <1>7, SortKeepsBounds
  <2>2. BlocksInOrder' /\ RoutesAreBuckets'
    BY <1>7, SortFillsBuckets DEF SortedInv
  <2>3. PlacesHoldRows'
    BY <2>1 DEF PlacesHoldRows
  <2>. QED  BY <2>1, <2>2, <2>3 DEF SortedInv
<1>. QED  BY <1>3, <1>4, <1>5, <1>6, <1>7 DEF RouteStep

(* So does every other step.                                               *)
LEMMA StepKeepsRoutes ==
    ASSUME world \in Worlds, RouteInv, [Next]_vars
    PROVE  RouteInv'
<1>1. CASE UNCHANGED routing
  <2>1. BoundsInv => BoundsInv'
    BY <1>1
    DEF BoundsInv, RoutingTypes, CountsAreOfRows, RanksArePlaced, NothingIsPlaced,
        OffsetsFit, Fields, RoutedExperts, Routed, RoutedCount, Buffer, Choosing, Chosen
  <2>2. ASSUME BoundsInv, SortedInv  PROVE SortedInv'
    <3>0. SameRows /\ DOMAIN routing'.sorted = Buffer
      BY <1>1, <2>2 DEF BoundsInv, RoutingTypes, SameRows
    <3>1. BlocksInOrder => BlocksInOrder'
      BY <1>1, <3>0, SameOrder DEF BlocksInOrder
    <3>2. PlacesHoldRows => PlacesHoldRows'
      BY <1>1 DEF PlacesHoldRows, Exact, RoutedExperts, Routed, RoutedCount, Buffer, Chosen
    <3>3. InBuckets => InBuckets'
      BY <1>1, <3>0, SameBuckets DEF InBuckets, RoutedCount
    <3>4. RoutesAreBuckets => RoutesAreBuckets'
      BY <1>1, <3>3 DEF RoutesAreBuckets, RoutedExperts, Routed, Selecting
    <3>. QED  BY <2>2, <3>1, <3>2, <3>4 DEF SortedInv
  <2>. QED  BY <1>1, <2>1, <2>2 DEF RouteInv, Idle
<1>2. CASE RouteStep
  <2>1. routing # Idle
    BY <1>2 DEF RouteStep, Idle
  <2>. QED  BY <1>2, <2>1, RouteKeeps DEF RouteInv
<1>3. CASE EndRoutes
  BY <1>3 DEF EndRoutes, RouteInv, Idle
<1>4. ASSUME NEW selected \in world.routes.selections,
             BeginRoutes(selected, world.routes.experts, world.routes.block)
      PROVE  RouteInv'
  <2>1. /\ world.routes.experts \in Nat \ {0} /\ world.routes.block \in Nat \ {0}
        /\ IsFiniteSet(DOMAIN selected)
        /\ selected \in [0..(Cardinality(DOMAIN selected) - 1) -> Nat]
    BY RoutesAreKnown
  <2>2. BoundsInv' /\ routing'.phase = "count"
    BY <1>4, <2>1, BeginKeepsBounds
  <2>3. SortedInv'
    BY <2>2 DEF SortedInv, BlocksInOrder, PlacesHoldRows, RoutesAreBuckets
  <2>. QED  BY <2>2, <2>3 DEF RouteInv
<1>. QED  BY <1>1, <1>2, <1>3, <1>4, KernelAlone

(* The books of the kernel are true of every state.                        *)
THEOREM RoutesInductive == Spec => []RouteInv
<1>1. Init => RouteInv
  BY DEF Init, RouteInv
<1>2. IInv /\ RouteInv /\ [Next]_vars => RouteInv'
  BY StepKeepsRoutes DEF IInv, BaseInv, Types
<1>. QED  BY <1>1, <1>2, InductiveInvariant, PTL DEF Spec

(* RoutesStayInBounds: the offsets leave every expert room for its rows    *)
(* and less than a block more, so that the buffer that the facade sizes    *)
(* for all of them is never left, even when counts were lost.              *)
THEOREM RoutesInBounds == Spec => []RoutesStayInBounds
<1>1. RouteInv => RoutesStayInBounds
  BY BoundsSuffice DEF RouteInv, Idle, RoutesStayInBounds
<1>. QED  BY <1>1, RoutesInductive, PTL

(* RoutesAreBuckets: when no count was lost, blocks follow in the order of *)
(* the experts, by the scan as by the serial loop; every place that was    *)
(* given out holds one of its expert's rows; and sorting leaves them in    *)
(* the one order that does not depend on the threads' schedule.            *)
THEOREM RoutesBuckets == Spec => []RoutesAreBuckets
<1>1. RouteInv => RoutesAreBuckets
  BY DEF RouteInv, SortedInv, Idle, RoutesAreBuckets
<1>. QED  BY <1>1, RoutesInductive, PTL
=============================================================================
