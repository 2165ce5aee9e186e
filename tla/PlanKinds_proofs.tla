-------------------------- MODULE PlanKinds_proofs --------------------------
(* Theorems about the kinds of plans and calls: for every shape, what the  *)
(* checks let through is enough for what the kernels touch.                *)
EXTENDS MoeRoutes_proofs, PlanKinds

Demands == [len : Nat, width : 1..UsizeMax, exact : BOOLEAN]

(* Operands that meet a demand have as many bytes.                         *)
Covers(demand, bytes) ==
    demand.len = Over \/ (bytes \in Int /\ bytes <= demand.len * demand.width)

(* Operands that meet a facade's demand meet the demand below, unless the  *)
(* facade leaves it to that layer.                                         *)
Agree(facade, below) ==
    \/ facade = Some(facade.width) \/ facade.len = Over
    \/ /\ facade.exact /\ below.exact
       /\ IF below.len = Over THEN facade.len > 1
          ELSE below.len = facade.len * facade.width

Measures(execute) == "sizes" \in Range(execute.order)

(* An operand of a shape: what it is demanded to be suits the kernels.     *)
Suits(facade, below, bytes, execute) ==
    /\ facade \in Demands /\ below \in Demands /\ below.width = 1
    /\ Measures(execute) => Agree(facade, below)
    /\ execute.accepted =>
         (Measures(execute) /\ Covers(below, bytes)) \/ Covers(facade, bytes)

(* One that an earlier call prepared.                                      *)
IsPrepared(facade, below, bytes, execute, i) ==
    /\ facade \in Demands /\ below \in Demands /\ below.width = 1 /\ bytes \in Int
    /\ facade = Some(facade.width)
    /\ i \in DOMAIN execute.prepared /\ execute.prepared[i] \in Nat
    /\ execute.accepted => bytes <= execute.prepared[i]

(* One whose size no buffer has: no call gets to the kernels.              *)
Hopeless(sizes, execute, i) ==
    Measures(execute) /\ sizes[i] = Of(Over, 1) /\ i \notin DOMAIN execute.prepared

AllSuit(lengths, sizes, execute) ==
    /\ \/ DOMAIN execute.touches = DOMAIN lengths
       \/ \E i \in DOMAIN lengths : Hopeless(sizes, execute, i)
    /\ \A i \in DOMAIN lengths :
         \/ IsPrepared(lengths[i], sizes[i], execute.touches[i], execute, i)
         \/ /\ i \notin DOMAIN execute.prepared
            /\ Suits(lengths[i], sizes[i], execute.touches[i], execute)

Sound(shape) ==
    (shape.spec /\ shape.create) => AllSuit(shape.lengths, shape.sizes, shape.execute)

(* What suits also does where it may be left astray.                       *)
LEMMA WithinSuits ==
    ASSUME NEW facade, NEW below, NEW bytes, NEW execute,
           Suits(facade, below, bytes, execute), NEW inside \in BOOLEAN
    PROVE  Suits(facade, below, Within(inside, bytes), execute)
<1>1. ASSUME NEW demand \in Demands  PROVE Covers(demand, Astray)
  <2>1. demand.len \in Nat /\ demand.width \in Nat
    BY WordWidths DEF Demands
  <2>2. demand.len * demand.width \in Nat
    BY <2>1
  <2>. QED  BY <2>2 DEF Covers, Astray
<1>2. CASE inside
  BY <1>2 DEF Within
<1>3. CASE ~inside
  BY <1>1, <1>3 DEF Within, Suits
<1>. QED  BY <1>2, <1>3

(* And where products index it.                                            *)
LEMMA IndexedSuits ==
    ASSUME NEW facade, NEW below, NEW bytes, NEW execute,
           Suits(facade, below, bytes, execute), NEW products
    PROVE  Suits(facade, below, Indexed(products, bytes), execute)
BY WithinSuits DEF Indexed, Narrow

-----------------------------------------------------------------------------
(* What callers pass.                                                      *)

(* Sizes are of whole elements; one whose demand is beyond words is small. *)
Given(shape, given) ==
    /\ DOMAIN given = DOMAIN shape.lengths
    /\ \A i \in DOMAIN given :
         LET width == shape.lengths[i].width IN
         /\ given[i] \in Nat
         /\ i \in DOMAIN shape.execute.prepared => given[i] = shape.execute.prepared[i]
         /\ i \notin DOMAIN shape.execute.prepared =>
              /\ \E n \in Nat : given[i] = width * n
              /\ Over \in {shape.lengths[i].len, shape.sizes[i].len} =>
                     given[i] \in {0, width}

(* Multiples of a width, and division by it.                               *)
LEMMA Multiples ==
    ASSUME NEW width \in Nat \ {0}, NEW n \in Nat
    PROVE  (width * n) \div width = n
  OBVIOUS

(* So many elements of a width are so many bytes at least.                 *)
LEMMA Quotients ==
    ASSUME NEW width \in Nat \ {0}, NEW n \in Nat, NEW bytes \in Nat, bytes \div width >= n
    PROVE  bytes >= n * width
<1>. DEFINE q == bytes \div width
<1>1. q \in Int /\ width * q <= bytes
  OBVIOUS
<1>2. \A r \in Int : r >= n => width * r >= width * n
  OBVIOUS
<1>3. width * q >= width * n
  BY <1>1, <1>2
<1>. QED  BY <1>1, <1>3

(* Words of the program, and products of two or three numbers.             *)
LEMMA WordsAreWide ==
    /\ UsizeMax \in Nat /\ UsizeMax >= 15 /\ Over \in Nat /\ Over > UsizeMax
    /\ I32Max \in Nat \ {0} /\ U32Max \in Nat /\ I32Max < U32Max /\ U32Max < UsizeMax
    /\ 2048 * I32Max <= UsizeMax /\ U32Max + 127 * I32Max <= UsizeMax
    /\ \A a, b \in 0..I32Max : a * b * 4 <= UsizeMax
<1>1. /\ I32Max \in Nat \ {0} /\ I32Max >= 1023 /\ U32Max = 2 * I32Max + 1
      /\ UsizeMax = (U32Max + 1) * (U32Max + 1) - 1 /\ UsizeMax \in Nat
  BY WordWidths
<1>2. UsizeMax = 4 * (I32Max * I32Max) + 8 * I32Max + 3
  BY <1>1
<1>3. I32Max * I32Max \in Nat /\ I32Max * I32Max >= 1023 * I32Max
  BY <1>1
<1>4. ASSUME NEW a \in 0..I32Max, NEW b \in 0..I32Max
      PROVE  a * b * 4 <= UsizeMax
  <2>1. a * b <= a * I32Max /\ a * I32Max <= I32Max * I32Max
    BY <1>1
  <2>2. a * b \in Nat /\ a * b <= I32Max * I32Max
    BY <1>1, <2>1
  <2>. QED  BY <1>1, <1>2, <1>3, <2>2
<1>. QED  BY <1>1, <1>2, <1>3, <1>4 DEF Over

(* The calls that the model offers are of such sizes.                      *)
LEMMA InputsAreGiven ==
    ASSUME NEW shape, shape.spec, shape.create, Sound(shape), NEW c \in Inputs(shape)
    PROVE  Given(shape, c.given) /\ DOMAIN c.given = DOMAIN shape.lengths
<1>. DEFINE operands == DOMAIN shape.lengths
            prepared == shape.execute.prepared
            measured == operands \ DOMAIN prepared
            width(i) == shape.lengths[i].width
            given    == Fitting(shape)
            Small(i) == Over \in {shape.lengths[i].len, shape.sizes[i].len}
<1>1. \A i \in operands : /\ shape.lengths[i] \in Demands /\ shape.sizes[i] \in Demands
                          /\ i \in DOMAIN prepared => prepared[i] \in Nat
  BY DEF Sound, AllSuit, IsPrepared, Suits
<1>2. \A i \in operands : /\ width(i) \in Nat \ {0} /\ shape.lengths[i].len \in Nat
                          /\ shape.sizes[i].len \in Nat
  BY <1>1 DEF Demands
<1>3. DOMAIN given = operands
  BY DEF Fitting
<1>4. ASSUME NEW i \in operands
      PROVE  /\ i \in DOMAIN prepared => given[i] = prepared[i]
             /\ i \notin DOMAIN prepared =>
                    /\ \E n \in Nat : given[i] = width(i) * n
                    /\ Small(i) => given[i] = 0
  <2>1. CASE i \in DOMAIN prepared
    BY <2>1 DEF Fitting
  <2>2. CASE i \notin DOMAIN prepared /\ Small(i)
    <3>1. given[i] = 0
      BY <2>2 DEF Fitting
    <3>2. width(i) * 0 = 0 /\ 0 \in Nat
      BY <1>2
    <3>. QED  BY <2>2, <3>1, <3>2
  <2>3. CASE i \notin DOMAIN prepared /\ ~Small(i)
    <3>. DEFINE n == IF shape.lengths[i].len > 0 THEN shape.lengths[i].len
                     ELSE DivCeil(shape.sizes[i].len, width(i))
    <3>1. given[i] = width(i) * n
      BY <2>3 DEF Fitting
    <3>2. DivCeil(shape.sizes[i].len, width(i)) \in Nat
      BY <1>2 DEF DivCeil
    <3>3. n \in Nat
      BY <1>2, <3>2
    <3>. QED  BY <2>3, <3>1, <3>3
  <2>. QED  BY <2>1, <2>2, <2>3
<1>. HIDE DEF given
<1>5. \A i \in operands : given[i] \in Nat
  BY <1>1, <1>2, <1>4
<1>6. PICK g, h, s, bind :
        /\ c = Input(g, h, s, bind)
        /\ \/ g = given
           \/ \E i \in measured : g = [given EXCEPT ![i] = @ + width(i)]
           \/ \E i \in measured : given[i] > 0 /\ g = [given EXCEPT ![i] = @ - width(i)]
  <2>. DEFINE homes == [i \in operands |-> Own]
  <2>1. \/ \E h, s, bind : c = Input(given, h, s, bind)
        \/ c \in {Input([given EXCEPT ![i] = @ + width(i)], homes, Own, TRUE) :
                     i \in measured}
        \/ c \in {Input([given EXCEPT ![i] = @ - width(i)], homes, Own, TRUE) :
                     i \in {j \in measured : given[j] > 0}}
    BY Zenon DEF Inputs, given
  <2>. QED  BY <2>1, Zenon
<1>7. DOMAIN g = operands /\ c.given = g
  BY <1>3, <1>6 DEF Input
<1>8. ASSUME NEW i \in operands
      PROVE  /\ g[i] \in Nat
             /\ i \in DOMAIN prepared => g[i] = prepared[i]
             /\ i \notin DOMAIN prepared =>
                  /\ \E n \in Nat : g[i] = width(i) * n
                  /\ Small(i) => g[i] \in {0, width(i)}
  <2>1. CASE g[i] = given[i]
    BY <1>4, <1>5, <2>1
  <2>2. CASE i \in measured /\ g[i] = given[i] + width(i)
    <3>1. PICK n \in Nat : given[i] = width(i) * n
      BY <1>4, <2>2
    <3>2. n + 1 \in Nat /\ \A w \in Nat : w * (n + 1) = w * n + w
      BY <3>1
    <3>3. g[i] = width(i) * (n + 1)
      BY <1>2, <2>2, <3>1, <3>2
    <3>. QED  BY <1>2, <1>4, <1>5, <2>2, <3>2, <3>3
  <2>3. CASE i \in measured /\ given[i] > 0 /\ g[i] = given[i] - width(i)
    <3>1. PICK n \in Nat : given[i] = width(i) * n
      BY <1>4, <2>3
    <3>2. n # 0
      BY <1>2, <2>3, <3>1
    <3>3. g[i] = width(i) * (n - 1) /\ n - 1 \in Nat
      BY <1>2, <2>3, <3>1, <3>2
    <3>4. g[i] \in Nat
      BY <1>2, <3>3
    <3>. QED  BY <1>4, <2>3, <3>3, <3>4
  <2>. QED  BY <1>3, <1>6, <2>1, <2>2, <2>3
<1>. QED  BY <1>7, <1>8 DEF Given

(* The first and the last check of a call that is let through passed too,  *)
(* and the first of one that is refused later.                             *)
LEMMA EdgesPassed ==
    ASSUME NEW shape, NEW c, shape.execute.order \in Seq(CheckNames)
    PROVE  /\ Refused(shape, c) = "none" =>
                /\ Passes(shape, c)["lengths"] /\ Passes(shape, c)["numbers"]
                /\ "sizes" \in Range(shape.execute.order) => Passes(shape, c)["sizes"]
           /\ Refused(shape, c) = "sizes" =>
                /\ Passes(shape, c)["lengths"] /\ ~Passes(shape, c)["sizes"]
                /\ "sizes" \in Range(shape.execute.order)
<1>. DEFINE order == shape.execute.order
            checks == Checks(shape)
            failing == {i \in DOMAIN checks : ~Passes(shape, c)[checks[i]]}
<1>1. /\ DOMAIN checks = 1..(Len(order) + 2) /\ Len(order) \in Nat
      /\ checks[1] = "lengths" /\ checks[Len(order) + 2] = "numbers"
      /\ \A i \in 1..Len(order) : checks[i + 1] = order[i]
  <2>. DEFINE names == {"lengths", "numbers"} \cup CheckNames
  <2>1. <<"lengths">> \in Seq(names) /\ <<"numbers">> \in Seq(names) /\ order \in Seq(names)
        /\ Len(<<"lengths">>) = 1 /\ Len(<<"numbers">>) = 1 /\ <<"lengths">>[1] = "lengths"
        /\ <<"numbers">>[1] = "numbers"
    OBVIOUS
  <2>. HIDE DEF names
  <2>2. /\ (<<"lengths">> \o order) \in Seq(names)
        /\ Len(<<"lengths">> \o order) = Len(order) + 1 /\ Len(order) \in Nat
        /\ (<<"lengths">> \o order)[1] = "lengths"
        /\ \A i \in 1..Len(order) : (<<"lengths">> \o order)[i + 1] = order[i]
    BY <2>1, ConcatProperties
  <2>3. /\ DOMAIN checks = 1..(Len(order) + 2)
        /\ \A i \in 1..(Len(order) + 1) : checks[i] = (<<"lengths">> \o order)[i]
        /\ checks[Len(order) + 2] = "numbers"
    BY <2>1, <2>2, ConcatProperties DEF Checks
  <2>4. 1 \in 1..(Len(order) + 1) /\ \A i \in 1..Len(order) : i + 1 \in 1..(Len(order) + 1)
    BY <2>2
  <2>. QED  BY <2>2, <2>3, <2>4
<1>2. CASE Refused(shape, c) = "none"
  <2>1. \A i \in DOMAIN checks : Passes(shape, c)[checks[i]]
    BY <1>2, RefusedIsNamed
  <2>2. 1 \in DOMAIN checks /\ Len(order) + 2 \in DOMAIN checks
    BY <1>1
  <2>3. ASSUME NEW i \in DOMAIN order  PROVE Passes(shape, c)[order[i]]
    <3>1. DOMAIN order = 1..Len(order)
      OBVIOUS
    <3>2. i + 1 \in DOMAIN checks /\ checks[i + 1] = order[i]
      BY <1>1, <3>1
    <3>. QED  BY <2>1, <3>2
  <2>4. "sizes" \in Range(order) => Passes(shape, c)["sizes"]
    BY <2>3 DEF Range
  <2>. HIDE DEF checks
  <2>. QED  BY <1>1, <1>2, <2>1, <2>2, <2>4
<1>3. CASE Refused(shape, c) = "sizes"
  <2>. HIDE DEF checks
  <2>1. failing # {} /\ checks[Min(failing)] = "sizes"
    BY <1>3 DEF Refused, checks
  <2>2. failing \in SUBSET Nat
    BY <1>1
  <2>3. PICK m \in failing : \A k \in failing : m <= k
    BY <2>1, <2>2, LeastElement
  <2>4. Min(failing) \in failing /\ \A k \in failing : Min(failing) <= k
    BY <2>3 DEF Min
  <2>5. ~Passes(shape, c)["sizes"]
    BY <2>1, <2>4
  <2>6. 1 \notin failing
    <3>1. Min(failing) # 1
      BY <1>1, <2>1
    <3>2. \A k \in failing : k \in Nat /\ k >= 1
      BY <1>1
    <3>. HIDE DEF failing
    <3>. QED  BY <2>4, <3>1, <3>2
  <2>7. Passes(shape, c)["lengths"]
    BY <1>1, <2>6
  <2>8. PICK i \in 1..(Len(order) + 2) : checks[i] = "sizes"
    BY <1>1, <2>1, <2>4
  <2>9. i - 1 \in 1..Len(order) /\ order[i - 1] = "sizes"
    <3>1. i # 1 /\ i # Len(order) + 2
      BY <1>1, <2>8
    <3>2. i - 1 \in 1..Len(order) /\ (i - 1) + 1 = i
      BY <1>1, <3>1
    <3>. QED  BY <1>1, <2>8, <3>2
  <2>10. "sizes" \in Range(order)
    BY <2>9 DEF Range
  <2>. QED  BY <1>3, <2>5, <2>7, <2>10
<1>. QED  BY <1>2, <1>3

(* A call that is let through has what its kernels touch, whatever lengths *)
(* it passes: the model's, which suit or are one element off, or others.   *)
LEMMA LetThroughFits ==
    ASSUME NEW shape, shape.spec, shape.create, Sound(shape),
           CallIsKnown(shape.native, shape.execute.order),
           NEW c, Given(shape, c.given), Refused(shape, c) = "none"
    PROVE  /\ DOMAIN shape.execute.touches = DOMAIN c.given
           /\ \A i \in DOMAIN c.given : shape.execute.touches[i] <= c.given[i]
<1>. DEFINE execute == shape.execute
<1>1. Given(shape, c.given) /\ DOMAIN c.given = DOMAIN shape.lengths
  BY DEF Given
<1>2. /\ Passes(shape, c)["lengths"] /\ Passes(shape, c)["numbers"]
      /\ Measures(execute) => Passes(shape, c)["sizes"]
  <2>1. execute.order \in Seq(CheckNames)
    BY DEF CallIsKnown
  <2>. QED  BY <2>1, EdgesPassed DEF Measures
<1>3. /\ \A i \in DOMAIN c.given :
           Meets(shape.lengths[i], c.given[i] \div shape.lengths[i].width)
      /\ Measures(execute) => \A i \in DOMAIN c.given : Meets(shape.sizes[i], c.given[i])
      /\ execute.accepted
  BY <1>2 DEF Passes
<1>4. ASSUME NEW i \in DOMAIN c.given
      PROVE  execute.touches[i] <= c.given[i]
  <2>. DEFINE facade == shape.lengths[i]
              below  == shape.sizes[i]
              bytes  == execute.touches[i]
  <2>1. c.given[i] \in Nat /\ (i \in DOMAIN execute.prepared => c.given[i] = execute.prepared[i])
    BY <1>1 DEF Given
  <2>2. CASE IsPrepared(facade, below, bytes, execute, i)
    BY <1>3, <2>1, <2>2 DEF IsPrepared
  <2>3. CASE i \notin DOMAIN execute.prepared /\ Suits(facade, below, bytes, execute)
    <3>1. /\ facade \in Demands /\ below \in Demands /\ below.width = 1
          /\ (Measures(execute) /\ Covers(below, bytes)) \/ Covers(facade, bytes)
      BY <1>3, <2>3 DEF Suits
    <3>2. Over \in {facade.len, below.len} => c.given[i] \in {0, facade.width}
      BY <1>1, <2>3 DEF Given
    <3>3. facade.width \in Nat \ {0} /\ facade.width < Over /\ facade.len \in Nat
          /\ below.len \in Nat
      BY <3>1, WordsAreWide DEF Demands, Over
    <3>4. CASE Measures(execute) /\ Covers(below, bytes)
      <4>1. c.given[i] >= below.len
        BY <1>3, <2>1, <3>3, <3>4 DEF Meets
      <4>2. below.len # Over
        BY <3>2, <3>3, <4>1, WordsAreWide
      <4>. QED  BY <2>1, <3>1, <3>3, <3>4, <4>1, <4>2 DEF Covers
    <3>5. CASE Covers(facade, bytes)
      <4>1. c.given[i] \div facade.width >= facade.len
        BY <1>3, <2>1, <3>3 DEF Meets
      <4>2. c.given[i] >= facade.len * facade.width
        BY <2>1, <3>3, <4>1, Quotients
      <4>3. facade.len # Over
        <5>1. facade.len <= facade.len * facade.width
          BY <3>3
        <5>. QED  BY <3>2, <3>3, <4>2, <5>1, WordsAreWide
      <4>. QED  BY <2>1, <3>1, <3>3, <3>5, <4>2, <4>3 DEF Covers
    <3>. QED  BY <3>1, <3>4, <3>5
  <2>. QED  BY <1>1, <2>2, <2>3 DEF Sound, AllSuit
<1>5. ASSUME NEW i \in DOMAIN shape.lengths, Hopeless(shape.sizes, execute, i)
      PROVE  FALSE
  <2>1. /\ shape.sizes[i].len = Over /\ Meets(shape.sizes[i], c.given[i])
        /\ c.given[i] = shape.sizes[i].len /\ i \notin DOMAIN execute.prepared
    BY <1>1, <1>3, <1>5 DEF Hopeless, Of, Meets
  <2>2. shape.lengths[i] \in Demands
    BY <2>1 DEF Sound, AllSuit, Suits, IsPrepared
  <2>3. shape.lengths[i].width \in Nat /\ shape.lengths[i].width < Over
    BY <2>2, WordsAreWide DEF Demands, Over
  <2>. QED  BY <1>1, <2>1, <2>3, WordsAreWide DEF Given
<1>6. DOMAIN execute.touches = DOMAIN c.given
  BY <1>1, <1>5 DEF Sound, AllSuit
<1>. QED  BY <1>4, <1>6

(* A call that is refused its sizes has one that the facade leaves to the  *)
(* layer below.                                                            *)
LEMMA RefusedAgrees ==
    ASSUME NEW shape, shape.spec, shape.create, Sound(shape),
           CallIsKnown(shape.native, shape.execute.order),
           NEW c, Given(shape, c.given), Refused(shape, c) = "sizes"
    PROVE  \E i \in DOMAIN c.given :
               /\ shape.lengths[i] = Some(shape.lengths[i].width)
               /\ ~Meets(shape.sizes[i], c.given[i])
<1>. DEFINE execute == shape.execute
<1>1. Given(shape, c.given) /\ DOMAIN c.given = DOMAIN shape.lengths
  BY DEF Given
<1>2. /\ Passes(shape, c)["lengths"] /\ ~Passes(shape, c)["sizes"]
      /\ Measures(execute)
  BY EdgesPassed DEF CallIsKnown, Measures
<1>3. PICK i \in DOMAIN c.given : ~Meets(shape.sizes[i], c.given[i])
  BY <1>2 DEF Passes
<1>. DEFINE facade == shape.lengths[i]
            below  == shape.sizes[i]
            bytes  == execute.touches[i]
<1>4. Meets(facade, c.given[i] \div facade.width)
  BY <1>2 DEF Passes
<1>5. CASE facade = Some(facade.width)
  BY <1>3, <1>5
<1>6. CASE facade # Some(facade.width)
  <2>1. i \notin DOMAIN execute.prepared /\ Suits(facade, below, bytes, execute)
    BY <1>1, <1>6 DEF Sound, AllSuit, IsPrepared
  <2>2. /\ facade \in Demands /\ below \in Demands /\ below.width = 1
        /\ Agree(facade, below)
    BY <1>2, <2>1 DEF Suits
  <2>3. facade.width \in Nat \ {0} /\ facade.width < Over /\ facade.len \in Nat
        /\ below.len \in Nat /\ Over > 1
    BY <2>2, WordsAreWide DEF Demands, Over
  <2>4. /\ c.given[i] \in Nat
        /\ \E n \in Nat : c.given[i] = facade.width * n
        /\ Over \in {facade.len, below.len} => c.given[i] \in {0, facade.width}
    BY <1>1, <2>1 DEF Given
  <2>5. PICK n \in Nat : c.given[i] = facade.width * n
    BY <2>4
  <2>6. c.given[i] \div facade.width = n
    BY <2>3, <2>5, Multiples
  <2>7. c.given[i] \in {0, facade.width} => n <= 1
    <3>1. 0 \div facade.width = 0 /\ facade.width \div facade.width = 1
      BY <2>3, Multiples, \A w \in Nat : w * 0 = 0 /\ w * 1 = w
    <3>. QED  BY <2>6, <3>1
  <2>8. facade.len # Over
    BY <1>4, <2>3, <2>4, <2>6, <2>7 DEF Meets
  <2>9. facade.exact /\ below.exact
        /\ IF below.len = Over THEN facade.len > 1
           ELSE below.len = facade.len * facade.width
    BY <1>6, <2>2, <2>8 DEF Agree
  <2>10. facade.len = n
    BY <1>4, <2>6, <2>9 DEF Meets
  <2>11. below.len # Over
    BY <2>4, <2>7, <2>9, <2>10
  <2>12. facade.width * n = n * facade.width
    BY <2>3
  <2>13. Meets(below, c.given[i])
    BY <2>5, <2>9, <2>10, <2>11, <2>12 DEF Meets
  <2>. QED  BY <1>3, <2>13
<1>. QED  BY <1>5, <1>6

-----------------------------------------------------------------------------
(* What is recorded of the latest call.                                    *)
CallsAreSound == \A w \in Worlds : \A slot \in DOMAIN w.shapes : Sound(w.shapes[slot])

(* Of sound shapes every step leaves a call that is sound: only a call     *)
(* records anything, and what it records is what the checks let through.   *)
LEMMA StepKeepsCalls ==
    ASSUME IInv, CallsAreSound, LaunchFits, LayersAgree, [Next]_vars
    PROVE  LaunchFits' /\ LayersAgree'
<1>1. CASE last' = NoCall
  BY <1>1 DEF NoCall, LaunchFits, LayersAgree
<1>2. CASE UNCHANGED <<last, world>>
  BY <1>2 DEF LaunchFits, LayersAgree
<1>3. ASSUME NEW t, NEW slot \in Slots, Call(t, slot)
      PROVE  LaunchFits' /\ LayersAgree'
  <2>. DEFINE shape == world.shapes[slot]
  <2>1. shape.spec /\ shape.create /\ world' = world
    BY <1>3 DEF Call, IInv, BaseInv, ReadyIsCreated, Shape
  <2>2. world \in Worlds /\ slot \in DOMAIN world.shapes
    BY DEF IInv, BaseInv, Types, Slots
  <2>3. Sound(shape) /\ CallIsKnown(shape.native, shape.execute.order)
    BY <2>1, <2>2, WorldsAreKnown DEF CallsAreSound
  <2>4. PICK c \in Inputs(shape) :
          /\ last'.slot = slot /\ last'.given = c.given
          /\ last'.refused = Refused(shape, c)
          /\ last'.launched => Refused(shape, c) = "none"
    <3>. DEFINE record(c, launched) ==
                    [slot |-> slot, stream |-> c.stream, given |-> c.given,
                     homes |-> c.homes, flagged |-> Flagged(shape, c),
                     refused |-> Refused(shape, c), launched |-> launched]
    <3>1. PICK c \in Inputs(shape) :
            \/ Refused(shape, c) # "none" /\ last' = record(c, FALSE)
            \/ Refused(shape, c) = "none" /\ \E launched : last' = record(c, launched)
      BY <1>3, Zenon DEF Call
    <3>. QED  BY <3>1
  <2>. HIDE DEF shape
  <2>5. Given(shape, c.given)
    BY <2>1, <2>3, InputsAreGiven
  <2>6. LaunchFits'
    <3>1. ASSUME Refused(shape, c) = "none"
          PROVE  /\ DOMAIN shape.execute.touches = DOMAIN c.given
                 /\ \A i \in DOMAIN c.given : shape.execute.touches[i] <= c.given[i]
      BY <2>1, <2>3, <2>5, <3>1, LetThroughFits
    <3>. QED  BY <2>1, <2>4, <3>1 DEF LaunchFits, shape
  <2>7. LayersAgree'
    <3>1. ASSUME Refused(shape, c) = "sizes"
          PROVE  \E i \in DOMAIN c.given :
                     /\ shape.lengths[i] = Some(shape.lengths[i].width)
                     /\ ~Meets(shape.sizes[i], c.given[i])
      BY <2>1, <2>3, <2>5, <3>1, RefusedAgrees
    <3>. QED  BY <2>1, <2>4, <3>1 DEF LayersAgree, shape
  <2>. QED  BY <2>6, <2>7
<1>4. ASSUME NEW t, NEW slot, Create(t, slot) \/ Begin(t, slot) \/ Drop(slot)
      PROVE  last' = NoCall
  BY <1>4 DEF Create, Begin, Drop
<1>5. ASSUME NEW t, ProjectionStep(t)
      PROVE  last' = NoCall
  BY <1>5 DEF ProjectionStep, LockInput, LockFactors, LockPlan, Lock, LaunchQuantize, ExecutePlan
<1>6. ASSUME NEW s, Run(s) \/ StartRoutes(s) \/ FinishRoutes(s) \/ StepRoutes
      PROVE  last' = NoCall
  BY <1>6 DEF Run, StartRoutes, FinishRoutes, StepRoutes
<1>7. CASE UNCHANGED vars
  BY <1>2, <1>7 DEF vars
<1>. QED  BY <1>1, <1>3, <1>4, <1>5, <1>6, <1>7 DEF Next

-----------------------------------------------------------------------------
(* Checked arithmetic is exact until it does not fit.                      *)
Checked(n) == IF n <= UsizeMax THEN n ELSE Over

(* A product of two numbers.                                               *)
LEMMA MulIsChecked ==
    ASSUME NEW p \in Nat, NEW q \in Nat
    PROVE  Mul(p, q) = Checked(p * q)
<1>1. UsizeMax \in Nat
  BY WordsAreWide
<1>2. CASE p = 0 \/ q = 0
  BY <1>1, <1>2 DEF Mul, Checked
<1>3. CASE p # 0 /\ q # 0
  <2>. DEFINE most == UsizeMax \div q
  <2>1. most \in Nat /\ q * most <= UsizeMax /\ UsizeMax < q * most + q
    BY <1>1, <1>3
  <2>2. p <= most => p * q <= q * most
    BY <1>3, <2>1
  <2>3. p >= most + 1 => p * q >= q * most + q
    <3>1. \A a, b \in Nat : a >= b => a * q >= b * q
      OBVIOUS
    <3>2. (most + 1) * q = q * most + q
      BY <2>1
    <3>. QED  BY <2>1, <3>1, <3>2
  <2>4. p * q \in Nat
    OBVIOUS
  <2>. QED  BY <1>1, <1>3, <2>1, <2>2, <2>3, <2>4 DEF Mul, Checked
<1>. QED  BY <1>2, <1>3

(* Products of products: what is beyond words stays so.                    *)
LEMMA MulChecks ==
    ASSUME NEW p \in Nat, NEW q \in Nat
    PROVE  /\ Mul(Checked(p), q) = Checked(p * q)
           /\ Mul(q, Checked(p)) = Checked(q * p)
           /\ Mul(Checked(p), Checked(q)) = Checked(p * q)
<1>1. UsizeMax \in Nat /\ Over \in Nat /\ Over = UsizeMax + 1
  BY WordsAreWide DEF Over
<1>2. ASSUME NEW a \in Nat, NEW b \in Nat, a > UsizeMax
      PROVE  Mul(Over, b) = Checked(a * b) /\ Mul(b, Over) = Checked(b * a)
  <2>1. Mul(Over, b) = Checked(Over * b) /\ Mul(b, Over) = Checked(b * Over)
    BY <1>1, MulIsChecked
  <2>2. CASE b = 0
    BY <1>1, <2>1, <2>2
  <2>3. CASE b # 0
    <3>1. Over * b >= Over /\ b * Over >= Over /\ a * b >= a /\ b * a >= a
      BY <1>1, <2>3
    <3>2. Over * b \in Nat /\ b * Over \in Nat /\ a * b \in Nat /\ b * a \in Nat
      BY <1>1
    <3>. QED  BY <1>1, <1>2, <2>1, <3>1, <3>2 DEF Checked
  <2>. QED  BY <2>2, <2>3
<1>3. CASE p <= UsizeMax /\ q <= UsizeMax
  BY <1>1, <1>3, MulIsChecked DEF Checked
<1>4. CASE p > UsizeMax /\ q <= UsizeMax
  <2>1. Checked(p) = Over /\ Checked(q) = q
    BY <1>1, <1>4 DEF Checked
  <2>2. Mul(Over, q) = Checked(p * q) /\ Mul(q, Over) = Checked(q * p)
    BY <1>2, <1>4
  <2>. QED  BY <2>1, <2>2
<1>5. CASE p <= UsizeMax /\ q > UsizeMax
  <2>1. Checked(p) = p /\ Checked(q) = Over
    BY <1>1, <1>5 DEF Checked
  <2>. QED  BY <1>2, <1>5, <2>1, MulIsChecked
<1>6. CASE p > UsizeMax /\ q > UsizeMax
  <2>1. Checked(p) = Over /\ Checked(q) = Over
    BY <1>1, <1>6 DEF Checked
  <2>2. Mul(Over, q) = Checked(p * q) /\ Mul(q, Over) = Checked(q * p)
    BY <1>2, <1>6
  <2>3. Mul(Over, Over) = Checked(p * Over)
    BY <1>1, <1>2, <1>6
  <2>4. \A n \in Nat : n > UsizeMax => p * n \in Nat /\ p * n >= n
    BY <1>1, <1>6
  <2>5. p * Over > UsizeMax /\ p * q > UsizeMax /\ p * Over \in Nat /\ p * q \in Nat
    BY <1>1, <1>6, <2>4
  <2>. QED  BY <1>1, <2>1, <2>2, <2>3, <2>5 DEF Checked
<1>. QED  BY <1>1, <1>3, <1>4, <1>5, <1>6

(* Sums.                                                                   *)
LEMMA AddChecks ==
    ASSUME NEW p \in Nat, NEW q \in Nat
    PROVE  /\ Add(p, q) = Checked(p + q) /\ Add(Checked(p), q) = Checked(p + q)
           /\ Add(p, Checked(q)) = Checked(p + q)
           /\ Add(Checked(p), Checked(q)) = Checked(p + q)
BY WordsAreWide DEF Add, Checked, Over

(* Numbers that fit, and products that do not wrap.                        *)
LEMMA Fits ==
    ASSUME NEW p \in Nat
    PROVE  /\ Checked(p) \in Nat
           /\ Checked(p) # Over <=> p <= UsizeMax
           /\ Checked(p) # Over <=> Checked(p) = p /\ p # Over
           /\ p <= UsizeMax => Checked(p) = p
BY WordsAreWide DEF Checked, Over

(* A product that fits does not wrap.                                      *)
LEMMA TimesFits ==
    ASSUME NEW p \in Nat, NEW q \in Nat, p * q <= UsizeMax
    PROVE  Times(p, q) = p * q
BY WordsAreWide DEF Times

(* One that was checked fits.                                              *)
LEMMA MulFits ==
    ASSUME NEW p \in Nat, NEW q \in Nat, Mul(p, q) # Over
    PROVE  p * q \in Nat /\ p * q <= UsizeMax /\ Mul(p, q) = p * q
<1>1. p * q \in Nat
  OBVIOUS
<1>. QED  BY <1>1, MulIsChecked, Fits

(* A product of three numbers.                                             *)
LEMMA MulThree ==
    ASSUME NEW p \in Nat, NEW q \in Nat, NEW r \in Nat
    PROVE  p * q \in Nat /\ Mul(Mul(p, q), r) = Checked(p * q * r)
<1>. DEFINE n == p * q
<1>1. n \in Nat /\ Mul(p, q) = Checked(n)
  BY MulIsChecked
<1>. HIDE DEF n
<1>2. Mul(Checked(n), r) = Checked(n * r)
  BY <1>1, MulChecks
<1>. QED  BY <1>1, <1>2 DEF n

(* Operands that both layers measure exactly, and those that one does.     *)
LEMMA BothSuit ==
    ASSUME NEW n \in Nat, NEW width \in 1..15, NEW bytes \in Int, bytes <= n * width,
           NEW execute, Measures(execute)
    PROVE  Suits(Of(n, width), Of(Checked(n * width), 1), bytes, execute)
<1>1. UsizeMax \in Nat /\ UsizeMax >= 15 /\ n * width \in Nat
  BY WordsAreWide
<1>2. Checked(n * width) \in Nat
  BY <1>1, Fits
<1>3. n * width > UsizeMax => n > 1
  BY <1>1
<1>4. Agree(Of(n, width), Of(Checked(n * width), 1))
  BY <1>1, <1>3, Fits DEF Agree, Of
<1>5. Covers(Of(Checked(n * width), 1), bytes)
  BY <1>1, <1>2, Fits DEF Covers, Of
<1>. QED  BY <1>1, <1>2, <1>4, <1>5 DEF Suits, Of, Demands

(* A matrix of elements.                                                   *)
LEMMA ProductSuits ==
    ASSUME NEW p \in Nat, NEW q \in Nat, NEW width \in 1..15, p * q <= UsizeMax,
           NEW execute, Measures(execute)
    PROVE  Suits(Of(Times(p, q), width), Of(Mul(Mul(p, q), width), 1),
                 p * q * width, execute)
<1>. DEFINE n == p * q  bytes == n * width
<1>1. width \in Nat /\ n \in Nat /\ Times(p, q) = n
  BY TimesFits
<1>2. Mul(Mul(p, q), width) = Checked(bytes)
  BY <1>1, MulThree
<1>3. bytes \in Int /\ bytes <= n * width
  BY <1>1
<1>. HIDE DEF n
<1>4. Suits(Of(n, width), Of(Checked(n * width), 1), bytes, execute)
  BY <1>1, <1>3, BothSuit
<1>. QED  BY <1>1, <1>2, <1>4 DEF n

(* One row of elements.                                                    *)
LEMMA RowSuits ==
    ASSUME NEW p \in Nat, NEW width \in 1..15, NEW execute, Measures(execute)
    PROVE  Suits(Of(p, width), Of(Mul(p, width), 1), p * width, execute)
<1>. DEFINE bytes == p * width
<1>1. Mul(p, width) = Checked(p * width) /\ bytes \in Int /\ bytes <= p * width
  BY MulIsChecked
<1>. QED  BY <1>1, BothSuit

(* Bytes that both layers demand alike.                                    *)
LEMMA SameSuits ==
    ASSUME NEW n \in Nat, NEW bytes \in Int, n = Over \/ bytes <= n,
           NEW execute, Measures(execute)
    PROVE  Suits(Of(n, 1), Of(n, 1), bytes, execute)
BY WordsAreWide DEF Suits, Of, Demands, Agree, Covers

(* A facade's demand that the layer below does not check for overflow.     *)
LEMMA UncheckedSuits ==
    ASSUME NEW n \in Nat, NEW bytes \in Int, n = Over \/ bytes <= n,
           NEW execute, Measures(execute)
    PROVE  Suits(Of(n, 1), Of(OrZero(n), 1), bytes, execute)
BY WordsAreWide DEF Suits, Of, Demands, Agree, Covers, OrZero

(* Rows of narrow numbers, whose bytes do not wrap.                        *)
LEMMA WrappedRowSuits ==
    ASSUME NEW p \in 0..I32Max, NEW width \in 1..4, NEW execute, Measures(execute)
    PROVE  Suits(Of(p, width), Of(Times(p, width), 1), p * width, execute)
<1>1. p \in Nat /\ p * width \in Nat /\ p * width <= UsizeMax
  <2>1. p \in Nat /\ p * width <= 4 * I32Max
    BY WordsAreWide
  <2>. QED  BY <2>1, WordsAreWide
<1>2. Times(p, width) = p * width /\ Checked(p * width) = p * width
  BY <1>1, TimesFits, Fits
<1>. DEFINE bytes == p * width
<1>3. bytes \in Int /\ bytes <= p * width /\ width \in 1..15
  BY <1>1
<1>4. Suits(Of(p, width), Of(Checked(p * width), 1), bytes, execute)
  BY <1>1, <1>3, BothSuit
<1>. QED  BY <1>2, <1>4

(* One F32 factor for each of a product of narrow numbers: the layer below *)
(* neither checks them for overflow nor needs to.                          *)
LEMMA WrappedProductSuits ==
    ASSUME NEW p \in 0..I32Max, NEW q \in 0..I32Max, NEW execute, Measures(execute)
    PROVE  Suits(Of(Mul(p, q), 4), Of(Times(OrZero(Mul(p, q)), 4), 1), p * q * 4, execute)
<1>. DEFINE n == p * q  bytes == n * 4
<1>1. n \in Nat /\ bytes <= UsizeMax /\ bytes \in Int /\ n <= UsizeMax
  BY WordsAreWide
<1>2. Mul(p, q) = n
  BY <1>1, MulIsChecked, Fits, WordsAreWide
<1>. HIDE DEF n
<1>3. OrZero(n) = n /\ Times(n, 4) = n * 4 /\ Checked(n * 4) = n * 4
  BY <1>1, TimesFits, Fits, WordsAreWide DEF OrZero, Over
<1>4. Suits(Of(n, 4), Of(Checked(n * 4), 1), bytes, execute)
  BY <1>1, BothSuit
<1>. QED  BY <1>1, <1>2, <1>3, <1>4 DEF n

(* Bytes that are counted without a demand for overflow.                   *)
LEMMA CountsSuit ==
    ASSUME NEW p \in Nat, NEW q \in Nat, Mul(p, q) # Over,
           NEW execute, Measures(execute)
    PROVE  /\ Suits(Of(Times(p, q), 1), Of(OrZero(Mul(p, q)), 1), p * q, execute)
           /\ Suits(Of(Times(p, q), 1), Of(Mul(p, q), 1), p * q, execute)
<1>1. p * q \in Nat /\ Times(p, q) = p * q /\ Mul(p, q) = p * q
  BY MulFits, TimesFits
<1>. DEFINE n == p * q
<1>. HIDE DEF n
<1>2. OrZero(n) = n /\ Suits(Of(n, 1), Of(n, 1), n, execute)
  BY <1>1, SameSuits DEF OrZero, n
<1>. QED  BY <1>1, <1>2 DEF n

(* Two values to a byte.                                                   *)
LEMMA HalvesSuit ==
    ASSUME NEW p \in Nat, NEW q \in Nat, Mul(p, q) # Over,
           NEW execute, Measures(execute)
    PROVE  /\ Suits(Of(Times(p, q) \div 2, 1), Of(Fraction(Mul(p, q), 2), 1),
                    (p * q) \div 2, execute)
           /\ Suits(Of(Times(p, q) \div 2, 1), Of(OrZero(Mul(p, q)) \div 2, 1),
                    (p * q) \div 2, execute)
<1>. DEFINE n == p * q  half == n \div 2
<1>1. n \in Nat /\ n <= UsizeMax /\ Mul(p, q) = n /\ Times(p, q) = n
  BY MulFits, TimesFits
<1>. HIDE DEF n
<1>2. half \in Nat /\ Fraction(Mul(p, q), 2) = half /\ OrZero(Mul(p, q)) \div 2 = half
  BY <1>1, WordsAreWide DEF Fraction, OrZero, Over
<1>. HIDE DEF half
<1>3. Suits(Of(half, 1), Of(half, 1), half, execute)
  BY <1>2, SameSuits
<1>. QED  BY <1>1, <1>2, <1>3 DEF n, half

(* The largest of a bounded set of integers.                               *)
LEMMA MaxOfBounded ==
    ASSUME NEW S \in SUBSET Int, S # {}, NEW bound \in Int, \A x \in S : x <= bound
    PROVE  Max(S) \in S /\ (\A x \in S : x <= Max(S)) /\ Max(S) <= bound
<1>. DEFINE T == {bound - x : x \in S}
<1>1. T \in SUBSET Nat /\ T # {}
  <2>1. \A x \in S : bound - x \in Nat
    OBVIOUS
  <2>. QED  BY <2>1
<1>2. PICK m \in T : \A k \in T : m <= k
  BY <1>1, LeastElement
<1>3. PICK x \in S : m = bound - x
  BY <1>2
<1>4. \A y \in S : x >= y
  BY <1>2, <1>3
<1>5. Max(S) \in S /\ \A y \in S : Max(S) >= y
  BY <1>4 DEF Max
<1>. QED  BY <1>5

(* What reading every factor touches fits in the tiles.                    *)
LEMMA ScaleExtentFits ==
    ASSUME NEW rows \in Nat \ {0}, NEW columns \in Nat \ {0}, columns % 64 = 0
    PROVE  /\ ScaleExtent(rows, columns) \in Int
           /\ DivCeil(rows, 128) \in Nat /\ columns \div 64 \in Nat
           /\ ScaleExtent(rows, columns) <= DivCeil(rows, 128) * (columns \div 64) * 512
<1>. DEFINE tiles == columns \div 64  last_ == (rows - 1) \div 128
            block == columns \div 16 - 1
            S == {ScaleIndex(row, block, columns) : row \in (128 * last_)..(rows - 1)}
            before == last_ * tiles
            bound == before * 512 + tiles * 512 - 1
<1>1. /\ tiles \in Nat /\ tiles >= 1 /\ last_ \in Nat
      /\ block \div 4 = tiles - 1 /\ block % 4 = 3
      /\ DivCeil(rows, 128) = last_ + 1 /\ 128 * last_ <= rows - 1
  BY DEF DivCeil
<1>2. before \in Nat
  BY <1>1
<1>3. ASSUME NEW row \in (128 * last_)..(rows - 1)
      PROVE  ScaleIndex(row, block, columns) \in Int
             /\ ScaleIndex(row, block, columns) <= bound
  <2>1. row \in Int /\ row \div 128 = last_ /\ row % 32 \in 0..31 /\ (row % 128) \div 32 \in 0..3
    BY <1>1
  <2>2. ScaleIndex(row, block, columns) =
          before * 512 + (row % 32) * 16 + ((row % 128) \div 32) * 4 + (tiles - 1) * 512 + 3
    BY <1>1, <2>1 DEF ScaleIndex
  <2>. HIDE DEF before, tiles
  <2>. QED  BY <1>1, <1>2, <2>1, <2>2
<1>4. S # {} /\ S \in SUBSET Int /\ bound \in Int
  <2>1. 128 * last_ \in (128 * last_)..(rows - 1)
    BY <1>1
  <2>. QED  BY <1>1, <1>2, <1>3, <2>1
<1>5. Max(S) \in S /\ Max(S) <= bound
  <2>. HIDE DEF bound
  <2>1. \A x \in S : x <= bound
    BY <1>3
  <2>. HIDE DEF S
  <2>. QED  BY <1>4, <2>1, MaxOfBounded
<1>6. ScaleExtent(rows, columns) = 1 + Max(S)
  BY DEF ScaleExtent
<1>7. DivCeil(rows, 128) * tiles = before + tiles
  BY <1>1
<1>8. Max(S) \in Int
  BY <1>4, <1>5
<1>. HIDE DEF S, before, tiles
<1>9. ScaleExtent(rows, columns) <= (before + tiles) * 512
  BY <1>1, <1>2, <1>5, <1>6, <1>8
<1>. QED  BY <1>1, <1>6, <1>7, <1>8, <1>9 DEF tiles

(* Scale factors, as both layers count them.                               *)
LEMMA ScalesCount ==
    ASSUME NEW rows \in Nat \ {0}, NEW columns \in Nat \ {0}, columns % 64 = 0
    PROVE  /\ Fp4Scales(rows, columns) \in Nat /\ ScaleExtent(rows, columns) \in Int
           /\ \/ Fp4Scales(rows, columns) = Over
              \/ ScaleExtent(rows, columns) <= Fp4Scales(rows, columns)
<1>. DEFINE a == DivCeil(rows, 128)  b == columns \div 64  bytes == a * b * 512
<1>1. /\ ScaleExtent(rows, columns) \in Int /\ a \in Nat /\ b \in Nat
      /\ ScaleExtent(rows, columns) <= bytes
  BY ScaleExtentFits
<1>2. Fp4Scales(rows, columns) = Mul(Mul(a, b), 512)
  BY DEF Fp4Scales
<1>. HIDE DEF a, b
<1>3. Fp4Scales(rows, columns) = Checked(bytes) /\ bytes \in Nat
  BY <1>1, <1>2, MulThree
<1>. HIDE DEF bytes
<1>. QED  BY <1>1, <1>3, Fits

(* An operand that only the layer below measures.                          *)
LEMMA BelowSuits ==
    ASSUME NEW facade \in Demands, NEW n \in Nat, NEW exact \in BOOLEAN,
           NEW bytes \in Int, NEW execute, Measures(execute),
           facade = Some(facade.width) \/ facade.len = Over,
           execute.accepted => n = Over \/ bytes <= n
    PROVE  Suits(facade, [len |-> n, width |-> 1, exact |-> exact], bytes, execute)
BY WordsAreWide DEF Suits, Demands, Agree, Covers

(* One that only the facade measures.                                      *)
LEMMA FacadeSuits ==
    ASSUME NEW facade \in Demands, NEW below \in Demands, below.width = 1,
           NEW bytes \in Int, NEW execute, ~Measures(execute),
           execute.accepted => facade.len = Over \/ bytes <= facade.len * facade.width
    PROVE  Suits(facade, below, bytes, execute)
BY DEF Suits, Covers

-----------------------------------------------------------------------------
(* Matrices.                                                               *)

(* The native plan narrows the dimensions and takes elements of 16 bits;   *)
(* both layers demand the three matrices.                                  *)
LEMMA DenseIsSound ==
    ASSUME NEW d \in DenseDims
    PROVE  Sound(Dense(d))
<1>. SUFFICES ASSUME DenseSpec(d), DenseCreate(d)
              PROVE  AllSuit(DenseLengths(d), DenseSizes(d), DenseExecute(d))
  BY DEF Sound, Dense, Kind
<1>1. /\ d.m \in Nat /\ d.n \in Nat /\ d.k \in Nat /\ d.in \in 1..15 /\ d.out \in 1..15
  BY DEF DenseDims, Usize
<1>2. /\ d.m * d.k <= UsizeMax /\ d.n * d.k <= UsizeMax /\ d.m * d.n <= UsizeMax
  BY <1>1, MulFits DEF DenseSpec, Fit
<1>3. Measures(DenseExecute(d))
  BY DEF Measures, DenseExecute, Launch, LaunchIf, StreamFirst, Range
<1>5. /\ Suits(Of(Times(d.m, d.k), d.in), Of(Mul(Mul(d.m, d.k), d.in), 1),
               d.m * d.k * d.in, DenseExecute(d))
      /\ Suits(Of(Times(d.n, d.k), d.in), Of(Mul(Mul(d.n, d.k), d.in), 1),
               d.n * d.k * d.in, DenseExecute(d))
      /\ Suits(Of(Times(d.m, d.n), d.out), Of(Mul(Mul(d.m, d.n), d.out), 1),
               d.m * d.n * d.out, DenseExecute(d))
  BY <1>1, <1>2, <1>3, ProductSuits
<1>. QED  BY <1>5 DEF AllSuit, DenseLengths, DenseSizes, DenseExecute, Launch, LaunchIf, Exactly

(* The native plan takes a vector of 16-bit values only.                   *)
LEMMA VectorIsSound ==
    ASSUME NEW d \in VectorDims
    PROVE  Sound(Vector(d))
<1>. SUFFICES ASSUME VectorSpec(d), VectorCreate(d)
              PROVE  AllSuit(VectorLengths(d), VectorSizes(d), VectorExecute(d))
  BY DEF Sound, Vector, Kind
<1>1. d.n \in Nat /\ d.k \in Nat /\ d.in = 2 /\ 2 \in 1..15
  BY DEF VectorDims, Usize, VectorCreate
<1>2. d.n * d.k <= UsizeMax
  BY <1>1, MulFits DEF VectorSpec, Fit
<1>3. Measures(VectorExecute(d))
  BY DEF Measures, VectorExecute, Launch, LaunchIf, StreamFirst, Range
<1>4. /\ Suits(Of(d.k, 2), Of(Mul(d.k, 2), 1), d.k * 2, VectorExecute(d))
      /\ Suits(Of(Times(d.n, d.k), 2), Of(Mul(Mul(d.n, d.k), 2), 1),
               d.n * d.k * 2, VectorExecute(d))
      /\ Suits(Of(d.n, 2), Of(Mul(d.n, 2), 1), d.n * 2, VectorExecute(d))
  BY <1>1, <1>2, <1>3, ProductSuits, RowSuits
<1>. DEFINE last_ == (d.n - 1) * d.k + (IF d.k % 2 = 1 THEN d.k - 1 ELSE 0)
<1>5. Suits(Of(Times(d.n, d.k), 2), Of(Mul(Mul(d.n, d.k), 2), 1),
            Indexed({last_}, d.n * d.k * 2), VectorExecute(d))
  BY <1>4, IndexedSuits
<1>. QED  BY <1>1, <1>4, <1>5
          DEF AllSuit, VectorLengths, VectorSizes, VectorExecute, Launch, LaunchIf, Exactly

(* Two values to a byte, and factors in tiles whose last one decides.      *)
LEMMA Fp4IsSound ==
    ASSUME NEW d \in Fp4Dims
    PROVE  Sound(Fp4(d))
<1>. SUFFICES ASSUME Fp4Spec(d), Fp4Create(d)
              PROVE  AllSuit(Fp4Lengths(d), Fp4Sizes(d), Fp4Execute(d))
  BY DEF Sound, Fp4, Kind
<1>1. /\ d.m \in Nat \ {0} /\ d.n \in Nat \ {0} /\ d.k \in Nat \ {0} /\ d.k % 64 = 0
  BY DEF Fp4Dims, Usize, Fp4Spec, Fp4Create, Positive
<1>2. Mul(d.m, d.k) # Over /\ Mul(d.n, d.k) # Over /\ d.m * d.n <= UsizeMax
  BY <1>1, MulFits DEF Fp4Spec, Fit
<1>3. Measures(Fp4Execute(d))
  BY DEF Measures, Fp4Execute, Launch, LaunchIf, StreamFirst, Range
<1>4. /\ Suits(Of(Times(d.m, d.k) \div 2, 1), Of(Fraction(Mul(d.m, d.k), 2), 1),
               (d.m * d.k) \div 2, Fp4Execute(d))
      /\ Suits(Of(Times(d.n, d.k) \div 2, 1), Of(Fraction(Mul(d.n, d.k), 2), 1),
               (d.n * d.k) \div 2, Fp4Execute(d))
      /\ Suits(Of(Fp4Scales(d.m, d.k), 1), Of(Fp4Scales(d.m, d.k), 1),
               ScaleExtent(d.m, d.k), Fp4Execute(d))
      /\ Suits(Of(Fp4Scales(d.n, d.k), 1), Of(Fp4Scales(d.n, d.k), 1),
               ScaleExtent(d.n, d.k), Fp4Execute(d))
      /\ Suits(Of(Times(d.m, d.n), 2), Of(Mul(Mul(d.m, d.n), 2), 1),
               d.m * d.n * 2, Fp4Execute(d))
  <2>. HIDE DEF Fp4Execute
  <2>1. 2 \in 1..15
    OBVIOUS
  <2>. QED  BY <1>1, <1>2, <1>3, <2>1, HalvesSuit, ScalesCount, SameSuits, ProductSuits
<1>. QED  BY <1>4
          DEF AllSuit, Fp4Lengths, Fp4Sizes, Fp4Execute, Launch, LaunchIf, Exactly

(* A count that does not fit becomes zero below, and the facade refused    *)
(* it.                                                                     *)
LEMMA Fp4VectorIsSound ==
    ASSUME NEW d \in Fp4VectorDims
    PROVE  Sound(Fp4Vector(d))
<1>. SUFFICES ASSUME Fp4VectorSpec(d), Fp4VectorCreate(d)
              PROVE  AllSuit(Fp4VectorLengths(d), Fp4VectorSizes(d), Fp4VectorExecute(d))
  BY DEF Sound, Fp4Vector, Kind
<1>1. d.n \in 1..I32Max /\ d.k \in Nat \ {0} /\ d.k % 64 = 0 /\ d.k \div 2 \in Nat
  BY DEF Fp4VectorDims, Usize, Fp4VectorSpec, Fp4VectorCreate, Positive, Narrow
<1>2. Mul(d.n, d.k) # Over
  BY <1>1, MulFits DEF Fp4VectorSpec, Fit
<1>3. Measures(Fp4VectorExecute(d))
  BY DEF Measures, Fp4VectorExecute, Launch, LaunchIf, StreamFirst, Range
<1>4. /\ Suits(Of(d.k \div 2, 1), Of(d.k \div 2, 1), d.k \div 2, Fp4VectorExecute(d))
      /\ Suits(Of(Times(d.n, d.k) \div 2, 1), Of(OrZero(Mul(d.n, d.k)) \div 2, 1),
               (d.n * d.k) \div 2, Fp4VectorExecute(d))
  BY <1>1, <1>2, <1>3, HalvesSuit, SameSuits
<1>5. /\ Suits(Of(Fp4Scales(1, d.k), 1), Of(OrZero(Fp4Scales(1, d.k)), 1),
               ScaleExtent(1, d.k), Fp4VectorExecute(d))
      /\ Suits(Of(Fp4Scales(d.n, d.k), 1), Of(OrZero(Fp4Scales(d.n, d.k)), 1),
               ScaleExtent(d.n, d.k), Fp4VectorExecute(d))
  BY <1>1, <1>3, ScalesCount, UncheckedSuits
<1>6. Suits(Of(d.n, 2), Of(Times(d.n, 2), 1), d.n * 2, Fp4VectorExecute(d))
  BY <1>1, <1>3, WrappedRowSuits, WordsAreWide
<1>7. /\ Suits(Of(Times(d.n, d.k) \div 2, 1), Of(OrZero(Mul(d.n, d.k)) \div 2, 1),
               Indexed({(d.n - 1) * d.k}, (d.n * d.k) \div 2), Fp4VectorExecute(d))
      /\ Suits(Of(Fp4Scales(1, d.k), 1), Of(OrZero(Fp4Scales(1, d.k)), 1),
               Indexed({ScaleExtent(1, d.k) - 1}, ScaleExtent(1, d.k)), Fp4VectorExecute(d))
      /\ Suits(Of(Fp4Scales(d.n, d.k), 1), Of(OrZero(Fp4Scales(d.n, d.k)), 1),
               Indexed({ScaleExtent(d.n, d.k) - 1}, ScaleExtent(d.n, d.k)),
               Fp4VectorExecute(d))
  BY <1>4, <1>5, IndexedSuits
<1>. QED  BY <1>4, <1>6, <1>7
          DEF AllSuit, Fp4VectorLengths, Fp4VectorSizes, Fp4VectorExecute, Launch,
              LaunchIf, Exactly

(* One factor for each block of 128 by 128.                                *)
LEMMA Fp8VectorIsSound ==
    ASSUME NEW d \in Fp8VectorDims
    PROVE  Sound(Fp8Vector(d))
<1>. SUFFICES ASSUME Fp8VectorSpec(d), Fp8VectorCreate(d)
              PROVE  AllSuit(Fp8VectorLengths(d), Fp8VectorSizes(d), Fp8VectorExecute(d))
  BY DEF Sound, Fp8Vector, Kind
<1>. DEFINE rows == d.n \div 128  columns == d.k \div 128
<1>1. /\ d.n \in 1..I32Max /\ d.k \in 1..I32Max /\ d.n % 128 = 0 /\ d.k % 128 = 0
  BY DEF Fp8VectorDims, Usize, Fp8VectorSpec, Fp8VectorCreate, Positive, Narrow, Even
<1>2. /\ rows \in 0..I32Max /\ columns \in 0..I32Max
      /\ DivCeil(d.n, 128) = rows /\ DivCeil(d.k, 128) = columns
  BY <1>1, WordsAreWide DEF DivCeil
<1>3. Mul(d.n, d.k) # Over
  BY DEF Fp8VectorSpec, Fit
<1>4. Measures(Fp8VectorExecute(d))
  BY DEF Measures, Fp8VectorExecute, Launch, LaunchIf, StreamFirst, Range
<1>5. Suits(Of(Times(d.n, d.k), 1), Of(OrZero(Mul(d.n, d.k)), 1), d.n * d.k,
            Fp8VectorExecute(d))
  BY <1>1, <1>3, <1>4, CountsSuit, WordsAreWide
<1>. HIDE DEF rows, columns
<1>6. /\ Suits(Of(d.k, 1), Of(d.k, 1), d.k, Fp8VectorExecute(d))
      /\ Suits(Of(d.n, 2), Of(Times(d.n, 2), 1), d.n * 2, Fp8VectorExecute(d))
      /\ Suits(Of(columns, 4), Of(Times(columns, 4), 1), columns * 4, Fp8VectorExecute(d))
      /\ Suits(Of(Mul(rows, columns), 4), Of(Times(OrZero(Mul(rows, columns)), 4), 1),
               rows * columns * 4, Fp8VectorExecute(d))
  BY <1>1, <1>2, <1>4, SameSuits, WrappedRowSuits, WrappedProductSuits, WordsAreWide
<1>. QED  BY <1>2, <1>5, <1>6
          DEF rows, columns, AllSuit, Fp8VectorLengths, Fp8VectorSizes, Fp8VectorExecute,
              Launch, LaunchIf, Exactly

(* Factors of blocks of 32 values, as both layers count them.              *)
LEMMA MxScalesCount ==
    ASSUME NEW rows \in Nat \ {0}, NEW columns \in Nat \ {0}, columns % 128 = 0,
           columns <= UsizeMax
    PROVE  /\ MxScales(rows, columns) \in Nat /\ MxExtent(rows, columns) \in Nat
           /\ MxScales(rows, columns) = Checked(MxExtent(rows, columns))
<1>. DEFINE a == DivCeil(rows, 128)  b == columns \div 128
<1>1. a \in Nat /\ b \in Nat /\ columns = 128 * b
  BY DEF DivCeil
<1>. HIDE DEF a, b
<1>2. /\ columns \div 32 = 4 * b /\ DivCeil(4 * b, 4) = b /\ DivCeil(columns, 128) = b
      /\ 4 * b \in Nat /\ 4 * b = b * 4
  BY <1>1 DEF DivCeil
<1>3. Times(b, 4) = b * 4
  <2>1. b * 4 <= UsizeMax
    BY <1>1, WordsAreWide
  <2>. QED  BY <1>1, <2>1, TimesFits
<1>4. MxScales(rows, columns) = Mul(Mul(a, 128), b * 4)
  BY <1>2, <1>3 DEF MxScales, a
<1>. DEFINE c == b * 4
<1>5. c \in Nat
  BY <1>1
<1>. HIDE DEF c
<1>6. Mul(Mul(a, 128), c) = Checked(a * 128 * c)
  BY <1>1, <1>5, MulThree
<1>7. a * 128 * c = a * b * 512 /\ a * b * 512 \in Nat
  BY <1>1 DEF c
<1>. DEFINE bytes == a * b * 512
<1>8. MxExtent(rows, columns) = bytes /\ bytes \in Nat
  BY <1>2, <1>7 DEF MxExtent, a
<1>. HIDE DEF bytes
<1>. QED  BY <1>4, <1>6, <1>7, <1>8, Fits DEF c, bytes

(* Scale factors that both layers demand alike.                            *)
LEMMA MxScalesSuit ==
    ASSUME NEW rows \in Nat \ {0}, NEW columns \in Nat \ {0}, columns % 128 = 0,
           columns <= UsizeMax, NEW execute, Measures(execute)
    PROVE  Suits(Of(MxScales(rows, columns), 1), Of(MxScales(rows, columns), 1),
                 MxExtent(rows, columns), execute)
<1>. DEFINE bytes == MxExtent(rows, columns)  n == MxScales(rows, columns)
<1>1. n \in Nat /\ bytes \in Nat /\ n = Checked(bytes)
  BY MxScalesCount
<1>. HIDE DEF n, bytes
<1>2. n = Over \/ bytes <= n
  BY <1>1, Fits
<1>3. Suits(Of(n, 1), Of(n, 1), bytes, execute)
  BY <1>1, <1>2, SameSuits
<1>. QED  BY <1>3 DEF n, bytes

(* Words of four numbers of a byte.                                        *)
LEMMA FoursSuit ==
    ASSUME NEW p \in Nat, NEW q \in Nat, q % 4 = 0, Mul(p, q) # Over,
           NEW execute, Measures(execute)
    PROVE  Suits(Of(Times(p, q) \div 4, 4), Of(Mul(p, q), 1), p * q, execute)
<1>. DEFINE n == p * q  words == n \div 4
<1>1. n \in Nat /\ n <= UsizeMax /\ Mul(p, q) = n /\ Times(p, q) = n
  BY MulFits, TimesFits
<1>2. n = words * 4 /\ words \in Nat
  <2>. DEFINE r == q \div 4
  <2>1. r \in Nat /\ q = 4 * r
    OBVIOUS
  <2>. HIDE DEF r
  <2>2. n = 4 * (p * r) /\ p * r \in Nat
    BY <2>1
  <2>3. \A x \in Nat : (4 * x) \div 4 = x
    OBVIOUS
  <2>. QED  BY <2>2, <2>3
<1>. HIDE DEF n, words
<1>3. Checked(words * 4) = n /\ n \in Int /\ n <= words * 4
  BY <1>1, <1>2, Fits
<1>4. Suits(Of(words, 4), Of(Checked(words * 4), 1), n, execute)
  BY <1>2, <1>3, BothSuit
<1>. QED  BY <1>1, <1>3, <1>4 DEF n, words

(* The facade's weights are words of four values, the layer's are bytes.   *)
LEMMA Mxfp8IsSound ==
    ASSUME NEW d \in Mxfp8Dims
    PROVE  Sound(Mxfp8(d))
<1>. SUFFICES ASSUME Mxfp8Spec(d), Mxfp8Create(d)
              PROVE  AllSuit(Mxfp8Lengths(d), Mxfp8Sizes(d), Mxfp8Execute(d))
  BY DEF Sound, Mxfp8, Kind
<1>1. /\ d.m \in Nat \ {0} /\ d.n \in Nat \ {0} /\ d.k \in Nat \ {0} /\ d.k % 128 = 0
      /\ d.k % 4 = 0 /\ d.k <= UsizeMax
  BY WordsAreWide DEF Mxfp8Dims, Usize, Mxfp8Spec, Mxfp8Create, Positive
<1>2. Mul(d.m, d.k) # Over /\ Mul(d.n, d.k) # Over /\ d.m * d.n <= UsizeMax
  BY <1>1, MulFits DEF Mxfp8Spec, Fit
<1>3. Measures(Mxfp8Execute(d))
  BY DEF Measures, Mxfp8Execute, Launch, LaunchIf, StreamFirst, Range
<1>4. /\ Suits(Of(Times(d.m, d.k), 1), Of(Mul(d.m, d.k), 1), d.m * d.k, Mxfp8Execute(d))
      /\ Suits(Of(MxScales(d.m, d.k), 1), Of(MxScales(d.m, d.k), 1), MxExtent(d.m, d.k),
               Mxfp8Execute(d))
      /\ Suits(Of(Times(d.n, d.k) \div 4, 4), Of(Mul(d.n, d.k), 1), d.n * d.k,
               Mxfp8Execute(d))
      /\ Suits(Of(MxScales(d.n, d.k), 1), Of(MxScales(d.n, d.k), 1), MxExtent(d.n, d.k),
               Mxfp8Execute(d))
      /\ Suits(Of(Times(d.m, d.n), 2), Of(Mul(Mul(d.m, d.n), 2), 1),
               d.m * d.n * 2, Mxfp8Execute(d))
  <2>. HIDE DEF Mxfp8Execute
  <2>1. 2 \in 1..15
    OBVIOUS
  <2>. QED  BY <1>1, <1>2, <1>3, <2>1, CountsSuit, MxScalesSuit, FoursSuit, ProductSuits
<1>. QED  BY <1>4
          DEF AllSuit, Mxfp8Lengths, Mxfp8Sizes, Mxfp8Execute, Launch, LaunchIf, Exactly

(* A size that only the layer below demands, of a product of narrow        *)
(* numbers or of one that the facade found to fit.                         *)
LEMMA NarrowRowSuits ==
    ASSUME NEW p \in 0..I32Max, NEW width \in 1..4, NEW facadeWidth \in 1..15,
           NEW execute, Measures(execute)
    PROVE  Suits(Some(facadeWidth), Of(Times(p, width), 1), p * width, execute)
<1>1. p \in Nat /\ p * width \in Nat /\ p * width <= UsizeMax
  <2>1. p \in Nat /\ p * width <= 4 * I32Max
    BY WordsAreWide
  <2>. QED  BY <2>1, WordsAreWide
<1>2. Times(p, width) = p * width
  BY <1>1, TimesFits
<1>. QED  BY <1>1, <1>2, WordsAreWide DEF Suits, Some, AtLeast, Of, Demands, Agree, Covers

(* Elements of two narrow numbers, whose bytes do not wrap.                *)
LEMMA NarrowProductSuits ==
    ASSUME NEW p \in 0..I32Max, NEW q \in 0..I32Max, NEW width \in 1..4,
           NEW facadeWidth \in 1..15, NEW execute, Measures(execute)
    PROVE  Suits(Some(facadeWidth), Of(Times(Times(p, q), width), 1), p * q * width, execute)
<1>. DEFINE n == p * q
<1>1. n \in Nat /\ n * 4 <= UsizeMax
  BY WordsAreWide
<1>2. Times(p, q) = n
  BY <1>1, TimesFits, WordsAreWide
<1>. HIDE DEF n
<1>3. n * width \in Nat /\ n * width <= UsizeMax
  BY <1>1, WordsAreWide
<1>4. Times(n, width) = n * width
  BY <1>1, <1>3, TimesFits
<1>5. Suits(Some(facadeWidth), Of(Times(n, width), 1), n * width, execute)
  BY <1>3, <1>4, WordsAreWide DEF Suits, Some, AtLeast, Of, Demands, Agree, Covers
<1>. QED  BY <1>2, <1>5 DEF n

(* Bytes of two numbers whose product was checked.                         *)
LEMMA FittingProductSuits ==
    ASSUME NEW p \in Nat, NEW q \in Nat, Mul(p, q) # Over,
           NEW facadeWidth \in 1..15, NEW execute, Measures(execute)
    PROVE  Suits(Some(facadeWidth), Of(Times(p, q), 1), p * q, execute)
<1>. DEFINE n == p * q
<1>1. n \in Nat /\ Times(p, q) = n
  BY MulFits, TimesFits
<1>. HIDE DEF n
<1>2. Suits(Some(facadeWidth), Of(n, 1), n, execute)
  BY <1>1, WordsAreWide DEF Suits, Some, AtLeast, Of, Demands, Agree, Covers
<1>. QED  BY <1>1, <1>2 DEF n

(* The facade checks no length, and the arithmetic below wraps: narrow     *)
(* dimensions keep it from doing so.                                       *)
LEMMA ScaledIsSound ==
    ASSUME NEW d \in ScaledDims
    PROVE  Sound(Scaled(d))
<1>. SUFFICES ASSUME ScaledSpec(d), ScaledCreate(d)
              PROVE  AllSuit(ScaledLengths(d), ScaledSizes(d), ScaledExecute(d))
  BY DEF Sound, Scaled, Kind
<1>. DEFINE rows == IF d.channels THEN d.n ELSE 1
<1>1. /\ d.m \in Nat /\ d.n \in Nat /\ d.k \in Nat
      /\ d.m \in 0..I32Max /\ d.n \in 0..I32Max /\ rows \in 0..I32Max
      /\ d.scale \in 1..4 /\ d.scale \in 1..15 /\ d.bias \in BOOLEAN
  BY WordsAreWide DEF ScaledDims, Usize, ScaledCreate, Narrow
<1>2. Mul(d.m, d.k) # Over /\ Mul(d.n, d.k) # Over
  BY DEF ScaledSpec, Fit
<1>3. Measures(ScaledExecute(d))
  BY DEF Measures, ScaledExecute, Launch, LaunchIf, StreamFirst, Range
<1>4. /\ Suits(Some(1), Of(Times(d.m, d.k), 1), d.m * d.k, ScaledExecute(d))
      /\ Suits(Some(1), Of(Times(d.n, d.k), 1), d.n * d.k, ScaledExecute(d))
      /\ Suits(Some(4), Of(Times(d.m, 4), 1), d.m * 4, ScaledExecute(d))
      /\ Suits(Some(d.scale), Of(Times(rows, d.scale), 1), rows * d.scale, ScaledExecute(d))
      /\ Suits(Some(2), Of(Times(Times(d.m, d.n), 2), 1), d.m * d.n * 2, ScaledExecute(d))
      /\ Suits(Some(2), Of(Times(d.n, 2), 1), d.n * 2, ScaledExecute(d))
  <2>. HIDE DEF ScaledExecute, rows
  <2>1. 1 \in 1..15 /\ 2 \in 1..15 /\ 4 \in 1..15 /\ 2 \in 1..4 /\ 4 \in 1..4
    OBVIOUS
  <2>. QED  BY <1>1, <1>2, <1>3, <2>1, FittingProductSuits, NarrowRowSuits, NarrowProductSuits
<1>5. CASE d.bias
  BY <1>4, <1>5
     DEF AllSuit, ScaledLengths, ScaledSizes, ScaledExecute, Launch, LaunchIf, Exactly
<1>6. CASE ~d.bias
  BY <1>4, <1>6
     DEF AllSuit, ScaledLengths, ScaledSizes, ScaledExecute, Launch, LaunchIf, Exactly
<1>. QED  BY <1>5, <1>6

-----------------------------------------------------------------------------
(* Groups of matrices.                                                     *)

(* A checked size that only the layer below demands.                       *)
LEMMA CheckedSuits ==
    ASSUME NEW n \in Nat, NEW bytes \in Int, bytes <= n, NEW facadeWidth \in 1..15,
           NEW execute, Measures(execute)
    PROVE  Suits(Some(facadeWidth), Of(Checked(n), 1), bytes, execute)
<1>1. Checked(n) \in Nat /\ (Checked(n) = Over \/ Checked(n) = n)
  BY Fits
<1>. QED  BY <1>1, WordsAreWide DEF Suits, Some, AtLeast, Of, Demands, Agree, Covers

(* One of two numbers.                                                     *)
LEMMA CheckedRowSuits ==
    ASSUME NEW p \in Nat, NEW q \in Nat, NEW bytes \in Int, bytes <= p * q,
           NEW facadeWidth \in 1..15, NEW execute, Measures(execute)
    PROVE  Suits(Some(facadeWidth), Of(Mul(p, q), 1), bytes, execute)
<1>. DEFINE n == p * q
<1>1. n \in Nat /\ Mul(p, q) = Checked(n)
  BY MulIsChecked
<1>. HIDE DEF n
<1>. QED  BY <1>1, CheckedSuits DEF n

(* One of three.                                                           *)
LEMMA CheckedProductSuits ==
    ASSUME NEW p \in Nat, NEW q \in Nat, NEW r \in Nat,
           NEW bytes \in Int, bytes <= p * q * r,
           NEW facadeWidth \in 1..15, NEW execute, Measures(execute)
    PROVE  Suits(Some(facadeWidth), Of(Mul(Mul(p, q), r), 1), bytes, execute)
<1>. DEFINE n == p * q * r
<1>1. p * q \in Nat /\ Mul(Mul(p, q), r) = Checked(n)
  BY MulThree
<1>2. n \in Nat
  BY <1>1
<1>. HIDE DEF n
<1>. QED  BY <1>1, <1>2, CheckedSuits DEF n

(* A product of four numbers.                                              *)
LEMMA MulFour ==
    ASSUME NEW p \in Nat, NEW q \in Nat, NEW r \in Nat, NEW s \in Nat
    PROVE  p * q * r \in Nat /\ Mul(Mul(Mul(p, q), r), s) = Checked(p * q * r * s)
<1>. DEFINE n == p * q * r
<1>1. p * q \in Nat /\ Mul(Mul(p, q), r) = Checked(n)
  BY MulThree
<1>2. n \in Nat
  BY <1>1
<1>. HIDE DEF n
<1>3. Mul(Checked(n), s) = Checked(n * s)
  BY <1>2, MulChecks
<1>. QED  BY <1>1, <1>2, <1>3 DEF n

(* A checked size of four numbers.                                         *)
LEMMA CheckedCubeSuits ==
    ASSUME NEW p \in Nat, NEW q \in Nat, NEW r \in Nat, NEW s \in Nat,
           NEW bytes \in Int, bytes <= p * q * r * s,
           NEW facadeWidth \in 1..15, NEW execute, Measures(execute)
    PROVE  Suits(Some(facadeWidth), Of(Mul(Mul(Mul(p, q), r), s), 1), bytes, execute)
<1>. DEFINE n == p * q * r * s
<1>1. p * q * r \in Nat /\ Mul(Mul(Mul(p, q), r), s) = Checked(n)
  BY MulFour
<1>2. n \in Nat
  BY <1>1
<1>. HIDE DEF n
<1>. QED  BY <1>1, <1>2, CheckedSuits DEF n

(* Whole tiles of scale factors: those of one matrix, and the factors that *)
(* a kernel touches of several.                                            *)
LEMMA TilesCount ==
    ASSUME NEW rows \in Nat \ {0}, NEW columns \in Nat \ {0}, columns % 64 = 0
    PROVE  /\ DivCeil(rows, 128) * (columns \div 64) * 512 \in Nat
           /\ TileScales(rows, columns) = Checked(DivCeil(rows, 128) * (columns \div 64) * 512)
           /\ ScaleStride(rows, columns) = DivCeil(rows, 128) * (columns \div 64) * 512
<1>. DEFINE a == DivCeil(rows, 128)  b == columns \div 64
<1>1. a \in Nat /\ b \in Nat /\ columns = 64 * b
  BY DEF DivCeil
<1>. HIDE DEF a, b
<1>2. DivCeil(columns, 64) = b /\ columns \div 16 = 4 * b /\ DivCeil(4 * b, 4) = b
  BY <1>1 DEF DivCeil
<1>3. TileScales(rows, columns) = Mul(Mul(a, b), 512)
  BY <1>2 DEF TileScales, a
<1>4. Mul(Mul(a, b), 512) = Checked(a * b * 512) /\ a * b \in Nat
  BY <1>1, MulThree
<1>5. ScaleStride(rows, columns) = a * 128 * (b * 4)
  BY <1>2 DEF ScaleStride, a
<1>6. a * 128 * (b * 4) = a * b * 512 /\ a * b * 512 \in Nat
  BY <1>1, <1>4
<1>. QED  BY <1>3, <1>4, <1>5, <1>6 DEF a, b

(* Scale factors of several matrices, each in tiles of its own.            *)
LEMMA TilesSuit ==
    ASSUME NEW count \in Nat \ {0}, NEW rows \in Nat \ {0}, NEW columns \in Nat \ {0},
           columns % 64 = 0, NEW facadeWidth \in 1..15, NEW execute, Measures(execute)
    PROVE  LET bytes == (count - 1) * ScaleStride(rows, columns) + ScaleExtent(rows, columns)
           IN  /\ Suits(Some(facadeWidth), Of(Mul(count, TileScales(rows, columns)), 1),
                        bytes, execute)
               /\ Suits(Some(facadeWidth), Of(Mul(TileScales(rows, columns), count), 1),
                        bytes, execute)
<1>. DEFINE tiles == DivCeil(rows, 128) * (columns \div 64) * 512
            extent == ScaleExtent(rows, columns)
            bytes == (count - 1) * tiles + extent
<1>1. /\ tiles \in Nat /\ TileScales(rows, columns) = Checked(tiles)
      /\ ScaleStride(rows, columns) = tiles
  BY TilesCount
<1>2. extent \in Int /\ extent <= tiles
  BY ScaleExtentFits
<1>. HIDE DEF tiles, extent
<1>3. /\ Mul(count, Checked(tiles)) = Checked(count * tiles)
      /\ Mul(Checked(tiles), count) = Checked(tiles * count)
  BY <1>1, MulChecks
<1>4. bytes \in Int /\ bytes <= count * tiles /\ count * tiles \in Nat
      /\ tiles * count = count * tiles
  <2>1. count * tiles = (count - 1) * tiles + tiles
    BY <1>1
  <2>2. (count - 1) * tiles \in Int
    BY <1>1
  <2>. QED  BY <1>1, <1>2, <2>1, <2>2
<1>. DEFINE n == count * tiles
<1>. HIDE DEF bytes, n
<1>5. Suits(Some(facadeWidth), Of(Checked(n), 1), bytes, execute)
  BY <1>4, CheckedSuits DEF n
<1>. QED  BY <1>1, <1>3, <1>4, <1>5 DEF n, bytes, extent

(* Groups of one input or of an input each, over weights that they select. *)
LEMMA GroupedIsSound ==
    ASSUME NEW d \in GroupedDims
    PROVE  Sound(Grouped(d))
<1>. SUFFICES ASSUME GroupedSpec(d), GroupedCreate(d)
              PROVE  AllSuit(GroupedLengths(d), GroupedSizes(d), GroupedExecute(d))
  BY DEF Sound, Grouped, Kind
<1>. DEFINE inputs == InputGroups(d)  half == d.k \div 2
<1>1. /\ d.groups \in Nat \ {0} /\ d.matrices \in Nat \ {0} /\ d.m \in Nat \ {0}
      /\ d.n \in Nat \ {0} /\ d.k \in Nat \ {0} /\ d.k % 64 = 0
      /\ inputs \in Nat \ {0} /\ half \in Nat
  BY DEF GroupedDims, Usize, GroupedSpec, GroupedCreate, Positive, InputGroups
<1>2. Measures(GroupedExecute(d))
  BY DEF Measures, GroupedExecute, Launch, LaunchIf, BindFirst, Range
<1>. HIDE DEF inputs, half
<1>3. /\ inputs * d.m * half \in Int /\ d.matrices * d.n * half \in Int
      /\ d.matrices * 4 \in Int /\ d.groups * 4 \in Int /\ d.groups * d.m * d.n * 2 \in Int
  <2>1. inputs * d.m \in Nat /\ d.matrices * d.n \in Nat /\ d.groups * d.m \in Nat
    BY <1>1
  <2>2. \A x, y \in Nat : x * y \in Nat
    OBVIOUS
  <2>. QED  BY <1>1, <2>1, <2>2
<1>4. 1 \in 1..15 /\ 2 \in 1..15 /\ 4 \in 1..15 /\ 2 \in Nat /\ 4 \in Nat
      /\ \A x \in Int : x <= x
  OBVIOUS
<1>5. /\ Suits(Some(1), Of(Mul(Mul(inputs, d.m), half), 1), inputs * d.m * half,
               GroupedExecute(d))
      /\ Suits(Some(1), Of(Mul(Mul(d.matrices, d.n), half), 1), d.matrices * d.n * half,
               GroupedExecute(d))
  BY <1>1, <1>2, <1>3, <1>4, CheckedProductSuits
<1>6. /\ Suits(Some(1), Of(Mul(inputs, TileScales(d.m, d.k)), 1),
               (inputs - 1) * ScaleStride(d.m, d.k) + ScaleExtent(d.m, d.k),
               GroupedExecute(d))
      /\ Suits(Some(1), Of(Mul(d.matrices, TileScales(d.n, d.k)), 1),
               (d.matrices - 1) * ScaleStride(d.n, d.k) + ScaleExtent(d.n, d.k),
               GroupedExecute(d))
  BY <1>1, <1>2, <1>4, TilesSuit
<1>7. /\ Suits(Some(4), Of(Mul(d.matrices, 4), 1), d.matrices * 4, GroupedExecute(d))
      /\ Suits(Some(4), Of(Mul(d.groups, 4), 1), d.groups * 4, GroupedExecute(d))
  BY <1>1, <1>2, <1>3, <1>4, CheckedRowSuits
<1>8. Suits(Some(2), Of(Mul(Mul(Mul(d.groups, d.m), d.n), 2), 1),
            d.groups * d.m * d.n * 2, GroupedExecute(d))
  BY <1>1, <1>2, <1>3, <1>4, CheckedCubeSuits
<1>. DEFINE stride == ScaleStride(d.m, d.k)  scales == ScaleStride(d.n, d.k)
<1>9. /\ Suits(Some(1), Of(Mul(Mul(inputs, d.m), half), 1),
               Indexed({(inputs - 1) * d.m * half}, inputs * d.m * half), GroupedExecute(d))
      /\ Suits(Some(1), Of(Mul(inputs, TileScales(d.m, d.k)), 1),
               Indexed({stride, (inputs - 1) * stride},
                       (inputs - 1) * stride + ScaleExtent(d.m, d.k)),
               GroupedExecute(d))
      /\ Suits(Some(1), Of(Mul(d.matrices, TileScales(d.n, d.k)), 1),
               Indexed({scales}, (d.matrices - 1) * scales + ScaleExtent(d.n, d.k)),
               GroupedExecute(d))
      /\ Suits(Some(2), Of(Mul(Mul(Mul(d.groups, d.m), d.n), 2), 1),
               Indexed({(d.groups - 1) * d.m * d.n}, d.groups * d.m * d.n * 2),
               GroupedExecute(d))
  BY <1>5, <1>6, <1>8, IndexedSuits
<1>. DEFINE a == Indexed({(inputs - 1) * d.m * half}, inputs * d.m * half)
            as == Indexed({stride, (inputs - 1) * stride},
                          (inputs - 1) * stride + ScaleExtent(d.m, d.k))
            b == d.matrices * d.n * half
            bs == Indexed({scales}, (d.matrices - 1) * scales + ScaleExtent(d.n, d.k))
            c == Indexed({(d.groups - 1) * d.m * d.n}, d.groups * d.m * d.n * 2)
            execute == GroupedExecute(d)
<1>10. /\ execute.touches = <<a, as, b, bs, d.matrices * 4, d.groups * 4, c>>
       /\ execute.prepared = <<>>
  BY DEF inputs, half, GroupedExecute, Launch, LaunchIf
<1>11. GroupedSizes(d) =
         <<Of(Mul(Mul(inputs, d.m), half), 1), Of(Mul(inputs, TileScales(d.m, d.k)), 1),
           Of(Mul(Mul(d.matrices, d.n), half), 1), Of(Mul(d.matrices, TileScales(d.n, d.k)), 1),
           Of(Mul(d.matrices, 4), 1), Of(Mul(d.groups, 4), 1),
           Of(Mul(Mul(Mul(d.groups, d.m), d.n), 2), 1)>>
  BY DEF inputs, half, GroupedSizes, Exactly
<1>. HIDE DEF a, as, b, bs, c
<1>12. /\ Suits(Some(1), Of(Mul(Mul(inputs, d.m), half), 1), a, execute)
       /\ Suits(Some(1), Of(Mul(inputs, TileScales(d.m, d.k)), 1), as, execute)
       /\ Suits(Some(1), Of(Mul(Mul(d.matrices, d.n), half), 1), b, execute)
       /\ Suits(Some(1), Of(Mul(d.matrices, TileScales(d.n, d.k)), 1), bs, execute)
       /\ Suits(Some(2), Of(Mul(Mul(Mul(d.groups, d.m), d.n), 2), 1), c, execute)
  BY <1>5, <1>9 DEF a, as, b, bs, c
<1>. HIDE DEF execute
<1>13. /\ Suits(Some(4), Of(Mul(d.matrices, 4), 1), d.matrices * 4, execute)
       /\ Suits(Some(4), Of(Mul(d.groups, 4), 1), d.groups * 4, execute)
  BY <1>7 DEF execute
<1>14. AllSuit(GroupedLengths(d), GroupedSizes(d), execute)
  <2>. DEFINE facade == GroupedLengths(d)  below == GroupedSizes(d)
  <2>1. /\ DOMAIN facade = 1..7 /\ DOMAIN below = 1..7 /\ DOMAIN execute.touches = 1..7
        /\ DOMAIN execute.prepared = {}
    BY <1>10, <1>11 DEF GroupedLengths
  <2>2. /\ facade[1] = Some(1) /\ facade[2] = Some(1) /\ facade[3] = Some(1)
        /\ facade[4] = Some(1) /\ facade[5] = Some(4) /\ facade[6] = Some(4)
        /\ facade[7] = Some(2)
    BY DEF GroupedLengths
  <2>3. \A i \in 1..7 : Suits(facade[i], below[i], execute.touches[i], execute)
    <3>1. /\ below[1] = Of(Mul(Mul(inputs, d.m), half), 1)
          /\ below[2] = Of(Mul(inputs, TileScales(d.m, d.k)), 1)
          /\ below[3] = Of(Mul(Mul(d.matrices, d.n), half), 1)
          /\ below[4] = Of(Mul(d.matrices, TileScales(d.n, d.k)), 1)
          /\ below[5] = Of(Mul(d.matrices, 4), 1) /\ below[6] = Of(Mul(d.groups, 4), 1)
          /\ below[7] = Of(Mul(Mul(Mul(d.groups, d.m), d.n), 2), 1)
      BY <1>11
    <3>2. /\ execute.touches[1] = a /\ execute.touches[2] = as /\ execute.touches[3] = b
          /\ execute.touches[4] = bs /\ execute.touches[5] = d.matrices * 4
          /\ execute.touches[6] = d.groups * 4 /\ execute.touches[7] = c
      BY <1>10
    <3>3. /\ Suits(facade[1], below[1], execute.touches[1], execute)
          /\ Suits(facade[2], below[2], execute.touches[2], execute)
          /\ Suits(facade[3], below[3], execute.touches[3], execute)
          /\ Suits(facade[4], below[4], execute.touches[4], execute)
      BY <1>12, <2>2, <3>1, <3>2
    <3>4. /\ Suits(facade[5], below[5], execute.touches[5], execute)
          /\ Suits(facade[6], below[6], execute.touches[6], execute)
          /\ Suits(facade[7], below[7], execute.touches[7], execute)
      BY <1>12, <1>13, <2>2, <3>1, <3>2
    <3>. HIDE DEF facade, below
    <3>. QED  BY <3>3, <3>4
  <2>. QED  BY <2>1, <2>3 DEF AllSuit
<1>. QED  BY <1>14 DEF execute

-----------------------------------------------------------------------------
(* Sums of functions, as the community modules define them: by a recursion *)
(* over the sets of the domain.                                            *)
AnyOf(s) == CHOOSE x \in s : TRUE

AddsUp(f, sets, g) ==
    \A s \in sets : g[s] = IF s = {} THEN 0 ELSE f[AnyOf(s)] + g[s \ {AnyOf(s)}]

SumRecursion(f, g) ==
    g = [s \in SUBSET DOMAIN f |->
            IF s = {} THEN 0 ELSE f[AnyOf(s)] + g[s \ {AnyOf(s)}]]

Sums(f) == CHOOSE g : SumRecursion(f, g)

(* The community module's sum is a solution of that recursion.             *)
LEMMA SumUnfolds ==
    ASSUME NEW f
    PROVE  SumFunction(f) = Sums(f)[DOMAIN f]
BY Zenon DEF SumFunction, SumFunctionOnSet, FoldFunctionOnSet, MapThenFoldSet, Sums,
             SumRecursion, AnyOf

(* The recursion has a solution, over natural numbers.                     *)
LEMMA SumsAdd ==
    ASSUME NEW T, IsFiniteSet(T), NEW f \in [T -> Nat]
    PROVE  Sums(f) \in [SUBSET T -> Nat] /\ AddsUp(f, SUBSET T, Sums(f))
<1>. DEFINE Small(k) == {s \in SUBSET T : Cardinality(s) <= k}
            K == {k \in Nat : \E g \in [Small(k) -> Nat] : AddsUp(f, Small(k), g)}
<1>1. ASSUME NEW s \in SUBSET T
      PROVE  /\ IsFiniteSet(s) /\ Cardinality(s) \in Nat /\ Cardinality(s) <= Cardinality(T)
             /\ Cardinality(s) = 0 <=> s = {}
             /\ s # {} => /\ AnyOf(s) \in s /\ AnyOf(s) \in T
                         /\ s \ {AnyOf(s)} \in SUBSET T
                         /\ Cardinality(s \ {AnyOf(s)}) = Cardinality(s) - 1
  <2>1. IsFiniteSet(s) /\ Cardinality(s) <= Cardinality(T)
    BY FS_Subset
  <2>2. Cardinality(s) \in Nat /\ (Cardinality(s) = 0 <=> s = {})
    BY <2>1, FS_CardinalityType, FS_EmptySet
  <2>3. s # {} => AnyOf(s) \in s
    BY DEF AnyOf
  <2>4. AnyOf(s) \in s => Cardinality(s \ {AnyOf(s)}) = Cardinality(s) - 1
    BY <2>1, FS_RemoveElement
  <2>. QED  BY <2>1, <2>2, <2>3, <2>4
<1>2. 0 \in K
  <2>. DEFINE g == [s \in Small(0) |-> 0]
  <2>1. ASSUME NEW s \in Small(0)  PROVE s = {}
    <3>1. s \in SUBSET T /\ Cardinality(s) <= 0
      OBVIOUS
    <3>2. Cardinality(s) \in Nat /\ (Cardinality(s) = 0 <=> s = {})
      BY <1>1, <3>1
    <3>. QED  BY <3>1, <3>2
  <2>2. g \in [Small(0) -> Nat] /\ AddsUp(f, Small(0), g)
    BY <2>1 DEF AddsUp
  <2>. QED  BY <2>2
<1>3. ASSUME NEW k \in K  PROVE k + 1 \in K
  <2>1. k \in Nat
    OBVIOUS
  <2>2. PICK g \in [Small(k) -> Nat] : AddsUp(f, Small(k), g)
    OBVIOUS
  <2>. DEFINE h == [s \in Small(k + 1) |->
                       IF s = {} THEN 0 ELSE f[AnyOf(s)] + g[s \ {AnyOf(s)}]]
  <2>3. ASSUME NEW s \in Small(k + 1), s # {}
        PROVE  /\ s \ {AnyOf(s)} \in Small(k) /\ s \ {AnyOf(s)} \in Small(k + 1)
               /\ f[AnyOf(s)] \in Nat /\ g[s \ {AnyOf(s)}] \in Nat
    <3>1. s \ {AnyOf(s)} \in SUBSET T /\ AnyOf(s) \in T
          /\ Cardinality(s \ {AnyOf(s)}) = Cardinality(s) - 1
          /\ Cardinality(s) \in Nat /\ Cardinality(s) <= k + 1
      BY <1>1, <2>3
    <3>2. s \ {AnyOf(s)} \in Small(k) /\ s \ {AnyOf(s)} \in Small(k + 1)
      BY <2>1, <3>1
    <3>. QED  BY <3>1, <3>2, <2>2
  <2>4. h \in [Small(k + 1) -> Nat]
    BY <2>3
  <2>5. ASSUME NEW s \in Small(k)  PROVE s \in Small(k + 1) /\ h[s] = g[s]
    <3>1. s \in Small(k + 1)
      <4>1. s \in SUBSET T /\ Cardinality(s) <= k
        OBVIOUS
      <4>2. Cardinality(s) \in Nat
        BY <1>1, <4>1
      <4>. QED  BY <2>1, <4>1, <4>2
    <3>2. h[s] = IF s = {} THEN 0 ELSE f[AnyOf(s)] + g[s \ {AnyOf(s)}]
      BY <3>1
    <3>. QED  BY <2>2, <3>1, <3>2 DEF AddsUp
  <2>6. AddsUp(f, Small(k + 1), h)
    BY <2>3, <2>5 DEF AddsUp
  <2>. HIDE DEF h, Small
  <2>. QED  BY <2>1, <2>4, <2>6
<1>. HIDE DEF K
<1>4. Cardinality(T) \in K
  <2>1. Cardinality(T) \in Nat
    BY FS_CardinalityType
  <2>. QED  BY <1>2, <1>3, <2>1, Induction DEF K
<1>5. Small(Cardinality(T)) = SUBSET T
  BY <1>1
<1>. HIDE DEF Small
<1>6. PICK g \in [SUBSET T -> Nat] : AddsUp(f, SUBSET T, g)
  BY <1>4, <1>5 DEF K
<1>7. SumRecursion(f, g)
  BY <1>6 DEF AddsUp, SumRecursion
<1>8. SumRecursion(f, Sums(f))
  BY <1>7 DEF Sums
<1>. DEFINE h == Sums(f)
<1>. HIDE DEF h
<1>9. DOMAIN h = SUBSET T /\ AddsUp(f, SUBSET T, h)
      /\ h = [s \in SUBSET T |-> h[s]]
  BY <1>8 DEF SumRecursion, AddsUp, h
<1>. DEFINE N == {k \in Nat : \A s \in SUBSET T : Cardinality(s) <= k => h[s] \in Nat}
<1>10. 0 \in N
  <2>1. ASSUME NEW s \in SUBSET T, Cardinality(s) <= 0  PROVE h[s] \in Nat
    <3>1. s = {}
      <4>1. Cardinality(s) \in Nat /\ (Cardinality(s) = 0 <=> s = {})
        BY <1>1
      <4>. QED  BY <2>1, <4>1
    <3>2. h[s] = 0
      BY <1>9, <3>1 DEF AddsUp
    <3>. QED  BY <3>2
  <2>. QED  BY <2>1
<1>11. ASSUME NEW k \in N  PROVE k + 1 \in N
  <2>1. ASSUME NEW s \in SUBSET T, Cardinality(s) <= k + 1, s # {}
        PROVE  h[s] \in Nat
    <3>1. h[s \ {AnyOf(s)}] \in Nat /\ f[AnyOf(s)] \in Nat
      <4>1. k \in Nat /\ \A r \in SUBSET T : Cardinality(r) <= k => h[r] \in Nat
        OBVIOUS
      <4>. HIDE DEF N
      <4>2. /\ AnyOf(s) \in T /\ s \ {AnyOf(s)} \in SUBSET T /\ Cardinality(s) \in Nat
            /\ Cardinality(s \ {AnyOf(s)}) = Cardinality(s) - 1
        BY <1>1, <2>1
      <4>3. Cardinality(s \ {AnyOf(s)}) <= k
        BY <2>1, <4>1, <4>2
      <4>. QED  BY <4>1, <4>2, <4>3
    <3>2. h[s] = f[AnyOf(s)] + h[s \ {AnyOf(s)}]
      BY <1>9, <2>1 DEF AddsUp
    <3>. QED  BY <3>1, <3>2
  <2>2. h[{}] \in Nat
    <3>1. h[{}] = 0
      <4>1. {} \in SUBSET T
        OBVIOUS
      <4>. QED  BY <1>9, <4>1 DEF AddsUp
    <3>. QED  BY <3>1
  <2>3. k + 1 \in Nat
    OBVIOUS
  <2>4. \A s \in SUBSET T : Cardinality(s) <= k + 1 => h[s] \in Nat
    BY <2>1, <2>2
  <2>. QED  BY <2>3, <2>4
<1>. HIDE DEF N
<1>12. Cardinality(T) \in N
  <2>1. Cardinality(T) \in Nat
    BY FS_CardinalityType
  <2>. QED  BY <1>10, <1>11, <2>1, Induction DEF N
<1>13. \A s \in SUBSET T : h[s] \in Nat
  BY <1>1, <1>12 DEF N
<1>. QED  BY <1>9, <1>13 DEF h

(* What holds of each value holds of the sums.                             *)
LEMMA SumsCompare ==
    ASSUME NEW T, IsFiniteSet(T), NEW f \in [T -> Nat], NEW g \in [T -> Nat],
           NEW a \in Nat, NEW b \in Nat, \A t \in T : a * f[t] <= g[t] + b
    PROVE  /\ SumFunction(f) \in Nat /\ SumFunction(g) \in Nat /\ Cardinality(T) \in Nat
           /\ a * SumFunction(f) <= SumFunction(g) + b * Cardinality(T)
<1>. DEFINE F == Sums(f)  G == Sums(g)
            Holds(s) == a * F[s] <= G[s] + b * Cardinality(s)
            K == {k \in Nat : \A s \in SUBSET T : Cardinality(s) <= k => Holds(s)}
<1>1. /\ F \in [SUBSET T -> Nat] /\ AddsUp(f, SUBSET T, F)
      /\ G \in [SUBSET T -> Nat] /\ AddsUp(g, SUBSET T, G)
  BY SumsAdd
<1>. HIDE DEF F, G
<1>2. ASSUME NEW s \in SUBSET T
      PROVE  /\ Cardinality(s) \in Nat /\ (Cardinality(s) = 0 <=> s = {})
             /\ s # {} => /\ AnyOf(s) \in T /\ s \ {AnyOf(s)} \in SUBSET T
                         /\ Cardinality(s \ {AnyOf(s)}) = Cardinality(s) - 1
  <2>1. IsFiniteSet(s)
    BY FS_Subset
  <2>2. Cardinality(s) \in Nat /\ (Cardinality(s) = 0 <=> s = {})
    BY <2>1, FS_CardinalityType, FS_EmptySet
  <2>3. s # {} => AnyOf(s) \in s
    BY DEF AnyOf
  <2>4. AnyOf(s) \in s => Cardinality(s \ {AnyOf(s)}) = Cardinality(s) - 1
    BY <2>1, FS_RemoveElement
  <2>. QED  BY <2>2, <2>3, <2>4
<1>3. Holds({})
  <2>1. {} \in SUBSET T
    OBVIOUS
  <2>2. F[{}] = 0 /\ G[{}] = 0 /\ Cardinality({}) = 0
    BY <1>1, <1>2, <2>1 DEF AddsUp
  <2>. QED  BY <2>2
<1>4. 0 \in K
  <2>1. ASSUME NEW s \in SUBSET T, Cardinality(s) <= 0  PROVE s = {}
    <3>1. Cardinality(s) \in Nat /\ (Cardinality(s) = 0 <=> s = {})
      BY <1>2
    <3>. QED  BY <2>1, <3>1
  <2>. HIDE DEF Holds
  <2>. QED  BY <1>3, <2>1
<1>5. ASSUME NEW k \in K  PROVE k + 1 \in K
  <2>1. ASSUME NEW s \in SUBSET T, Cardinality(s) <= k + 1, s # {}
        PROVE  Holds(s)
    <3>. DEFINE t == AnyOf(s)  r == s \ {t}
    <3>1. t \in T /\ r \in SUBSET T /\ Cardinality(r) = Cardinality(s) - 1
          /\ Cardinality(s) \in Nat /\ Cardinality(r) \in Nat
      BY <1>2, <2>1
    <3>2. F[s] = f[t] + F[r] /\ G[s] = g[t] + G[r]
      BY <1>1, <2>1 DEF AddsUp
    <3>3. Holds(r)
      BY <2>1, <3>1
    <3>4. F[r] \in Nat /\ G[r] \in Nat /\ f[t] \in Nat /\ g[t] \in Nat
      BY <1>1, <3>1
    <3>5. a * f[t] <= g[t] + b
      BY <3>1
    <3>. DEFINE c == Cardinality(r)  x == f[t]  y == g[t]  u == F[r]  v == G[r]
    <3>. HIDE DEF r, t, c, x, y, u, v, Holds
    <3>6. a * (x + u) <= (y + v) + b * (c + 1)
      <4>1. a * x <= y + b /\ a * u <= v + b * c
        BY <3>3, <3>5 DEF x, y, u, v, c, Holds
      <4>2. a * (x + u) = a * x + a * u /\ b * (c + 1) = b * c + b
            /\ a * x \in Int /\ a * u \in Int /\ b * c \in Int
        BY <3>1, <3>4 DEF x, y, u, v, c
      <4>. QED  BY <3>4, <4>1, <4>2 DEF y, v
    <3>7. F[s] = x + u /\ G[s] = y + v /\ Cardinality(s) = c + 1
      BY <3>1, <3>2 DEF x, y, u, v, c
    <3>. QED  BY <3>6, <3>7 DEF Holds
  <2>2. k + 1 \in Nat
    OBVIOUS
  <2>. HIDE DEF Holds
  <2>3. \A s \in SUBSET T : Cardinality(s) <= k + 1 => Holds(s)
    BY <1>3, <2>1
  <2>. QED  BY <2>2, <2>3
<1>. HIDE DEF K
<1>6. IsFiniteSet(T) /\ T \in SUBSET T /\ Cardinality(T) \in Nat
  BY FS_CardinalityType
<1>7. Cardinality(T) \in K
  BY <1>4, <1>5, <1>6, Induction DEF K
<1>8. Holds(T)
  BY <1>6, <1>7 DEF K
<1>9. DOMAIN f = T /\ DOMAIN g = T
  OBVIOUS
<1>10. SumFunction(f) = F[T] /\ SumFunction(g) = G[T]
  BY <1>9, SumUnfolds DEF F, G
<1>. QED  BY <1>1, <1>6, <1>8, <1>10

(* Sums of groups of rows, which begin at row zero.                        *)
LEMMA SumsOfZero ==
    ASSUME NEW T, IsFiniteSet(T), NEW f \in [T -> Nat], \A t \in T : f[t] = 0
    PROVE  SumFunction(f) = 0
<1>1. \A t \in T : 2 * f[t] <= f[t] + 0
  OBVIOUS
<1>2. /\ SumFunction(f) \in Nat /\ Cardinality(T) \in Nat
      /\ 2 * SumFunction(f) <= SumFunction(f) + 0 * Cardinality(T)
  <2>1. 2 \in Nat /\ 0 \in Nat
    OBVIOUS
  <2>. QED  BY <1>1, <2>1, SumsCompare
<1>. QED  BY <1>2

-----------------------------------------------------------------------------
(* Groups of any number of rows.                                           *)

(* Rows of all groups are within the capacity, whole tiles of them within  *)
(* that and what every group may leave of its last tile.                   *)
LEMMA PartitionsFit ==
    ASSUME NEW d, d.groups \in Nat, d.capacity \in Nat, d.max \in Nat
    PROVE  /\ RowExtent(d) \in Int /\ RowExtent(d) <= d.capacity
           /\ LET most == Max({ScaleTiles(rows) : rows \in Partitions(d)}) IN
              /\ most \in Int
              /\ most <= (d.capacity + d.groups * 127) \div 128
<1>. DEFINE T == 1..d.groups  bound == (d.capacity + d.groups * 127) \div 128
            S == {SumFunction(rows) : rows \in Partitions(d)}
            U == {ScaleTiles(rows) : rows \in Partitions(d)}
<1>1. IsFiniteSet(T) /\ Cardinality(T) = d.groups /\ bound \in Int
  <2>1. 1 \in Int /\ d.groups \in Int
    OBVIOUS
  <2>2. IsFiniteSet(T) /\ Cardinality(T) = IF 1 > d.groups THEN 0 ELSE d.groups - 1 + 1
    BY <2>1, FS_Interval
  <2>. QED  BY <2>2
<1>. HIDE DEF T
<1>2. ASSUME NEW rows \in Partitions(d)
      PROVE  /\ SumFunction(rows) \in Nat /\ SumFunction(rows) <= d.capacity
             /\ ScaleTiles(rows) \in Nat /\ ScaleTiles(rows) <= bound
  <2>. DEFINE tiles == [g \in DOMAIN rows |-> DivCeil(rows[g], 128)]
  <2>1. rows \in [T -> Nat] /\ SumFunction(rows) <= d.capacity
    BY GroupsMayBeEmpty DEF Partitions, T
  <2>2. tiles \in [T -> Nat] /\ \A t \in T : 128 * tiles[t] <= rows[t] + 127
    BY <2>1 DEF DivCeil
  <2>. HIDE DEF tiles
  <2>3. 128 \in Nat /\ 127 \in Nat
    OBVIOUS
  <2>4. /\ SumFunction(tiles) \in Nat /\ SumFunction(rows) \in Nat
        /\ 128 * SumFunction(tiles) <= SumFunction(rows) + 127 * d.groups
    BY <1>1, <2>1, <2>2, <2>3, SumsCompare
  <2>5. SumFunction(tiles) <= bound
    <3>. DEFINE x == SumFunction(tiles)
    <3>. HIDE DEF x
    <3>1. x \in Nat /\ 128 * x <= d.capacity + d.groups * 127
      BY <2>1, <2>4 DEF x
    <3>. DEFINE y == d.capacity + d.groups * 127
    <3>2. y \in Nat
      OBVIOUS
    <3>. HIDE DEF y
    <3>3. x <= y \div 128
      BY <3>1, <3>2 DEF y
    <3>. QED  BY <3>3 DEF x, y
  <2>. QED  BY <2>1, <2>4, <2>5 DEF ScaleTiles, tiles
<1>3. [t \in T |-> 0] \in Partitions(d)
  <2>. DEFINE none == [t \in T |-> 0]
  <2>1. none \in [T -> Nat] /\ \A t \in T : none[t] = 0
    OBVIOUS
  <2>. HIDE DEF none
  <2>2. SumFunction(none) = 0
    BY <1>1, <2>1, SumsOfZero
  <2>3. none \in [T -> {r \in RowCounts : r <= d.max}]
    BY <2>1, GroupsMayBeEmpty DEF none
  <2>. QED  BY <2>2, <2>3 DEF Partitions, T, none
<1>. HIDE DEF bound
<1>4. /\ S \in SUBSET Int /\ S # {} /\ U \in SUBSET Int /\ U # {}
      /\ (\A x \in S : x <= d.capacity) /\ (\A x \in U : x <= bound)
  BY <1>2, <1>3
<1>5. RowExtent(d) = Max(S)
  BY DEF RowExtent
<1>. HIDE DEF S, U
<1>6. Max(S) \in S /\ Max(S) <= d.capacity
  BY <1>4, MaxOfBounded
<1>7. Max(U) \in U /\ Max(U) <= bound
  BY <1>1, <1>4, MaxOfBounded
<1>. QED  BY <1>4, <1>5, <1>6, <1>7 DEF U, bound

(* What the kernels touch of rows that are placed within the capacity.     *)
LEMMA ExtentSuits ==
    ASSUME NEW extent \in Int, NEW capacity \in Nat, extent <= capacity,
           NEW columns \in Nat, NEW facadeWidth \in 1..15, NEW execute, Measures(execute)
    PROVE  /\ Suits(Some(facadeWidth), Of(Mul(capacity, columns), 1), extent * columns, execute)
           /\ Suits(Some(facadeWidth), Of(Mul(Mul(capacity, columns), 2), 1),
                    extent * columns * 2, execute)
<1>. DEFINE bytes == extent * columns  n == capacity * columns
<1>1. bytes \in Int /\ bytes <= n /\ n \in Nat
  <2>1. \A x, y \in Int : x <= y => x * columns <= y * columns
    OBVIOUS
  <2>. QED  BY <2>1
<1>2. bytes * 2 <= n * 2 /\ bytes * 2 \in Int
  BY <1>1
<1>3. Suits(Some(facadeWidth), Of(Mul(capacity, columns), 1), bytes, execute)
  <2>. HIDE DEF bytes
  <2>. QED  BY <1>1, CheckedRowSuits DEF n
<1>. DEFINE twice == bytes * 2
<1>4. Suits(Some(facadeWidth), Of(Mul(Mul(capacity, columns), 2), 1), twice, execute)
  <2>1. 2 \in Nat /\ twice \in Int /\ twice <= capacity * columns * 2
    BY <1>2
  <2>. HIDE DEF twice
  <2>. QED  BY <2>1, CheckedProductSuits
<1>. QED  BY <1>3, <1>4

(* Rows of the groups that the caller lays out within the capacity.        *)
LEMMA Bf16GroupsIsSound ==
    ASSUME NEW d \in Bf16GroupsDims
    PROVE  Sound(Bf16Groups(d))
<1>. SUFFICES ASSUME Bf16GroupsSpec(d), Bf16GroupsCreate(d)
              PROVE  AllSuit(Bf16GroupsLengths(d), Bf16GroupsSizes(d), Bf16GroupsExecute(d))
  BY DEF Sound, Bf16Groups, Kind
<1>. DEFINE extent == RowExtent(d)
<1>1. /\ d.groups \in Nat /\ d.max \in Nat /\ d.n \in Nat /\ d.k \in Nat /\ d.capacity \in Nat
  BY DEF Bf16GroupsDims, Usize
<1>2. Measures(Bf16GroupsExecute(d))
  BY DEF Measures, Bf16GroupsExecute, Launch, LaunchIf, BindFirst, Range
<1>3. extent \in Int /\ extent <= d.capacity
  BY <1>1, PartitionsFit
<1>. HIDE DEF extent
<1>4. /\ d.groups * 4 \in Int /\ d.groups * d.n * d.k * 2 \in Int
      /\ d.groups * d.n * d.k * 2 <= d.groups * d.k * d.n * 2
  <2>1. d.groups * d.n \in Nat /\ d.groups * d.n * d.k \in Nat
        /\ d.groups * d.n * d.k = d.groups * d.k * d.n
    BY <1>1
  <2>. QED  BY <1>1, <2>1
<1>5. 2 \in 1..15 /\ 4 \in 1..15 /\ 2 \in Nat /\ 4 \in Nat /\ \A x \in Int : x <= x
  OBVIOUS
<1>6. /\ Suits(Some(2), Of(Mul(Mul(d.capacity, d.k), 2), 1), extent * d.k * 2,
               Bf16GroupsExecute(d))
      /\ Suits(Some(2), Of(Mul(Mul(d.capacity, d.n), 2), 1), extent * d.n * 2,
               Bf16GroupsExecute(d))
  BY <1>1, <1>2, <1>3, <1>5, ExtentSuits
<1>7. Suits(Some(4), Of(Mul(d.groups, 4), 1), d.groups * 4, Bf16GroupsExecute(d))
  BY <1>1, <1>2, <1>4, <1>5, CheckedRowSuits
<1>8. Suits(Some(2), Of(Mul(Mul(Mul(d.groups, d.k), d.n), 2), 1),
            d.groups * d.n * d.k * 2, Bf16GroupsExecute(d))
  <2>. DEFINE bytes == d.groups * d.n * d.k * 2
  <2>1. bytes \in Int /\ bytes <= d.groups * d.k * d.n * 2
    BY <1>4
  <2>. HIDE DEF bytes
  <2>2. Suits(Some(2), Of(Mul(Mul(Mul(d.groups, d.k), d.n), 2), 1), bytes,
              Bf16GroupsExecute(d))
    BY <1>1, <1>2, <1>5, <2>1, CheckedCubeSuits
  <2>. QED  BY <2>2 DEF bytes
<1>9. Suits(Some(2), Of(Mul(Mul(Mul(d.groups, d.k), d.n), 2), 1),
            Indexed({(d.groups - 1) * d.n * d.k}, d.groups * d.n * d.k * 2),
            Bf16GroupsExecute(d))
  BY <1>8, IndexedSuits
<1>. QED  BY <1>6, <1>7, <1>9
          DEF extent, AllSuit, Bf16GroupsLengths, Bf16GroupsSizes, Bf16GroupsExecute,
              Launch, LaunchIf, Exactly

(* Scale factors of all groups, as the layer below counts them.            *)
LEMMA GroupScalesSuit ==
    ASSUME NEW d \in Fp4GroupsDims, Fp4GroupsSpec(d), Fp4GroupsCreate(d),
           NEW execute, Measures(execute)
    PROVE  Suits(Some(1), Of(TileScales(ScaleCapacity(d), d.k), 1), BiggestScales(d), execute)
<1>. DEFINE most == Max({ScaleTiles(rows) : rows \in Partitions(d)})
            all == d.capacity + d.groups * 127
            tiles == all \div 128  columns == d.k \div 64
<1>1. /\ d.groups \in 1..I32Max /\ d.max \in Nat /\ d.capacity \in 1..U32Max
      /\ d.k \in Nat \ {0} /\ d.k % 64 = 0
  BY WordsAreWide
     DEF Fp4GroupsDims, Usize, Fp4GroupsSpec, Fp4GroupsCreate, Positive, Narrow
<1>2. most \in Int /\ most <= tiles
  <2>1. d.groups \in Nat /\ d.capacity \in Nat
    BY <1>1, WordsAreWide
  <2>. HIDE DEF tiles
  <2>2. most \in Int /\ most <= all \div 128
    BY <1>1, <2>1, PartitionsFit
  <2>. QED  BY <2>2 DEF tiles
<1>3. all \in Nat /\ all <= UsizeMax /\ all >= 128
  BY <1>1, WordsAreWide
<1>4. Add(d.capacity, Mul(d.groups, 127)) = all
  <2>. DEFINE pads == d.groups * 127
  <2>1. pads \in Nat /\ pads <= UsizeMax /\ d.groups \in Nat /\ d.capacity \in Nat
    BY <1>1, <1>3, WordsAreWide
  <2>2. Mul(d.groups, 127) = Checked(pads) /\ Checked(pads) = pads
    BY <2>1, MulIsChecked, Fits
  <2>. HIDE DEF pads
  <2>3. Add(d.capacity, pads) = d.capacity + pads
    BY <1>3, <2>1, WordsAreWide DEF Add, pads
  <2>. QED  BY <2>2, <2>3 DEF pads
<1>. HIDE DEF most, all
<1>5. tiles \in Nat \ {0} /\ columns \in Nat
  BY <1>1, <1>3
<1>. DEFINE rows == tiles * 128
<1>6. rows \in Nat \ {0} /\ ScaleCapacity(d) = rows /\ DivCeil(rows, 128) = tiles
  BY <1>4, <1>5 DEF ScaleCapacity, DivCeil
<1>. HIDE DEF tiles, columns, rows
<1>7. TileScales(rows, d.k) = Checked(tiles * columns * 512)
      /\ tiles * columns * 512 \in Nat
  BY <1>1, <1>6, TilesCount DEF columns
<1>. DEFINE n == tiles * columns * 512  bytes == most * columns * 512
<1>8. bytes \in Int /\ bytes <= n
  <2>1. \A x, y \in Int : x <= y => x * columns <= y * columns
    BY <1>5
  <2>2. most * columns \in Int /\ tiles * columns \in Int /\ most * columns <= tiles * columns
    BY <1>2, <1>5, <2>1
  <2>. QED  BY <2>2
<1>9. BiggestScales(d) = bytes
  BY DEF BiggestScales, most, columns
<1>. HIDE DEF n, bytes
<1>10. Suits(Some(1), Of(Checked(n), 1), bytes, execute)
  <2>1. 1 \in 1..15
    OBVIOUS
  <2>. QED  BY <1>7, <1>8, <2>1, CheckedSuits DEF n
<1>. QED  BY <1>6, <1>7, <1>9, <1>10 DEF n

(* Every operand of such a product.                                        *)
LEMMA Fp4GroupsSuit ==
    ASSUME NEW d \in Fp4GroupsDims, Fp4GroupsSpec(d), Fp4GroupsCreate(d),
           NEW execute, Measures(execute)
    PROVE  LET touches == Fp4GroupsExecute(d).touches IN
           /\ DOMAIN touches = 1..10 /\ DOMAIN Fp4GroupsLengths(d) = 1..10
           /\ \A i \in 1..10 :
                 Suits(Fp4GroupsLengths(d)[i], Fp4GroupsSizes(d)[i], touches[i], execute)
<1>. DEFINE extent == RowExtent(d)  half == d.k \div 2
<1>1. /\ d.groups \in Nat /\ d.matrices \in Nat \ {0} /\ d.max \in Nat
      /\ d.n \in Nat \ {0} /\ d.k \in Nat \ {0} /\ d.k % 64 = 0 /\ d.capacity \in Nat
      /\ half \in Nat
  BY DEF Fp4GroupsDims, Usize, Fp4GroupsSpec, Positive, Fp4GroupsCreate
<1>2. extent \in Int /\ extent <= d.capacity
  BY <1>1, PartitionsFit
<1>. HIDE DEF extent, half
<1>3. d.groups * 4 \in Int /\ d.matrices * 4 \in Int /\ d.matrices * d.n * half \in Int
  <2>1. d.matrices * d.n \in Nat
    BY <1>1
  <2>. QED  BY <1>1, <2>1
<1>4. 1 \in 1..15 /\ 2 \in 1..15 /\ 4 \in 1..15 /\ 4 \in Nat /\ \A x \in Int : x <= x
  OBVIOUS
<1>5. /\ Suits(Some(1), Of(Mul(d.capacity, half), 1), extent * half, execute)
      /\ Suits(Some(2), Of(Mul(Mul(d.capacity, d.n), 2), 1), extent * d.n * 2, execute)
  BY <1>1, <1>2, <1>4, ExtentSuits
<1>6. Suits(Some(1), Of(TileScales(ScaleCapacity(d), d.k), 1), BiggestScales(d), execute)
  BY GroupScalesSuit
<1>7. Suits(Some(1), Of(Mul(Mul(d.matrices, d.n), half), 1), d.matrices * d.n * half, execute)
  BY <1>1, <1>3, <1>4, CheckedProductSuits
<1>8. Suits(Some(1), Of(Mul(TileScales(d.n, d.k), d.matrices), 1),
            (d.matrices - 1) * ScaleStride(d.n, d.k) + ScaleExtent(d.n, d.k), execute)
  BY <1>1, <1>4, TilesSuit
<1>9. /\ Suits(Some(4), Of(Mul(d.matrices, 4), 1), d.matrices * 4, execute)
      /\ Suits(Some(4), Of(Mul(d.groups, 4), 1), d.groups * 4, execute)
  BY <1>1, <1>3, <1>4, CheckedRowSuits
<1>. DEFINE scales == ScaleStride(d.n, d.k)
<1>10. Suits(Some(1), Of(Mul(TileScales(d.n, d.k), d.matrices), 1),
             Indexed({scales}, (d.matrices - 1) * scales + ScaleExtent(d.n, d.k)), execute)
  BY <1>8, IndexedSuits
<1>. QED  BY <1>5, <1>6, <1>7, <1>9, <1>10
          DEF extent, half, Fp4GroupsLengths, Fp4GroupsSizes, Fp4GroupsExecute,
              Launch, LaunchIf, Exactly

(* Groups of FP4 rows, their factors in tiles of 128 rows for each group.  *)
LEMMA Fp4GroupsIsSound ==
    ASSUME NEW d \in Fp4GroupsDims
    PROVE  Sound(Fp4Groups(d))
<1>. SUFFICES ASSUME Fp4GroupsSpec(d), Fp4GroupsCreate(d)
              PROVE  AllSuit(Fp4GroupsLengths(d), Fp4GroupsSizes(d), Fp4GroupsExecute(d))
  BY DEF Sound, Fp4Groups, Kind
<1>. DEFINE execute == Fp4GroupsExecute(d)
<1>1. Measures(execute) /\ execute.prepared = <<>>
  BY DEF Measures, Fp4GroupsExecute, Launch, LaunchIf, BindFirst, Range
<1>2. /\ DOMAIN execute.touches = 1..10 /\ DOMAIN Fp4GroupsLengths(d) = 1..10
      /\ \A i \in 1..10 :
            Suits(Fp4GroupsLengths(d)[i], Fp4GroupsSizes(d)[i], execute.touches[i], execute)
  <2>. HIDE DEF execute
  <2>1. \A e : Measures(e) => \A i \in 1..10 :
            Suits(Fp4GroupsLengths(d)[i], Fp4GroupsSizes(d)[i],
                  Fp4GroupsExecute(d).touches[i], e)
    BY Fp4GroupsSuit
  <2>2. DOMAIN Fp4GroupsExecute(d).touches = 1..10 /\ DOMAIN Fp4GroupsLengths(d) = 1..10
    BY <1>1, Fp4GroupsSuit
  <2>. QED  BY <1>1, <2>1, <2>2 DEF execute
<1>3. DOMAIN execute.prepared = {}
  BY <1>1
<1>. HIDE DEF execute
<1>. QED  BY <1>2, <1>3 DEF AllSuit, execute

(* Operands of two products over the same groups.                          *)
Twin(i) == IF i <= 5 THEN i ELSE IF i <= 14 THEN i - 5 ELSE 10

(* Two products of the same rows have the operands of one twice, but the   *)
(* shared ones.                                                            *)
LEMMA TwiceTwins ==
    ASSUME NEW V, NEW side \in [1..10 -> V]
    PROVE  /\ DOMAIN Twice(side) = 1..16
           /\ \A i \in 1..16 : Twice(side)[i] = side[Twin(i)]
<1>. DEFINE own == SubSeq(side, 1, 5)  shared == SubSeq(side, 6, 9)
            output == <<side[10], side[10]>>
<1>1. own \in Seq(V) /\ Len(own) = 5 /\ \A i \in 1..5 : own[i] = side[i]
  BY SubSeqProperties
<1>2. shared \in Seq(V) /\ Len(shared) = 4 /\ \A i \in 1..4 : shared[i] = side[i + 5]
  BY SubSeqProperties
<1>3. /\ output \in Seq(V) /\ Len(output) = 2
      /\ output[1] = side[10] /\ output[2] = side[10]
  OBVIOUS
<1>. HIDE DEF own, shared, output
<1>. DEFINE both == own \o own  inputs == both \o shared  all == inputs \o output
<1>4. /\ both \in Seq(V) /\ Len(both) = 10
      /\ \A i \in 1..10 : both[i] = IF i <= 5 THEN own[i] ELSE own[i - 5]
  <2>1. /\ own \o own \in Seq(V) /\ Len(own \o own) = Len(own) + Len(own)
        /\ \A i \in 1..(Len(own) + Len(own)) :
              (own \o own)[i] = IF i <= Len(own) THEN own[i] ELSE own[i - Len(own)]
    BY <1>1, ConcatProperties
  <2>. QED  BY <1>1, <2>1
<1>. HIDE DEF both
<1>5. /\ inputs \in Seq(V) /\ Len(inputs) = 14
      /\ \A i \in 1..14 : inputs[i] = IF i <= 10 THEN both[i] ELSE shared[i - 10]
  <2>1. /\ both \o shared \in Seq(V) /\ Len(both \o shared) = Len(both) + Len(shared)
        /\ \A i \in 1..(Len(both) + Len(shared)) :
              (both \o shared)[i] = IF i <= Len(both) THEN both[i] ELSE shared[i - Len(both)]
    BY <1>2, <1>4, ConcatProperties
  <2>2. Len(both) = 10 /\ Len(shared) = 4
    BY <1>2, <1>4
  <2>3. Len(inputs) = 14 /\ inputs \in Seq(V)
    BY <2>1, <2>2
  <2>4. ASSUME NEW i \in 1..14
        PROVE  inputs[i] = IF i <= 10 THEN both[i] ELSE shared[i - 10]
    <3>1. i \in 1..(Len(both) + Len(shared))
      BY <2>2
    <3>2. inputs[i] = IF i <= Len(both) THEN both[i] ELSE shared[i - Len(both)]
      BY <2>1, <3>1
    <3>. QED  BY <2>2, <3>2
  <2>. HIDE DEF inputs
  <2>. QED  BY <2>3, <2>4
<1>. HIDE DEF inputs
<1>6. /\ all \in Seq(V) /\ Len(all) = 16
      /\ \A i \in 1..16 : all[i] = IF i <= 14 THEN inputs[i] ELSE output[i - 14]
  <2>1. /\ inputs \o output \in Seq(V) /\ Len(inputs \o output) = Len(inputs) + Len(output)
        /\ \A i \in 1..(Len(inputs) + Len(output)) :
              (inputs \o output)[i] =
                IF i <= Len(inputs) THEN inputs[i] ELSE output[i - Len(inputs)]
    BY <1>3, <1>5, ConcatProperties
  <2>2. Len(inputs) = 14 /\ Len(output) = 2
    BY <1>3, <1>5
  <2>3. Len(all) = 16 /\ all \in Seq(V)
    BY <2>1, <2>2
  <2>4. ASSUME NEW i \in 1..16
        PROVE  all[i] = IF i <= 14 THEN inputs[i] ELSE output[i - 14]
    <3>1. i \in 1..(Len(inputs) + Len(output))
      BY <2>2
    <3>2. all[i] = IF i <= Len(inputs) THEN inputs[i] ELSE output[i - Len(inputs)]
      BY <2>1, <3>1
    <3>. QED  BY <2>2, <3>2
  <2>. HIDE DEF all
  <2>. QED  BY <2>3, <2>4
<1>7. Twice(side) = all
  BY DEF Twice, all, inputs, both, own, shared, output
<1>. HIDE DEF all
<1>8. ASSUME NEW i \in 1..16  PROVE all[i] = side[Twin(i)]
  <2>1. CASE i <= 5
    BY <1>1, <1>4, <1>5, <1>6, <2>1 DEF Twin
  <2>2. CASE i \in 6..10
    BY <1>1, <1>4, <1>5, <1>6, <2>2 DEF Twin
  <2>3. CASE i \in 11..14
    BY <1>2, <1>5, <1>6, <2>3 DEF Twin
  <2>4. CASE i \in 15..16
    BY <1>3, <1>6, <2>4 DEF Twin
  <2>. QED  BY <2>1, <2>2, <2>3, <2>4
<1>. QED  BY <1>6, <1>7, <1>8

(* Two such products in one call.                                          *)
LEMMA PairedIsSound ==
    ASSUME NEW d \in Fp4GroupsDims
    PROVE  Sound(Paired(d))
<1>. SUFFICES ASSUME Fp4GroupsSpec(d), Fp4GroupsCreate(d)
              PROVE  AllSuit(PairedLengths(d), PairedSizes(d), PairedExecute(d))
  BY DEF Sound, Paired, Kind, PairedCreate
<1>. DEFINE execute == PairedExecute(d)  lengths == Fp4GroupsLengths(d)
            sizes == Fp4GroupsSizes(d)  touches == Fp4GroupsExecute(d).touches
<1>1. Measures(execute) /\ execute.prepared = <<>> /\ execute.touches = Twice(touches)
  BY DEF Measures, PairedExecute, Launch, LaunchIf, BindFirst, Range
<1>2. /\ DOMAIN touches = 1..10 /\ touches = [i \in 1..10 |-> touches[i]]
      /\ sizes = [i \in 1..10 |-> sizes[i]]
  BY DEF Fp4GroupsExecute, Launch, LaunchIf, Fp4GroupsSizes, Exactly
<1>3. /\ DOMAIN PairedLengths(d) = 1..16
      /\ \A i \in 1..16 : PairedLengths(d)[i] = lengths[Twin(i)]
  BY DEF PairedLengths, Fp4GroupsLengths, Twin
<1>. HIDE DEF execute
<1>4. \A i \in 1..10 : Suits(lengths[i], sizes[i], touches[i], execute)
  <2>1. \A e : Measures(e) => \A i \in 1..10 : Suits(lengths[i], sizes[i], touches[i], e)
    BY Fp4GroupsSuit
  <2>. QED  BY <1>1, <2>1
<1>. HIDE DEF lengths, sizes, touches
<1>5. /\ DOMAIN Twice(touches) = 1..16
      /\ \A i \in 1..16 : Twice(touches)[i] = touches[Twin(i)]
  <2>1. touches \in [1..10 -> {touches[i] : i \in 1..10}]
    BY <1>2
  <2>. QED  BY <2>1, TwiceTwins
<1>6. /\ DOMAIN Twice(sizes) = 1..16
      /\ \A i \in 1..16 : Twice(sizes)[i] = sizes[Twin(i)]
  <2>1. sizes \in [1..10 -> {sizes[i] : i \in 1..10}]
    BY <1>2
  <2>. QED  BY <2>1, TwiceTwins
<1>7. \A i \in 1..16 : Twin(i) \in 1..10
  BY DEF Twin
<1>8. \A i \in 1..16 : Suits(PairedLengths(d)[i], Twice(sizes)[i], Twice(touches)[i], execute)
  BY <1>3, <1>4, <1>5, <1>6, <1>7
<1>9. DOMAIN execute.prepared = {}
  BY <1>1
<1>. QED  BY <1>1, <1>3, <1>5, <1>8, <1>9 DEF AllSuit, PairedSizes, sizes, execute

-----------------------------------------------------------------------------
(* Products that cuBLAS and cuBLASLt run.                                  *)

(* The layers count the same matrices.                                     *)
LEMMA CublasSuits ==
    ASSUME NEW d \in CublasDims, CublasSpec(d), CublasCreate(d)
    PROVE  AllSuit(CublasLengths(d), CublasSizes(d), CublasExecute(d))
<1>1. d.m \in Nat /\ d.n \in Nat /\ d.k \in Nat /\ d.bytes \in 1..15
  BY DEF CublasDims, Usize
<1>2. d.m * d.k <= UsizeMax /\ d.n * d.k <= UsizeMax /\ d.m * d.n <= UsizeMax
  BY <1>1, MulFits DEF CublasSpec, Fit
<1>3. Measures(CublasExecute(d))
  BY DEF Measures, CublasExecute, Launch, LaunchIf, StreamFirst, Range
<1>4. /\ Suits(Of(Times(d.m, d.k), d.bytes), Of(Mul(Mul(d.m, d.k), d.bytes), 1),
               d.m * d.k * d.bytes, CublasExecute(d))
      /\ Suits(Of(Times(d.n, d.k), d.bytes), Of(Mul(Mul(d.n, d.k), d.bytes), 1),
               d.n * d.k * d.bytes, CublasExecute(d))
      /\ Suits(Of(Times(d.m, d.n), d.bytes), Of(Mul(Mul(d.m, d.n), d.bytes), 1),
               d.m * d.n * d.bytes, CublasExecute(d))
  BY <1>1, <1>2, <1>3, ProductSuits
<1>. QED  BY <1>4 DEF AllSuit, CublasLengths, CublasElements, CublasSizes, CublasExecute,
                      Launch, LaunchIf, Exactly

(* cuBLAS products of 16-bit or F32 values.                                *)
LEMMA CublasIsSound ==
    ASSUME NEW d \in CublasDims
    PROVE  Sound(Cublas(d))
BY CublasSuits DEF Sound, Cublas, Kind

(* cuBLASLt products of BF16 values.                                       *)
LEMMA LtBf16IsSound ==
    ASSUME NEW d \in LtDims
    PROVE  Sound(LtBf16(d))
<1>. SUFFICES ASSUME LtBf16Spec(d), LtBf16Create(d)
              PROVE  AllSuit(LtBf16Lengths(d), LtBf16Sizes(d), LtBf16Execute(d))
  BY DEF Sound, LtBf16, Kind
<1>. DEFINE whole == OfBf16(d)
<1>1. whole = [m |-> d.m, n |-> d.n, k |-> d.k, bytes |-> 2]
  BY DEF OfBf16
<1>. HIDE DEF whole
<1>2. CublasSpec(whole) /\ CublasCreate(whole) /\ whole \in CublasDims
  BY <1>1 DEF LtDims, CublasDims, LtBf16Spec, LtBf16Create, CublasSpec, CublasCreate
<1>3. AllSuit(CublasLengths(whole), CublasSizes(whole), CublasExecute(whole))
  BY <1>1, <1>2, CublasSuits
<1>. QED  BY <1>3 DEF LtBf16Lengths, LtBf16Sizes, LtBf16Execute, whole

(* cuBLASLt products of FP8 values, with a factor for each matrix.         *)
LEMMA LtFp8IsSound ==
    ASSUME NEW d \in LtDims
    PROVE  Sound(LtFp8(d))
<1>. SUFFICES ASSUME LtFp8Spec(d), LtFp8Create(d)
              PROVE  AllSuit(LtFp8Lengths(d), LtFp8Sizes(d), LtFp8Execute(d))
  BY DEF Sound, LtFp8, Kind
<1>1. d.m \in Nat /\ d.n \in Nat /\ d.k \in Nat
  BY DEF LtDims, Usize
<1>2. Mul(d.m, d.k) # Over /\ Mul(d.n, d.k) # Over /\ d.m * d.n <= UsizeMax
  BY <1>1, MulFits DEF LtFp8Spec, CublasSpec, Fit
<1>3. Measures(LtFp8Execute(d))
  BY DEF Measures, LtFp8Execute, Launch, LaunchIf, StreamFirst, Range
<1>4. Suits(Of(1, 4), Of(4, 1), 4, LtFp8Execute(d))
  BY <1>3, WordsAreWide DEF Suits, Of, Demands, Agree, Covers, Over
<1>5. /\ Suits(Of(Times(d.m, d.k), 1), Of(Mul(d.m, d.k), 1), d.m * d.k, LtFp8Execute(d))
      /\ Suits(Of(Times(d.n, d.k), 1), Of(Mul(d.n, d.k), 1), d.n * d.k, LtFp8Execute(d))
      /\ Suits(Of(Times(d.m, d.n), 2), Of(Mul(Mul(d.m, d.n), 2), 1), d.m * d.n * 2,
               LtFp8Execute(d))
  <2>. HIDE DEF LtFp8Execute
  <2>1. 2 \in 1..15
    OBVIOUS
  <2>. QED  BY <1>1, <1>2, <1>3, <2>1, CountsSuit, ProductSuits
<1>. QED  BY <1>4, <1>5 DEF AllSuit, LtFp8Lengths, LtFp8Sizes, LtFp8Execute,
                            Launch, LaunchIf, Exactly

(* Elements from the first to the last of a view, checked at every step.   *)
LEMMA ExtentIsChecked ==
    ASSUME NEW operand, operand.leading \in Nat, operand.stride \in Nat,
           operand.transposed \in BOOLEAN, NEW rows \in Nat \ {0},
           NEW columns \in Nat \ {0}, NEW batch \in Nat \ {0}
    PROVE  LET last_ == (Rows(operand, rows, columns) - 1) * operand.leading
               extent == (batch - 1) * operand.stride + last_ + Columns(operand, rows, columns)
           IN  /\ last_ \in Nat /\ extent \in Nat
               /\ Extent(operand, rows, columns, batch) = Checked(extent)
<1>. DEFINE r == Rows(operand, rows, columns) - 1  c == Columns(operand, rows, columns)
            b == batch - 1  x == r * operand.leading  y == b * operand.stride
<1>1. r \in Nat /\ c \in Nat /\ b \in Nat
  BY DEF Rows, Columns
<1>. HIDE DEF r, c, b
<1>2. x \in Nat /\ y \in Nat
  BY <1>1
<1>3. Mul(r, operand.leading) = Checked(x) /\ Mul(b, operand.stride) = Checked(y)
  BY <1>1, MulIsChecked
<1>. HIDE DEF x, y
<1>4. Add(Checked(x), c) = Checked(x + c)
  BY <1>1, <1>2, AddChecks
<1>. DEFINE z == x + c
<1>5. z \in Nat
  BY <1>1, <1>2
<1>. HIDE DEF z
<1>6. Add(Checked(y), Checked(z)) = Checked(y + z)
  BY <1>2, <1>5, AddChecks
<1>7. Extent(operand, rows, columns, batch) = Checked(y + z)
  BY <1>3, <1>4, <1>6 DEF Extent, Span, r, c, b, z
<1>8. y + z = y + x + c /\ y + x + c \in Nat
  BY <1>1, <1>2 DEF z
<1>. QED  BY <1>2, <1>7, <1>8 DEF x, y, r, c, b

(* What cuBLAS takes of a leading dimension is no more than it.            *)
LEMMA TakenIsLess ==
    ASSUME NEW v \in Nat
    PROVE  AsInt(v) \in Int /\ AsInt(v) <= v
<1>. DEFINE word == U32Max + 1  low == v % word
<1>1. word \in Nat \ {0}
  BY WordsAreWide
<1>. HIDE DEF word
<1>2. low \in Nat /\ low <= v
  BY <1>1
<1>. QED  BY <1>1, <1>2 DEF AsInt, word

(* A view, whose leading dimension the layer below takes as a word: one    *)
(* that is cut off reaches less than was demanded.                         *)
LEMMA ViewSuits ==
    ASSUME NEW operand \in Views, NEW rows \in Nat \ {0}, NEW columns \in Nat \ {0},
           NEW batch \in Nat \ {0}, NEW width \in 1..15, NEW bytes,
           NEW execute, Measures(execute),
           Extent(operand, rows, columns, batch) # Over,
           execute.accepted =>
               /\ Taken(operand).leading >= Columns(operand, rows, columns)
               /\ bytes = (operand.offset + Extent(Taken(operand), rows, columns, batch)) * width
    PROVE  Suits(Some(width),
                 AtLeast(Mul(Add(operand.offset, Extent(operand, rows, columns, batch)), width), 1),
                 bytes, execute)
<1>. DEFINE taken == Taken(operand)  r == Rows(operand, rows, columns) - 1
            c == Columns(operand, rows, columns)
            y == (batch - 1) * operand.stride
            x == r * operand.leading  w == r * taken.leading
            extent == y + x + c  less == y + w + c  offset == operand.offset
<1>1. /\ operand.leading \in Nat /\ operand.stride \in Nat /\ operand.transposed \in BOOLEAN
      /\ offset \in Nat /\ r \in Nat /\ c \in Nat
  BY DEF Views, Usize, Rows, Columns
<1>2. extent \in Nat /\ Extent(operand, rows, columns, batch) = Checked(extent)
  BY <1>1, ExtentIsChecked
<1>. DEFINE most == (offset + extent) * width
<1>3. most \in Nat /\ Mul(Add(offset, Checked(extent)), width) = Checked(most)
  <2>. HIDE DEF extent
  <2>. DEFINE n == offset + extent
  <2>1. n \in Nat /\ width \in Nat
    BY <1>1, <1>2
  <2>2. Add(offset, Checked(extent)) = Checked(n)
    BY <1>1, <1>2, AddChecks
  <2>. HIDE DEF n
  <2>3. Mul(Checked(n), width) = Checked(n * width) /\ n * width \in Nat
    BY <2>1, MulChecks
  <2>. QED  BY <2>2, <2>3 DEF n
<1>4. ASSUME execute.accepted
      PROVE  bytes \in Int /\ bytes <= most
  <2>1. /\ taken.leading = AsInt(operand.leading) /\ taken.stride = operand.stride
        /\ taken.transposed = operand.transposed
    BY DEF Views, Taken
  <2>2. taken.leading \in Nat /\ taken.leading <= operand.leading
    BY <1>1, <1>4, <2>1, TakenIsLess
  <2>3. Rows(taken, rows, columns) - 1 = r /\ Columns(taken, rows, columns) = c
    BY <2>1 DEF Rows, Columns
  <2>4. less \in Nat /\ Extent(taken, rows, columns, batch) = Checked(less)
    <3>. HIDE DEF taken
    <3>. QED  BY <1>1, <2>1, <2>2, <2>3, ExtentIsChecked
  <2>5. less <= extent
    <3>1. w <= x /\ w \in Nat /\ x \in Nat
      <4>. HIDE DEF r, taken
      <4>. QED  BY <1>1, <2>2
    <3>2. y \in Nat
      BY <1>1
    <3>. HIDE DEF w, x, y, c
    <3>. QED  BY <1>1, <3>1, <3>2
  <2>6. extent <= UsizeMax
    <3>. HIDE DEF extent
    <3>. QED  BY <1>2, Fits
  <2>. HIDE DEF less, extent, taken
  <2>7. Checked(less) = less
    BY <1>2, <2>4, <2>5, <2>6, Fits, WordsAreWide
  <2>8. bytes = (offset + less) * width
    BY <1>4, <2>4, <2>7 DEF taken
  <2>. HIDE DEF offset
  <2>9. offset + less <= offset + extent /\ offset + less \in Nat
    BY <1>1, <1>2, <2>4, <2>5
  <2>. QED  BY <1>1, <1>2, <2>8, <2>9
<1>. HIDE DEF most
<1>5. Checked(most) \in Nat /\ (Checked(most) = Over \/ Checked(most) = most)
  BY <1>3, Fits
<1>6. width \in 1..UsizeMax
  BY WordsAreWide
<1>. DEFINE below == AtLeast(Checked(most), 1)
<1>7. below \in Demands /\ below.width = 1 /\ below.len = Checked(most)
      /\ Some(width) \in Demands /\ Some(width).width = width
  BY <1>5, <1>6, WordsAreWide DEF AtLeast, Some, Demands
<1>8. execute.accepted => Covers(below, bytes)
  BY <1>3, <1>4, <1>5, <1>7 DEF Covers
<1>. HIDE DEF below
<1>9. Suits(Some(width), below, bytes, execute)
  BY <1>7, <1>8 DEF Suits, Agree
<1>. QED  BY <1>2, <1>3, <1>9 DEF below

(* Products of views into larger matrices, in batches.                     *)
LEMMA GemmIsSound ==
    ASSUME NEW d \in GemmDims
    PROVE  Sound(Gemm(d))
<1>. SUFFICES ASSUME GemmSpec(d), GemmCreate(d)
              PROVE  AllSuit(GemmLengths(d), GemmSizes(d), GemmExecute(d))
  BY DEF Sound, Gemm, Kind
<1>. DEFINE execute == GemmExecute(d)
            bytes(i) == execute.touches[i]
<1>1. /\ d.m \in Nat \ {0} /\ d.n \in Nat \ {0} /\ d.k \in Nat \ {0} /\ d.batch \in Nat \ {0}
      /\ d.in \in 1..15 /\ d.out \in 1..15
      /\ d.left \in Views /\ d.right \in Views /\ d.output \in Views
  BY DEF GemmDims, Usize, GemmSpec, Positive
<1>2. Measures(execute)
  BY DEF Measures, GemmExecute, LaunchIf, StreamFirst, Range
<1>3. /\ Extent(d.right, d.k, d.n, d.batch) # Over
      /\ Extent(d.left, d.m, d.k, d.batch) # Over
      /\ Extent(d.output, d.m, d.n, d.batch) # Over
  <2>1. Extents(d)[1] # Over /\ Extents(d)[2] # Over /\ Extents(d)[3] # Over
    BY DEF GemmCreate, Fit
  <2>. QED  BY <2>1 DEF Extents
<1>4. DOMAIN execute.touches = 1..3 /\ execute.prepared = <<>>
  BY DEF GemmExecute, LaunchIf
<1>5. ASSUME execute.accepted
      PROVE  /\ Taken(d.right).leading >= Columns(d.right, d.k, d.n)
             /\ bytes(1) = (d.right.offset + Extent(Taken(d.right), d.k, d.n, d.batch)) * d.in
             /\ Taken(d.left).leading >= Columns(d.left, d.m, d.k)
             /\ bytes(2) = (d.left.offset + Extent(Taken(d.left), d.m, d.k, d.batch)) * d.in
             /\ Taken(d.output).leading >= Columns(d.output, d.m, d.n)
             /\ bytes(3) = (d.output.offset + Extent(Taken(d.output), d.m, d.n, d.batch)) * d.out
  <2>. DEFINE taken == TakenGemm(d)
  <2>1. /\ taken.m = d.m /\ taken.n = d.n /\ taken.k = d.k /\ taken.batch = d.batch
        /\ taken.in = d.in /\ taken.out = d.out
        /\ taken.left = Taken(d.left) /\ taken.right = Taken(d.right)
        /\ taken.output = Taken(d.output)
    BY DEF GemmDims, TakenGemm
  <2>2. \A v \in Views : Taken(v).offset = v.offset /\ Taken(v).transposed = v.transposed
    BY DEF Taken, Views
  <2>3. GemmSpec(taken)
    BY <1>5 DEF GemmExecute, LaunchIf
  <2>4. execute.touches =
          [i \in 1..3 |-> (Operands(taken)[i].offset + Extents(taken)[i]) * GemmBytes(d)[i]]
    BY <2>3 DEF GemmExecute, LaunchIf
  <2>. HIDE DEF taken, execute
  <2>5. /\ bytes(1) = (taken.right.offset + Extent(taken.right, d.k, d.n, d.batch)) * d.in
        /\ bytes(2) = (taken.left.offset + Extent(taken.left, d.m, d.k, d.batch)) * d.in
        /\ bytes(3) = (taken.output.offset + Extent(taken.output, d.m, d.n, d.batch)) * d.out
    BY <2>1, <2>4 DEF Operands, Extents, GemmBytes
  <2>6. /\ taken.left.leading >= Columns(taken.left, d.m, d.k)
        /\ taken.right.leading >= Columns(taken.right, d.k, d.n)
        /\ taken.output.leading >= Columns(taken.output, d.m, d.n)
    BY <2>1, <2>3 DEF GemmSpec, Columns
  <2>. QED  BY <1>1, <2>1, <2>2, <2>5, <2>6 DEF Columns
<1>. HIDE DEF execute
<1>6. /\ Suits(Some(d.in), AtLeast(Mul(Add(d.right.offset,
                   Extent(d.right, d.k, d.n, d.batch)), d.in), 1), bytes(1), execute)
      /\ Suits(Some(d.in), AtLeast(Mul(Add(d.left.offset,
                   Extent(d.left, d.m, d.k, d.batch)), d.in), 1), bytes(2), execute)
      /\ Suits(Some(d.out), AtLeast(Mul(Add(d.output.offset,
                   Extent(d.output, d.m, d.n, d.batch)), d.out), 1), bytes(3), execute)
  BY <1>1, <1>2, <1>3, <1>5, ViewSuits
<1>7. DOMAIN execute.prepared = {}
  BY <1>4
<1>8. /\ DOMAIN GemmLengths(d) = 1..3
      /\ \A i \in 1..3 : Suits(GemmLengths(d)[i], GemmSizes(d)[i], bytes(i), execute)
  BY <1>6 DEF GemmLengths, GemmSizes, Extents, Operands, GemmBytes
<1>. QED  BY <1>4, <1>7, <1>8 DEF AllSuit, execute

-----------------------------------------------------------------------------
(* Attention.                                                              *)

(* A call whose conditions fail: no buffer has the sizes below, or those   *)
(* of the facade.                                                          *)
LEMMA NothingSuits ==
    ASSUME NEW width \in 1..15, NEW bytes, NEW execute, Measures(execute)
    PROVE  Suits(Some(width), Of(Over, 1), bytes, execute)
BY WordsAreWide DEF Suits, Some, AtLeast, Of, Demands, Agree, Covers

(* Nor has one the sizes that a facade refuses.                            *)
LEMMA RefusedSuits ==
    ASSUME NEW below \in Demands, below.width = 1, NEW bytes, NEW execute
    PROVE  Suits(Of(Over, 1), below, bytes, execute)
BY WordsAreWide DEF Suits, Of, Demands, Agree, Covers

(* At least a size, checked or saturated, that the numbers of an accepted  *)
(* call do not exceed.                                                     *)
LEMMA LeastSuits ==
    ASSUME NEW n \in Nat, NEW bytes, NEW width \in 1..15, NEW execute, Measures(execute),
           execute.accepted => bytes \in Int /\ bytes <= n
    PROVE  Suits(Some(width), AtLeast(Checked(n), 1), bytes, execute)
<1>1. Checked(n) \in Nat /\ (Checked(n) = Over \/ Checked(n) = n)
  BY Fits
<1>. QED  BY <1>1, WordsAreWide DEF Suits, Some, AtLeast, Demands, Agree, Covers

(* A size that saturates does not, for the numbers of an accepted call.    *)
LEMMA SaturatedSuits ==
    ASSUME NEW n \in Nat, NEW bytes, NEW width \in 1..15, NEW execute, Measures(execute),
           execute.accepted => n <= UsizeMax /\ bytes \in Int /\ bytes <= n
    PROVE  Suits(Some(width), AtLeast(Saturated(Checked(n)), 1), bytes, execute)
<1>1. Checked(n) \in Nat /\ (n <= UsizeMax => Checked(n) = n /\ n # Over)
  BY Fits
<1>2. Saturated(Checked(n)) \in Nat /\ (n <= UsizeMax => Saturated(Checked(n)) = n)
  BY <1>1, WordsAreWide DEF Saturated
<1>. QED  BY <1>2, WordsAreWide DEF Suits, Some, AtLeast, Demands, Agree, Covers

(* Rows of heads of 16-bit values, and of F32.                             *)
RowsOf(rows, heads, columns) == rows * heads * columns

(* Their bytes, checked.                                                   *)
LEMMA RowBytesIsChecked ==
    ASSUME NEW rows \in Nat, NEW heads \in Nat, NEW columns \in Nat
    PROVE  /\ RowsOf(rows, heads, columns) \in Nat
           /\ RowBytes(rows, heads, columns, 2) = Checked(RowsOf(rows, heads, columns) * 2)
           /\ RowBytes(rows, heads, columns, 4) = Checked(RowsOf(rows, heads, columns) * 4)
<1>1. ASSUME NEW width \in Nat
      PROVE  /\ rows * heads * columns \in Nat
             /\ RowBytes(rows, heads, columns, width) = Checked(rows * heads * columns * width)
  BY MulFour DEF RowBytes
<1>2. 2 \in Nat /\ 4 \in Nat
  OBVIOUS
<1>3. rows * heads * columns \in Nat
  BY <1>1, <1>2
<1>4. RowBytes(rows, heads, columns, 2) = Checked(rows * heads * columns * 2)
  BY <1>1, <1>2
<1>5. RowBytes(rows, heads, columns, 4) = Checked(rows * heads * columns * 4)
  BY <1>1, <1>2
<1>. QED  BY <1>3, <1>4, <1>5 DEF RowsOf

(* Keys from an offset on.                                                 *)
KeysFrom(first, context, heads, columns) ==
    Add(Mul(Mul(first, Times(heads, columns)), 2), RowBytes(context, heads, columns, 2))

(* Keys or values from an offset on: what is read is before the end        *)
(* demanded, though the offset's stride wraps.                             *)
LEMMA KeysSuit ==
    ASSUME NEW first \in Nat, NEW context \in Nat, NEW heads \in Nat, NEW columns \in Nat,
           NEW execute, Measures(execute),
           execute.accepted => heads \in 0..I32Max /\ columns \in 0..I32Max
    PROVE  Suits(Some(1), AtLeast(KeysFrom(first, context, heads, columns), 1),
                 RowsOf(first + context, heads, columns) * 2, execute)
<1>. DEFINE each == Times(heads, columns)
            kd == heads * columns
            offset == first * each * 2
            rest == RowsOf(context, heads, columns) * 2
            bytes == RowsOf(first + context, heads, columns) * 2
<1>1. each \in Nat /\ kd \in Nat
  BY WordsAreWide DEF Times
<1>2. ASSUME execute.accepted  PROVE each = kd
  <2>1. kd * 4 <= UsizeMax
    BY <1>2, WordsAreWide
  <2>. HIDE DEF kd
  <2>2. kd <= UsizeMax
    BY <1>1, <2>1, WordsAreWide
  <2>3. heads * columns <= UsizeMax
    BY <2>2 DEF kd
  <2>. QED  BY <2>3, TimesFits DEF kd
<1>3. RowsOf(context, heads, columns) = context * kd
      /\ RowsOf(first + context, heads, columns) = (first + context) * kd
  BY DEF RowsOf
<1>. HIDE DEF each, kd
<1>4. offset \in Nat /\ Mul(Mul(first, each), 2) = Checked(offset)
  <2>1. 2 \in Nat
    OBVIOUS
  <2>2. first * each \in Nat /\ Mul(Mul(first, each), 2) = Checked(first * each * 2)
    BY <1>1, <2>1, MulThree
  <2>. QED  BY <2>2
<1>5. rest \in Nat /\ RowBytes(context, heads, columns, 2) = Checked(rest)
  <2>. DEFINE r == RowsOf(context, heads, columns)
  <2>1. r \in Nat /\ RowBytes(context, heads, columns, 2) = Checked(r * 2)
    BY RowBytesIsChecked
  <2>. HIDE DEF r
  <2>2. r * 2 \in Nat
    BY <2>1
  <2>. QED  BY <2>1, <2>2 DEF r
<1>6. ASSUME execute.accepted  PROVE bytes \in Int /\ bytes <= offset + rest
  <2>1. offset = first * kd * 2 /\ rest = context * kd * 2 /\ bytes = (first + context) * kd * 2
    BY <1>2, <1>3, <1>6
  <2>2. (first + context) * kd = first * kd + context * kd
        /\ first * kd \in Nat /\ context * kd \in Nat
    BY <1>1
  <2>. HIDE DEF offset, rest, bytes
  <2>. QED  BY <2>1, <2>2
<1>. HIDE DEF offset, rest, bytes
<1>. DEFINE n == offset + rest
<1>7. Add(Checked(offset), Checked(rest)) = Checked(n) /\ n \in Nat
  BY <1>4, <1>5, AddChecks
<1>8. execute.accepted => bytes \in Int /\ bytes <= n
  BY <1>6
<1>. HIDE DEF n
<1>9. Suits(Some(1), AtLeast(Checked(n), 1), bytes, execute)
  <2>1. 1 \in 1..15
    OBVIOUS
  <2>. QED  BY <1>7, <1>8, <2>1, LeastSuits
<1>. QED  BY <1>4, <1>5, <1>7, <1>9 DEF bytes, each, KeysFrom

(* Operands demanded under a condition suit if they do when it holds.      *)
LEMMA WhenSuits ==
    ASSUME NEW offers, NEW allowed, NEW lengths, NEW sizes, NEW execute, Measures(execute),
           execute.prepared = <<>>, NEW most \in Nat \ {0},
           DOMAIN lengths = 1..most, DOMAIN sizes = 1..most,
           allowed => DOMAIN execute.touches = 1..most,
           \A i \in 1..most : \E width \in 1..15 : lengths[i] = Some(width),
           allowed => \A i \in 1..most :
                          Suits(lengths[i], sizes[i], execute.touches[i], execute)
    PROVE  AllSuit(When(offers, lengths), When(allowed, sizes), execute)
<1>1. /\ DOMAIN When(offers, lengths) = 1..most /\ DOMAIN When(allowed, sizes) = 1..most
      /\ DOMAIN execute.prepared = {} /\ 1 \in 1..most
  BY DEF When
<1>2. CASE ~allowed
  <2>1. \A i \in 1..most : When(allowed, sizes)[i] = Of(Over, 1)
    BY <1>2 DEF When
  <2>2. \A i \in 1..most : When(offers, lengths)[i] = Of(Over, 1)
                           \/ \E width \in 1..15 : When(offers, lengths)[i] = Some(width)
    BY DEF When
  <2>3. Of(Over, 1) \in Demands /\ Of(Over, 1).width = 1
    BY WordsAreWide DEF Of, Demands
  <2>4. \A i \in 1..most :
           Suits(When(offers, lengths)[i], When(allowed, sizes)[i], execute.touches[i], execute)
    BY <2>1, <2>2, <2>3, NothingSuits, RefusedSuits
  <2>5. Hopeless(When(allowed, sizes), execute, 1)
    BY <1>1, <2>1 DEF Hopeless
  <2>. QED  BY <1>1, <2>4, <2>5 DEF AllSuit
<1>3. CASE allowed
  <2>1. When(allowed, sizes) = sizes
    BY <1>3 DEF When
  <2>2. CASE offers
    <3>1. When(offers, lengths) = lengths
      BY <2>2 DEF When
    <3>. QED  BY <1>1, <1>3, <2>1, <3>1 DEF AllSuit
  <2>3. CASE ~offers
    <3>1. \A i \in 1..most : When(offers, lengths)[i] = Of(Over, 1)
      BY <2>3 DEF When
    <3>2. \A i \in 1..most : sizes[i] \in Demands /\ sizes[i].width = 1
      BY <1>3 DEF Suits
    <3>3. \A i \in 1..most :
             Suits(When(offers, lengths)[i], sizes[i], execute.touches[i], execute)
      BY <3>1, <3>2, RefusedSuits
    <3>. QED  BY <1>1, <1>3, <2>1, <3>3 DEF AllSuit
  <2>. QED  BY <2>2, <2>3
<1>. QED  BY <1>2, <1>3

(* Fixed attention: its numbers are narrowed by the call, behind the       *)
(* checks of its sizes.                                                    *)
LEMMA FixedIsSound ==
    ASSUME NEW d \in FixedDims
    PROVE  Sound(Fixed(d))
<1>. SUFFICES ASSUME FmhaSpec(d), FmhaCreate(d)
              PROVE  AllSuit(FixedLengths(d), FixedSizes(d), FixedExecute(d))
  BY DEF Sound, Fixed, Kind
<1>. DEFINE execute == FixedExecute(d)
            query == RowsOf(d.queries, d.heads, d.dim)
            keys == RowsOf(d.first + d.context, d.kv, d.dim) * 2
            allowed == /\ d.queries > 0 /\ d.context >= d.queries
                       /\ d.acc <=> Accumulates(d)
            offsets == Fit({KeyOffset(d), ValueOffset(d)})
            lengths == <<Some(2), Some(1), Some(1), Some(2)>>
                       \o (IF d.acc THEN <<Some(4)>> ELSE <<>>)
            rows == RowBytes(d.queries, d.heads, d.dim, 2)
            least == KeysFrom(d.first, d.context, d.kv, d.dim)
            accs == RowBytes(d.queries, d.heads, d.dim, 4)
            sizes == <<Of(rows, 1), AtLeast(least, 1), AtLeast(least, 1), Of(rows, 1)>>
                     \o (IF d.acc THEN <<AtLeast(accs, 1)>> ELSE <<>>)
            touches == <<OfQueries(d, query * 2), OfKeys(d, keys), OfKeys(d, keys),
                         OfQueries(d, query * 2)>>
                       \o (IF d.dim = 512 THEN <<OfQueries(d, query * 2 * 2)>> ELSE <<>>)
            most == IF d.acc THEN 5 ELSE 4
<1>1. /\ d.heads \in Nat /\ d.kv \in Nat /\ d.dim \in Nat /\ d.queries \in Nat
      /\ d.context \in Nat /\ d.first \in Nat /\ d.acc \in BOOLEAN
      /\ d.vdim = d.dim /\ d.dim \in {64, 128, 256, 512} /\ d.first + d.context \in Nat
  BY WordsAreWide DEF FixedDims, Usize, FmhaSpec
<1>2. Measures(execute)
  BY DEF Measures, FixedExecute, LaunchIf, StreamFirst, Range
<1>3. execute.prepared = <<>>
  BY DEF FixedExecute, LaunchIf
<1>4. execute.accepted => d.kv \in 0..I32Max /\ d.dim \in 0..I32Max
  BY <1>1 DEF FixedExecute, LaunchIf, Narrow
<1>5. execute.touches = touches
  <2>1. d.queries * d.heads * d.dim = query /\ (d.first + d.context) * d.kv * d.dim * 2 = keys
    BY DEF RowsOf
  <2>. HIDE DEF query, keys
  <2>. QED  BY <2>1 DEF FixedExecute, LaunchIf
<1>6. FixedLengths(d) = When(offsets, lengths)
  BY DEF FixedLengths
<1>7. FixedSizes(d) = When(allowed, sizes)
  <2>1. ValueOffset(d) = KeyOffset(d)
    BY <1>1 DEF KeyOffset, ValueOffset
  <2>2. Add(KeyOffset(d), RowBytes(d.context, d.kv, d.dim, 2)) = least
    BY DEF KeysFrom, KeyOffset
  <2>. HIDE DEF least
  <2>. QED  BY <1>1, <2>1, <2>2 DEF FixedSizes
<1>. HIDE DEF execute
<1>8. 1 \in 1..15 /\ 2 \in 1..15 /\ 4 \in 1..15
  OBVIOUS
<1>9. /\ query \in Nat /\ rows = Checked(query * 2) /\ accs = Checked(query * 4)
      /\ Suits(Some(1), AtLeast(least, 1), keys, execute)
  <2>. DEFINE dim == d.dim
  <2>1. d.queries \in Nat /\ d.heads \in Nat /\ dim \in Nat /\ d.kv \in Nat
    BY <1>1
  <2>2. execute.accepted => d.kv \in 0..I32Max /\ dim \in 0..I32Max
    BY <1>4
  <2>3. query \in Nat /\ rows = Checked(query * 2) /\ accs = Checked(query * 4)
    BY <2>1, RowBytesIsChecked
  <2>4. ASSUME NEW first \in Nat, NEW context \in Nat
        PROVE  Suits(Some(1), AtLeast(KeysFrom(first, context, d.kv, d.dim), 1),
                     RowsOf(first + context, d.kv, d.dim) * 2, execute)
    BY <1>2, <2>1, <2>2, KeysSuit
  <2>. QED  BY <1>1, <2>3, <2>4
<1>. HIDE DEF query, keys, rows, least, accs
<1>10. /\ Suits(Some(2), Of(rows, 1), query * 2, execute)
       /\ Suits(Some(4), AtLeast(accs, 1), query * 2 * 2, execute)
  <2>1. query * 2 \in Nat /\ query * 4 \in Nat /\ query * 2 * 2 = query * 4
    BY <1>9
  <2>. DEFINE two == query * 2  four == query * 4
  <2>2. two \in Nat /\ four \in Nat /\ rows = Checked(two) /\ accs = Checked(four)
    BY <1>9, <2>1
  <2>. HIDE DEF two, four
  <2>3. Suits(Some(2), Of(rows, 1), two, execute)
    BY <1>2, <1>8, <2>2, CheckedSuits
  <2>4. Suits(Some(4), AtLeast(accs, 1), four, execute)
    BY <1>2, <1>8, <2>2, LeastSuits
  <2>. QED  BY <2>1, <2>3, <2>4 DEF two, four
<1>. DEFINE twice == OfQueries(d, query * 2 * 2)  once == OfQueries(d, query * 2)
            reach == OfKeys(d, keys)
<1>. HIDE DEF twice, once, reach
<1>11. /\ DOMAIN lengths = 1..most /\ DOMAIN sizes = 1..most
       /\ lengths[1] = Some(2) /\ lengths[2] = Some(1) /\ lengths[3] = Some(1)
       /\ lengths[4] = Some(2) /\ (d.acc => lengths[5] = Some(4))
       /\ sizes[1] = Of(rows, 1) /\ sizes[2] = AtLeast(least, 1)
       /\ sizes[3] = AtLeast(least, 1) /\ sizes[4] = Of(rows, 1)
       /\ (d.acc => sizes[5] = AtLeast(accs, 1))
  BY <1>1
<1>12. /\ execute.touches[1] = once /\ execute.touches[2] = reach
       /\ execute.touches[3] = reach /\ execute.touches[4] = once
       /\ allowed => DOMAIN execute.touches = 1..most
       /\ (allowed /\ d.acc) => execute.touches[5] = twice
  BY <1>1, <1>5 DEF Accumulates, once, twice, reach
<1>13. \A i \in 1..most : \E width \in 1..15 : lengths[i] = Some(width)
  BY <1>8, <1>11
<1>14. ASSUME allowed
       PROVE  \A i \in 1..most : Suits(lengths[i], sizes[i], execute.touches[i], execute)
  <2>1. /\ Suits(Some(2), Of(rows, 1), once, execute)
        /\ Suits(Some(4), AtLeast(accs, 1), twice, execute)
        /\ Suits(Some(1), AtLeast(least, 1), reach, execute)
    BY <1>9, <1>10, IndexedSuits DEF once, twice, reach, OfQueries, OfKeys
  <2>2. \A i \in 1..most : i \in 1..4 \/ (d.acc /\ i = 5)
    OBVIOUS
  <2>. HIDE DEF lengths, sizes
  <2>. QED  BY <1>11, <1>12, <1>14, <2>1, <2>2
<1>15. most \in Nat \ {0}
  OBVIOUS
<1>. HIDE DEF lengths, sizes, allowed, offsets, most
<1>16. AllSuit(When(offsets, lengths), When(allowed, sizes), execute)
  BY <1>2, <1>3, <1>11, <1>12, <1>13, <1>14, <1>15, WhenSuits
<1>. QED  BY <1>6, <1>7, <1>16 DEF execute

(* Rows of heads that both sides count alike, exactly or at least.         *)
LEMMA RowsSuit ==
    ASSUME NEW rows \in Nat, NEW heads \in Nat, NEW columns \in Nat, NEW width \in 1..15,
           NEW execute, Measures(execute)
    PROVE  /\ Suits(Some(width), Of(RowBytes(rows, heads, columns, 2), 1),
                    RowsOf(rows, heads, columns) * 2, execute)
           /\ Suits(Some(width), AtLeast(RowBytes(rows, heads, columns, 2), 1),
                    RowsOf(rows, heads, columns) * 2, execute)
<1>. DEFINE n == RowsOf(rows, heads, columns)  bytes == n * 2
<1>1. n \in Nat /\ RowBytes(rows, heads, columns, 2) = Checked(bytes)
  BY RowBytesIsChecked
<1>. HIDE DEF n
<1>2. bytes \in Nat /\ bytes \in Int /\ bytes <= bytes
  BY <1>1
<1>. HIDE DEF bytes
<1>3. Suits(Some(width), Of(Checked(bytes), 1), bytes, execute)
  BY <1>2, CheckedSuits
<1>4. Suits(Some(width), AtLeast(Checked(bytes), 1), bytes, execute)
  BY <1>2, LeastSuits
<1>. QED  BY <1>1, <1>3, <1>4 DEF bytes, n

(* Attention over sequences of several lengths.                            *)
LEMMA VarlenIsSound ==
    ASSUME NEW d \in VarlenDims
    PROVE  Sound(Varlen(d))
<1>. SUFFICES ASSUME FmhaSpec(d), FmhaCreate(d)
              PROVE  AllSuit(VarlenLengths(d), VarlenSizes(d), VarlenExecute(d))
  BY DEF Sound, Varlen, Kind
<1>. DEFINE execute == VarlenExecute(d)
            query == RowsOf(d.totalq, d.heads, d.dim) * 2
            keys == RowsOf(d.totalc, d.kv, d.dim) * 2
            starts == (d.batch + 1) * 4
            allowed == d.batch > 0 /\ d.totalq >= d.maxq /\ d.totalc >= d.maxc
            lengths == VarlenLengths(d)
            rows == RowBytes(d.totalq, d.heads, d.dim, 2)
            least == RowBytes(d.totalc, d.kv, d.dim, 2)
            begin == Mul(Add(d.batch, 1), 4)
            sizes == <<Of(rows, 1), AtLeast(least, 1), AtLeast(least, 1), Of(rows, 1),
                       AtLeast(begin, 1), AtLeast(begin, 1)>>
            touches == <<OfQueries(d, query), OfKeys(d, keys), OfKeys(d, keys),
                         OfQueries(d, query), starts, starts>>
            dim == d.dim
<1>1. /\ d.heads \in Nat /\ d.kv \in Nat /\ d.dim \in Nat /\ d.totalq \in Nat
      /\ d.totalc \in Nat /\ d.batch \in Nat
  BY DEF VarlenDims, Usize
<1>2. d.vdim = d.dim
  BY DEF FmhaSpec
<1>3. Measures(execute)
  BY DEF Measures, VarlenExecute, LaunchIf, StreamFirst, Range
<1>4. execute.prepared = <<>>
  BY DEF VarlenExecute, LaunchIf
<1>5. execute.touches = touches
  <2>1. d.totalq * d.heads * d.dim * 2 = query /\ d.totalc * d.kv * d.dim * 2 = keys
    BY DEF RowsOf
  <2>. HIDE DEF query, keys
  <2>. QED  BY <2>1 DEF VarlenExecute, LaunchIf
<1>6. VarlenSizes(d) = When(allowed, sizes)
  BY <1>2 DEF VarlenSizes
<1>7. lengths = When(TRUE, lengths)
  BY DEF When
<1>. HIDE DEF execute
<1>8. 1 \in 1..15 /\ 2 \in 1..15 /\ 4 \in 1..15
  OBVIOUS
<1>9. /\ Suits(Some(2), Of(rows, 1), OfQueries(d, query), execute)
      /\ Suits(Some(2), AtLeast(least, 1), OfKeys(d, keys), execute)
  <2>1. /\ Suits(Some(2), Of(rows, 1), query, execute)
        /\ Suits(Some(2), AtLeast(least, 1), keys, execute)
    BY <1>1, <1>3, <1>8, RowsSuit
  <2>. HIDE DEF query, keys, rows, least
  <2>. QED  BY <2>1, IndexedSuits DEF OfQueries, OfKeys
<1>10. Suits(Some(4), AtLeast(begin, 1), starts, execute)
  <2>. DEFINE next == d.batch + 1
  <2>1. next \in Nat /\ Add(d.batch, 1) = Checked(next)
    BY <1>1, WordsAreWide DEF Add, Checked
  <2>. HIDE DEF next
  <2>2. next * 4 \in Nat /\ begin = Checked(next * 4)
    BY <2>1, MulChecks
  <2>. DEFINE n == next * 4
  <2>3. n \in Nat /\ n \in Int /\ n <= n
    BY <2>2
  <2>. HIDE DEF n
  <2>4. Suits(Some(4), AtLeast(Checked(n), 1), n, execute)
    BY <1>3, <1>8, <2>3, LeastSuits
  <2>. QED  BY <2>2, <2>4 DEF n, next
<1>. HIDE DEF query, keys, starts, rows, least, begin
<1>11. \A i \in 1..6 : Suits(lengths[i], sizes[i], execute.touches[i], execute)
  BY <1>5, <1>9, <1>10 DEF VarlenLengths
<1>12. DOMAIN lengths = 1..6 /\ DOMAIN sizes = 1..6 /\ DOMAIN execute.touches = 1..6
  BY <1>5 DEF VarlenLengths
<1>13. \A i \in 1..6 : \E width \in 1..15 : lengths[i] = Some(width)
  BY <1>8 DEF VarlenLengths
<1>. DEFINE most == 6
<1>14. most \in Nat \ {0}
  OBVIOUS
<1>. HIDE DEF lengths, sizes, allowed, most
<1>15. /\ DOMAIN lengths = 1..most /\ DOMAIN sizes = 1..most /\ DOMAIN execute.touches = 1..most
       /\ \A i \in 1..most : Suits(lengths[i], sizes[i], execute.touches[i], execute)
       /\ \A i \in 1..most : \E width \in 1..15 : lengths[i] = Some(width)
  BY <1>11, <1>12, <1>13 DEF most
<1>16. AllSuit(When(TRUE, lengths), When(allowed, sizes), execute)
  BY <1>3, <1>4, <1>14, <1>15, WhenSuits
<1>. QED  BY <1>6, <1>7, <1>16 DEF execute, lengths

(* Saturated counts of four bytes each, of narrow numbers.                 *)
LEMMA SaturatedRowSuits ==
    ASSUME NEW p \in Nat, NEW bytes, NEW width \in 1..15, NEW execute, Measures(execute),
           execute.accepted => p * 4 <= UsizeMax /\ bytes \in Int /\ bytes <= p * 4
    PROVE  Suits(Some(width), AtLeast(Saturated(Mul(p, 4)), 1), bytes, execute)
<1>. DEFINE n == p * 4
<1>1. n \in Nat /\ Mul(p, 4) = Checked(n)
  BY MulIsChecked
<1>2. execute.accepted => n <= UsizeMax /\ bytes \in Int /\ bytes <= n
  OBVIOUS
<1>. HIDE DEF n
<1>. QED  BY <1>1, <1>2, SaturatedSuits

(* A saturated size of F32 values for two numbers.                         *)
LEMMA SaturatedProductSuits ==
    ASSUME NEW p \in Nat, NEW q \in Nat, NEW bytes, NEW width \in 1..15,
           NEW execute, Measures(execute),
           execute.accepted => p \in 0..I32Max /\ q \in 0..I32Max
                               /\ bytes \in Int /\ bytes <= p * q * 4
    PROVE  Suits(Some(width), AtLeast(Saturated(Mul(Mul(p, q), 4)), 1), bytes, execute)
<1>. DEFINE n == p * q * 4
<1>1. 4 \in Nat
  OBVIOUS
<1>2. p * q \in Nat /\ Mul(Mul(p, q), 4) = Checked(n)
  BY <1>1, MulThree
<1>3. n \in Nat
  BY <1>2
<1>4. execute.accepted => n <= UsizeMax /\ bytes \in Int /\ bytes <= n
  <2>1. p \in 0..I32Max /\ q \in 0..I32Max => p * q * 4 <= UsizeMax
    BY WordsAreWide
  <2>. QED  BY <2>1
<1>. HIDE DEF n
<1>. QED  BY <1>2, <1>3, <1>4, SaturatedSuits

(* Rows of queries, some of them or all.                                   *)
LEMMA FewerProducts ==
    ASSUME NEW some \in Nat, NEW all \in Nat, some <= all, NEW heads \in Nat
    PROVE  some * heads \in Nat /\ all * heads \in Nat /\ some * heads <= all * heads
OBVIOUS

(* The same for rows of heads.                                             *)
LEMMA FewerRows ==
    ASSUME NEW some \in Nat, NEW all \in Nat, some <= all, NEW heads \in Nat, NEW columns \in Nat
    PROVE  /\ RowsOf(some, heads, columns) \in Nat
           /\ RowsOf(some, heads, columns) <= RowsOf(all, heads, columns)
<1>. DEFINE less == some * heads  more == all * heads
<1>1. less \in Nat /\ more \in Nat /\ less <= more
  BY FewerProducts
<1>. HIDE DEF less, more
<1>2. less * columns \in Nat /\ less * columns <= more * columns
  BY <1>1, FewerProducts
<1>. QED  BY <1>2 DEF RowsOf, less, more

(* Numbers of a paged call, of which the layer below allows only some.     *)
IsPaged(d) ==
    {d.heads, d.kv, d.dim, d.totalq, d.batch, d.maxc, d.page, d.blocks, d.pages}
        \subseteq Usize

PagedAllowed(d) ==
    /\ Positive({d.batch, d.maxq, d.page, d.blocks, d.pages})
    /\ d.totalq >= d.maxq /\ d.page % 16 = 0
    /\ d.maxc <= Saturated(Mul(d.blocks, d.page))

PagedDemands(d) ==
    LET query  == RowBytes(d.totalq, d.heads, d.dim, 2)
        pages  == Mul(d.pages, PageBytes(d))
        starts == Saturated(Mul((d.batch + 1) % (UsizeMax + 1), 4))
        blocks == Saturated(Mul(Mul(d.batch, d.blocks), 4))
    IN
    <<Of(query, 1), Of(pages, 1), Of(pages, 1), Of(query, 1),
      AtLeast(starts, 1), AtLeast(Saturated(Mul(d.batch, 4)), 1),
      AtLeast(starts, 1), AtLeast(blocks, 1),
      AtLeast(Saturated(Mul(Mul(d.totalq, d.heads), 4)), 1)>>

(* The blocks of pages that a sequence takes are those it may.             *)
LEMMA BlocksSuffice ==
    ASSUME NEW tokens \in Nat, NEW page \in Nat \ {0}, NEW blocks \in Nat,
           tokens <= Saturated(Mul(blocks, page))
    PROVE  DivCeil(tokens, page) \in Int /\ DivCeil(tokens, page) <= blocks
<1>. DEFINE n == blocks * page  more == tokens + page - 1
<1>1. n \in Nat /\ Mul(blocks, page) = Checked(n)
  BY MulIsChecked
<1>2. tokens <= n
  <2>. HIDE DEF n
  <2>. QED  BY <1>1, WordsAreWide DEF Saturated, Checked, Over
<1>3. DivCeil(tokens, page) = more \div page /\ more \in Nat /\ more < page * (blocks + 1)
  <2>1. page * (blocks + 1) = n + page
    OBVIOUS
  <2>. HIDE DEF n
  <2>. QED  BY <1>1, <1>2, <2>1 DEF DivCeil
<1>. HIDE DEF more
<1>4. more \div page \in Nat /\ page * (more \div page) <= more
  BY <1>3
<1>5. ASSUME NEW q \in Nat, page * q < page * (blocks + 1)  PROVE q <= blocks
  <2>1. q >= blocks + 1 => page * q >= page * (blocks + 1)
    OBVIOUS
  <2>. QED  BY <1>5, <2>1
<1>6. page * (more \div page) \in Nat /\ page * (blocks + 1) \in Nat
  BY <1>4
<1>. QED  BY <1>3, <1>4, <1>5, <1>6

(* Every operand that paged attention and its split variant share.         *)
LEMMA PagedSuit ==
    ASSUME NEW d, IsPaged(d), PagedAllowed(d),
           NEW execute, Measures(execute), execute.accepted => PagedNative(d)
    PROVE  \A i \in 1..9 :
              Suits(PagedLengths(d)[i], PagedDemands(d)[i], PagedTouches(d)[i], execute)
<1>. DEFINE inside == QueryRows(d) <= d.totalq
            some == IF inside THEN QueryRows(d) ELSE d.totalq
            each == PageBytes(d)
            next == d.batch + 1
            pages == d.pages * each
            last_ == DivCeil(d.maxc, d.page)
            used == ((d.batch - 1) * d.blocks + last_) * 4
            dim == d.dim
<1>0. d.heads \in Nat /\ d.kv \in Nat /\ dim \in Nat /\ d.totalq \in Nat
      /\ d.page \in Nat /\ d.pages \in Nat
  BY DEF IsPaged, Usize
<1>1. /\ d.heads \in Nat /\ d.kv \in Nat /\ dim \in Nat /\ d.totalq \in Nat
      /\ d.batch \in Nat /\ d.maxc \in Nat /\ d.page \in Nat \ {0}
      /\ d.blocks \in Nat /\ d.pages \in Nat
  BY DEF IsPaged, Usize, PagedAllowed, Positive
<1>2. some \in Nat /\ some <= d.totalq /\ inside \in BOOLEAN
  <2>1. QueryRows(d) \in Nat
    BY <1>1 DEF QueryRows
  <2>. QED  BY <1>1, <2>1
<1>3. ASSUME execute.accepted
      PROVE  /\ d.totalq \in 0..I32Max /\ d.heads \in 0..I32Max
             /\ d.batch \in 0..I32Max /\ d.blocks \in 0..I32Max
  BY <1>1, <1>3 DEF PagedNative, PagedNumbers, Narrow
<1>4. 1 \in 1..15 /\ 2 \in 1..15 /\ 4 \in 1..15
  OBVIOUS
<1>5. Suits(Some(2), Of(RowBytes(d.totalq, d.heads, dim, 2), 1),
            RowsOf(some, d.heads, dim) * 2, execute)
  <2>. DEFINE all == RowsOf(d.totalq, d.heads, dim)  n == all * 2
              bytes == RowsOf(some, d.heads, dim) * 2
  <2>. HIDE DEF some, dim
  <2>1. all \in Nat /\ RowBytes(d.totalq, d.heads, dim, 2) = Checked(n)
    BY <1>0, RowBytesIsChecked
  <2>2. RowsOf(some, d.heads, dim) \in Nat /\ RowsOf(some, d.heads, dim) <= all
    BY <1>1, <1>2, FewerRows
  <2>. HIDE DEF all
  <2>3. n \in Nat /\ bytes \in Int /\ bytes <= n
    BY <2>1, <2>2
  <2>. HIDE DEF n, bytes
  <2>4. Suits(Some(2), Of(Checked(n), 1), bytes, execute)
    BY <1>4, <2>3, CheckedSuits
  <2>. QED  BY <2>1, <2>4 DEF bytes
<1>6. Suits(Some(1), Of(Mul(d.pages, each), 1), pages, execute)
  <2>1. each \in Nat
    <3>. DEFINE n == RowsOf(d.page, d.kv, dim)
    <3>. HIDE DEF dim
    <3>1. n \in Nat /\ RowBytes(d.page, d.kv, dim, 2) = Checked(n * 2)
      BY <1>0, RowBytesIsChecked
    <3>. HIDE DEF n
    <3>2. n * 2 \in Nat
      BY <3>1
    <3>. QED  BY <3>1, <3>2, Fits DEF PageBytes, dim
  <2>. HIDE DEF each
  <2>2. pages \in Nat /\ Mul(d.pages, each) = Checked(pages)
    <3>1. ASSUME NEW p \in Nat, NEW q \in Nat
          PROVE  p * q \in Nat /\ Mul(p, q) = Checked(p * q)
      BY MulIsChecked
    <3>2. d.pages \in Nat
      BY <1>0
    <3>. QED  BY <2>1, <3>1, <3>2
  <2>. HIDE DEF pages
  <2>. QED  BY <1>4, <2>2, CheckedSuits
<1>7. Suits(Some(4), AtLeast(Saturated(Mul(next % (UsizeMax + 1), 4)), 1), next * 4, execute)
  <2>. DEFINE n == next % (UsizeMax + 1)  bytes == next * 4
  <2>1. n \in Nat /\ next \in Nat
    BY <1>1, WordsAreWide
  <2>2. execute.accepted => n = next /\ next * 4 <= UsizeMax
    BY <1>1, <1>3, WordsAreWide
  <2>. HIDE DEF n, next
  <2>3. execute.accepted => n * 4 <= UsizeMax /\ bytes \in Int /\ bytes <= n * 4
    BY <2>1, <2>2
  <2>. HIDE DEF bytes
  <2>4. Suits(Some(4), AtLeast(Saturated(Mul(n, 4)), 1), bytes, execute)
    BY <1>4, <2>1, <2>3, SaturatedRowSuits
  <2>. QED  BY <2>4 DEF n, bytes
<1>8. Suits(Some(4), AtLeast(Saturated(Mul(d.batch, 4)), 1), d.batch * 4, execute)
  <2>. DEFINE bytes == d.batch * 4
  <2>1. execute.accepted => d.batch * 4 <= UsizeMax /\ bytes \in Int /\ bytes <= d.batch * 4
    BY <1>1, <1>3, WordsAreWide
  <2>. HIDE DEF bytes
  <2>2. Suits(Some(4), AtLeast(Saturated(Mul(d.batch, 4)), 1), bytes, execute)
    BY <1>1, <1>4, <2>1, SaturatedRowSuits
  <2>. QED  BY <2>2 DEF bytes
<1>9. Suits(Some(4), AtLeast(Saturated(Mul(Mul(d.batch, d.blocks), 4)), 1), used, execute)
  <2>1. last_ \in Int /\ last_ <= d.blocks
    BY <1>1, BlocksSuffice DEF PagedAllowed
  <2>. HIDE DEF last_
  <2>2. (d.batch - 1) * d.blocks = d.batch * d.blocks - d.blocks /\ d.batch * d.blocks \in Nat
    BY <1>1
  <2>3. used \in Int /\ used <= d.batch * d.blocks * 4
    BY <1>1, <2>1, <2>2
  <2>. HIDE DEF used
  <2>. QED  BY <1>1, <1>3, <1>4, <2>3, SaturatedProductSuits
<1>10. Suits(Some(4), AtLeast(Saturated(Mul(Mul(d.totalq, d.heads), 4)), 1),
             some * d.heads * 4, execute)
  <2>. DEFINE bytes == some * d.heads * 4
  <2>. HIDE DEF some
  <2>1. some * d.heads \in Nat /\ some * d.heads <= d.totalq * d.heads
        /\ d.totalq * d.heads \in Nat
    BY <1>1, <1>2, FewerProducts
  <2>2. bytes \in Int /\ bytes <= d.totalq * d.heads * 4
    BY <2>1
  <2>. HIDE DEF bytes
  <2>3. Suits(Some(4), AtLeast(Saturated(Mul(Mul(d.totalq, d.heads), 4)), 1), bytes, execute)
    BY <1>1, <1>3, <1>4, <2>2, SaturatedProductSuits
  <2>. QED  BY <2>3 DEF bytes
<1>. DEFINE queries == OfQueries(d, RowsOf(some, d.heads, dim) * 2)
            lses == Indexed({LseRows(d)}, some * d.heads * 4)
            reach == OfKeys(d, pages)
<1>11. /\ PagedTouches(d)[1] = Within(inside, queries)
       /\ PagedTouches(d)[2] = reach /\ PagedTouches(d)[3] = reach
       /\ PagedTouches(d)[4] = Within(inside, queries)
       /\ PagedTouches(d)[5] = next * 4 /\ PagedTouches(d)[6] = d.batch * 4
       /\ PagedTouches(d)[7] = next * 4 /\ PagedTouches(d)[8] = used
       /\ PagedTouches(d)[9] = Within(inside, lses)
  <2>1. CASE inside
    BY <2>1 DEF PagedTouches, PerToken, Within, RowsOf
  <2>2. CASE ~inside
    BY <2>2 DEF PagedTouches, PerToken, Within
  <2>. QED  BY <2>1, <2>2
<1>. HIDE DEF some, inside, pages, next, used, dim
<1>12. /\ Suits(Some(2), Of(RowBytes(d.totalq, d.heads, dim, 2), 1), queries, execute)
       /\ Suits(Some(1), Of(Mul(d.pages, each), 1), reach, execute)
       /\ Suits(Some(4), AtLeast(Saturated(Mul(Mul(d.totalq, d.heads), 4)), 1), lses, execute)
  BY <1>5, <1>6, <1>10, IndexedSuits DEF OfQueries, OfKeys
<1>. HIDE DEF queries, lses, reach
<1>13. /\ Suits(Some(2), Of(RowBytes(d.totalq, d.heads, dim, 2), 1),
                Within(inside, queries), execute)
       /\ Suits(Some(4), AtLeast(Saturated(Mul(Mul(d.totalq, d.heads), 4)), 1),
                Within(inside, lses), execute)
  BY <1>2, <1>12, WithinSuits
<1>. QED  BY <1>7, <1>8, <1>9, <1>11, <1>12, <1>13
          DEF PagedLengths, PagedDemands, next, each, dim

(* Paged attention, with or without a window.                              *)
LEMMA PagedIsSound ==
    ASSUME NEW d \in PagedDims
    PROVE  Sound(Paged(d))
<1>. SUFFICES ASSUME FmhaSpec(d), FmhaCreate(d)
              PROVE  AllSuit(PagedLengths(d), PagedSizes(d), PagedExecute(d))
  BY DEF Sound, Paged, Kind
<1>. DEFINE execute == PagedExecute(d)  lengths == PagedLengths(d)  most == 9
            sizes == PagedDemands(d)
<1>1. Measures(execute)
  BY DEF Measures, PagedExecute, LaunchIf, StreamFirst, Range
<1>2. /\ execute.prepared = <<>> /\ execute.touches = PagedTouches(d)
      /\ execute.accepted => PagedNative(d)
  BY DEF PagedExecute, LaunchIf
<1>3. PagedSizes(d) = When(PagedAllowed(d), sizes)
  BY DEF PagedSizes, PagedAllowed, PagedDemands
<1>. HIDE DEF execute
<1>4. lengths = When(TRUE, lengths)
  BY DEF When
<1>5. PagedAllowed(d) =>
        \A i \in 1..most : Suits(lengths[i], sizes[i], execute.touches[i], execute)
  <2>1. IsPaged(d)
    BY DEF PagedDims, IsPaged
  <2>. QED  BY <1>1, <1>2, <2>1, PagedSuit
<1>6. /\ DOMAIN lengths = 1..most /\ DOMAIN sizes = 1..most
      /\ DOMAIN execute.touches = 1..most
  BY <1>2 DEF PagedLengths, PagedDemands, PagedTouches
<1>7. \A i \in 1..most : \E width \in 1..15 : lengths[i] = Some(width)
  <2>1. 1 \in 1..15 /\ 2 \in 1..15 /\ 4 \in 1..15
    OBVIOUS
  <2>. QED  BY <2>1 DEF PagedLengths
<1>8. most \in Nat \ {0}
  OBVIOUS
<1>. HIDE DEF lengths, sizes, most
<1>9. AllSuit(When(TRUE, lengths), When(PagedAllowed(d), sizes), execute)
  BY <1>1, <1>2, <1>5, <1>6, <1>7, <1>8, WhenSuits
<1>. QED  BY <1>3, <1>4, <1>9 DEF execute, lengths

(* Paged attention in parts, with scratch for partial results.             *)
LEMMA SplitIsSound ==
    ASSUME NEW d \in SplitDims
    PROVE  Sound(Split(d))
<1>. SUFFICES ASSUME FmhaSpec(d), FmhaCreate(d)
              PROVE  AllSuit(SplitLengths(d), SplitSizes(d), SplitExecute(d))
  BY DEF Sound, Split, Kind
<1>. DEFINE execute == SplitExecute(d)  lengths == SplitLengths(d)  most == 11
            inside == d.batch * d.maxq <= d.totalq
            some == IF inside THEN d.batch * d.maxq ELSE d.totalq
            parts == d.splits * some * d.heads
            rows == Saturated(Mul(Mul(d.splits, d.totalq), d.heads))
            values == Saturated(Mul(rows, d.dim))
            whole == Saturated(Mul(values, 4))
            sums == Saturated(Mul(rows, 4))
            tail == <<AtLeast(whole, 1), AtLeast(sums, 1)>>
<1>1. Measures(execute)
  BY DEF Measures, SplitExecute, LaunchIf, StreamFirst, Range
<1>2. /\ execute.prepared = <<>>
      /\ execute.touches = PagedTouches(d) \o <<Within(inside, parts * d.dim * 4),
                                                Within(inside, parts * 4)>>
      /\ execute.accepted => PagedNative(d)
  <2>1. CASE inside
    BY <2>1 DEF SplitExecute, LaunchIf
  <2>2. CASE ~inside
    BY <2>2 DEF SplitExecute, LaunchIf, Within
  <2>. QED  BY <2>1, <2>2
<1>3. IsPaged(d)
  BY DEF SplitDims, IsPaged
<1>4. /\ d.splits \in Nat /\ d.totalq \in Nat /\ d.heads \in Nat /\ d.dim \in Nat
      /\ d.splits * d.totalq * d.heads * d.dim * 4 <= UsizeMax
  BY DEF SplitDims, Usize
<1>5. some \in Nat /\ some <= d.totalq /\ inside \in BOOLEAN
  <2>1. d.batch \in Nat /\ d.maxq \in Nat /\ d.totalq \in Nat
    BY DEF SplitDims, Usize
  <2>2. d.batch * d.maxq \in Nat
    BY <2>1
  <2>. QED  BY <2>1, <2>2
<1>6. d.dim >= 64
  BY DEF FmhaSpec
<1>. DEFINE all == d.splits * d.totalq * d.heads
            dim == d.dim
            most4 == all * dim * 4
<1>. HIDE DEF execute, some, inside
<1>7. /\ parts \in Nat /\ all \in Nat /\ parts <= all
      /\ Mul(Mul(d.splits, d.totalq), d.heads) = Checked(all)
  <2>. DEFINE p == d.splits * some  q == d.splits * d.totalq
  <2>1. /\ q \in Nat /\ all \in Nat /\ Mul(Mul(d.splits, d.totalq), d.heads) = Checked(all)
    <3>1. d.splits \in Nat /\ d.totalq \in Nat /\ d.heads \in Nat
      BY <1>4
    <3>2. q \in Nat /\ Mul(Mul(d.splits, d.totalq), d.heads) = Checked(all)
      BY <3>1, MulThree
    <3>. HIDE DEF q
    <3>. QED  BY <3>1, <3>2
  <2>2. p \in Nat /\ p <= q
    <3>1. some * d.splits <= d.totalq * d.splits
      BY <1>4, <1>5, FewerProducts
    <3>. QED  BY <1>4, <1>5, <3>1
  <2>. HIDE DEF p, q
  <2>3. p * d.heads \in Nat /\ p * d.heads <= q * d.heads
    BY <1>4, <2>1, <2>2, FewerProducts
  <2>. QED  BY <2>1, <2>3 DEF p, q
<1>8. most4 <= UsizeMax /\ dim \in Nat /\ dim >= 64
  BY <1>4, <1>6
<1>. HIDE DEF parts, all, dim
<1>9. /\ all <= UsizeMax /\ all * 4 <= UsizeMax /\ all * dim <= UsizeMax
      /\ all * dim \in Nat /\ parts * dim \in Nat /\ parts * dim <= all * dim
  <2>1. all * dim \in Nat /\ parts * dim \in Nat /\ parts * dim <= all * dim
    BY <1>7, <1>8, FewerProducts
  <2>2. all * 64 <= all * dim
    BY <1>7, <1>8
  <2>. DEFINE n == all * dim
  <2>. HIDE DEF n
  <2>3. n * 4 <= UsizeMax /\ n \in Nat /\ all * 64 <= n
    BY <1>8, <2>1, <2>2 DEF n
  <2>4. n <= UsizeMax /\ all <= UsizeMax /\ all * 4 <= UsizeMax
    BY <1>7, <2>3, WordsAreWide
  <2>. QED  BY <2>1, <2>4 DEF n
<1>10. rows = all /\ values = all * dim
  <2>1. rows = all
    BY <1>7, <1>9, Fits DEF Saturated
  <2>. DEFINE n == all * dim
  <2>2. n \in Nat /\ n <= UsizeMax /\ Mul(all, dim) = Checked(n)
    BY <1>7, <1>8, <1>9, MulIsChecked
  <2>. HIDE DEF n
  <2>3. Saturated(Mul(all, dim)) = n
    BY <2>2, Fits DEF Saturated
  <2>. HIDE DEF rows
  <2>. QED  BY <2>1, <2>3 DEF n, dim
<1>. HIDE DEF rows, values
<1>11. /\ Suits(Some(4), AtLeast(whole, 1), Within(inside, parts * dim * 4), execute)
       /\ Suits(Some(4), AtLeast(sums, 1), Within(inside, parts * 4), execute)
  <2>1. 4 \in 1..15
    OBVIOUS
  <2>2. ASSUME NEW n \in Nat, NEW part \in Nat, part <= n, n * 4 <= UsizeMax
        PROVE  Suits(Some(4), AtLeast(Saturated(Mul(n, 4)), 1), part * 4, execute)
    <3>. DEFINE bytes == part * 4
    <3>1. bytes \in Int /\ bytes <= n * 4
      BY <2>2
    <3>. HIDE DEF bytes
    <3>2. Suits(Some(4), AtLeast(Saturated(Mul(n, 4)), 1), bytes, execute)
      BY <1>1, <2>1, <2>2, <3>1, SaturatedRowSuits
    <3>. QED  BY <3>2 DEF bytes
  <2>3. Suits(Some(4), AtLeast(sums, 1), parts * 4, execute)
    BY <1>7, <1>9, <1>10, <2>2
  <2>. DEFINE n == all * dim  part == parts * dim
  <2>. HIDE DEF n, part
  <2>4. n \in Nat /\ part \in Nat /\ part <= n /\ n * 4 <= UsizeMax /\ values = n
    BY <1>8, <1>9, <1>10 DEF n, part
  <2>5. Suits(Some(4), AtLeast(Saturated(Mul(n, 4)), 1), part * 4, execute)
    BY <2>2, <2>4
  <2>. HIDE DEF whole, sums
  <2>6. Suits(Some(4), AtLeast(whole, 1), parts * dim * 4, execute)
    BY <2>4, <2>5 DEF part, whole
  <2>. QED  BY <1>5, <2>3, <2>6, WithinSuits
<1>12. execute.touches = PagedTouches(d) \o <<Within(inside, parts * dim * 4),
                                              Within(inside, parts * 4)>>
  BY <1>2 DEF parts, dim
<1>. HIDE DEF whole, sums
<1>. DEFINE wholeReads == Within(inside, parts * dim * 4)
            sumReads == Within(inside, parts * 4)
<1>. HIDE DEF wholeReads, sumReads
<1>13. /\ DOMAIN lengths = 1..11 /\ DOMAIN SplitSizes(d) = 1..11
       /\ DOMAIN execute.touches = 1..11
       /\ lengths[10] = Some(4) /\ lengths[11] = Some(4)
       /\ execute.touches[10] = wholeReads /\ execute.touches[11] = sumReads
       /\ \A i \in 1..9 : /\ lengths[i] = PagedLengths(d)[i]
                          /\ execute.touches[i] = PagedTouches(d)[i]
  BY <1>12 DEF SplitLengths, SplitSizes, When, PagedLengths, PagedSizes, PagedTouches,
               wholeReads, sumReads
<1>14. 1 \in 1..11 /\ \A i \in 1..11 : i \in 1..9 \/ i = 10 \/ i = 11
  OBVIOUS
<1>15. \A i \in 1..9 : lengths[i] = Some(2) \/ lengths[i] = Some(1) \/ lengths[i] = Some(4)
  BY <1>13 DEF PagedLengths
<1>16. 1 \in 1..15 /\ 2 \in 1..15 /\ 4 \in 1..15
  OBVIOUS
<1>17. DOMAIN execute.prepared = {}
  BY <1>2
<1>. HIDE DEF lengths
<1>18. CASE ~(d.splits >= 2)
  <2>1. \A i \in 1..11 : SplitSizes(d)[i] = Of(Over, 1)
    <3>1. DOMAIN (PagedSizes(d) \o tail) = 1..11
      BY DEF PagedSizes, When
    <3>. QED  BY <1>18, <3>1 DEF SplitSizes, When, whole, sums, rows, values
  <2>2. \A i \in 1..11 : Suits(lengths[i], SplitSizes(d)[i], execute.touches[i], execute)
    BY <1>1, <1>13, <1>14, <1>15, <1>16, <2>1, NothingSuits
  <2>3. Hopeless(SplitSizes(d), execute, 1)
    BY <1>1, <1>14, <1>17, <2>1 DEF Hopeless
  <2>. QED  BY <1>13, <1>14, <1>17, <2>2, <2>3 DEF AllSuit, execute, lengths
<1>19. CASE d.splits >= 2
  <2>1. /\ SplitSizes(d)[10] = AtLeast(whole, 1) /\ SplitSizes(d)[11] = AtLeast(sums, 1)
        /\ \A i \in 1..9 : SplitSizes(d)[i] = PagedSizes(d)[i]
    BY <1>19 DEF SplitSizes, When, PagedSizes, whole, sums, rows, values
  <2>2. PagedSizes(d) = When(PagedAllowed(d), PagedDemands(d))
    BY DEF PagedSizes, PagedAllowed, PagedDemands
  <2>3. /\ Suits(lengths[10], SplitSizes(d)[10], execute.touches[10], execute)
        /\ Suits(lengths[11], SplitSizes(d)[11], execute.touches[11], execute)
    BY <1>11, <1>13, <2>1 DEF wholeReads, sumReads
  <2>4. DOMAIN PagedDemands(d) = 1..9
    BY DEF PagedDemands
  <2>5. CASE PagedAllowed(d)
    <3>1. \A i \in 1..9 : SplitSizes(d)[i] = PagedDemands(d)[i]
      BY <2>1, <2>2, <2>5 DEF When
    <3>2. \A i \in 1..9 :
             Suits(PagedLengths(d)[i], PagedDemands(d)[i], PagedTouches(d)[i], execute)
      BY <1>1, <1>2, <1>3, <2>5, PagedSuit
    <3>3. \A i \in 1..11 : Suits(lengths[i], SplitSizes(d)[i], execute.touches[i], execute)
      BY <1>13, <1>14, <2>3, <3>1, <3>2
    <3>. QED  BY <1>13, <1>17, <3>3 DEF AllSuit, execute, lengths
  <2>6. CASE ~PagedAllowed(d)
    <3>1. \A i \in 1..9 : SplitSizes(d)[i] = Of(Over, 1)
      BY <2>1, <2>2, <2>4, <2>6 DEF When
    <3>2. \A i \in 1..9 : Suits(lengths[i], SplitSizes(d)[i], execute.touches[i], execute)
      BY <1>1, <1>15, <1>16, <3>1, NothingSuits
    <3>3. \A i \in 1..11 : Suits(lengths[i], SplitSizes(d)[i], execute.touches[i], execute)
      BY <1>14, <2>3, <3>2
    <3>4. Hopeless(SplitSizes(d), execute, 1)
      <4>1. 1 \in 1..9
        OBVIOUS
      <4>. QED  BY <1>1, <1>17, <3>1, <4>1 DEF Hopeless
    <3>. QED  BY <1>13, <1>14, <1>17, <3>3, <3>4 DEF AllSuit, execute, lengths
  <2>. QED  BY <2>5, <2>6
<1>. QED  BY <1>18, <1>19

(* Padded attention, for sequences of one length.                          *)
LEMMA PaddedIsSound ==
    ASSUME NEW d \in PaddedDims
    PROVE  Sound(Padded(d))
<1>. SUFFICES ASSUME PaddedCreate(d)
              PROVE  AllSuit(PaddedLengths(d), PaddedSizes(d), PaddedExecute(d))
  BY DEF Sound, Padded, Kind
<1>. DEFINE execute == PaddedExecute(d)  lengths == PaddedLengths(d)  most == 3
            row == Times(Times(d.heads, d.dim), d.in)
            three == Times(3, row)
            n == d.sequences * d.length
            tokens == Mul(d.sequences, d.length)
            hidden == n * d.heads * d.dim * d.in
            allowed == Positive({d.sequences, d.length})
            sizes == <<Of(Mul(tokens, three), 1), Of(d.sequences * 4, 1),
                       Of(Mul(tokens, row), 1)>>
<1>1. /\ d.heads \in Nat /\ d.dim \in {64, 128} /\ d.in \in {2, 4}
      /\ d.sequences \in Nat /\ d.length \in Nat
  BY DEF PaddedDims, Usize, PaddedCreate
<1>2. Measures(execute)
  BY DEF Measures, PaddedExecute, LaunchIf, StreamFirst, Range
<1>3. /\ execute.prepared = <<>>
      /\ execute.touches = <<Indexed({3 * d.heads * d.dim}, 3 * hidden),
                             d.sequences * 4, OfQueries(d, hidden)>>
      /\ execute.accepted => d.heads \in 0..I32Max
  BY <1>1 DEF PaddedExecute, LaunchIf, Narrow
<1>4. PaddedSizes(d) = When(allowed, sizes)
  BY DEF PaddedSizes
<1>5. lengths = When(TRUE, lengths)
  BY DEF When
<1>. HIDE DEF execute
<1>6. n \in Nat /\ tokens = Checked(n)
  <2>1. d.sequences \in Nat /\ d.length \in Nat
    BY <1>1
  <2>2. ASSUME NEW p \in Nat, NEW q \in Nat
        PROVE  p * q \in Nat /\ Mul(p, q) = Checked(p * q)
    BY MulIsChecked
  <2>. QED  BY <2>1, <2>2
<1>7. row \in Nat /\ three \in Nat
  <2>1. \A p, q \in Nat : Times(p, q) \in Nat
    BY WordsAreWide DEF Times
  <2>2. d.heads \in Nat /\ d.dim \in Nat /\ d.in \in Nat /\ 3 \in Nat
    BY <1>1
  <2>3. row \in Nat
    BY <2>1, <2>2
  <2>. HIDE DEF row
  <2>. QED  BY <2>1, <2>2, <2>3
<1>8. ASSUME execute.accepted
      PROVE  row = d.heads * d.dim * d.in /\ three = 3 * row
  <2>. DEFINE kd == d.heads * d.dim  bytes == kd * d.in
  <2>1. kd \in Nat /\ kd <= 128 * I32Max
    BY <1>1, <1>3, <1>8, WordsAreWide
  <2>2. kd <= UsizeMax
    BY <2>1, WordsAreWide
  <2>3. Times(d.heads, d.dim) = kd
    <3>1. d.heads \in Nat /\ d.dim \in Nat /\ d.heads * d.dim <= UsizeMax
      BY <1>1, <2>2
    <3>. QED  BY <3>1, TimesFits
  <2>. HIDE DEF kd
  <2>4. bytes \in Nat /\ bytes <= 512 * I32Max
    BY <1>1, <2>1, WordsAreWide
  <2>5. bytes <= UsizeMax /\ 3 * bytes <= UsizeMax
    BY <2>4, WordsAreWide
  <2>6. Times(kd, d.in) = bytes
    <3>1. d.in \in Nat /\ kd * d.in <= UsizeMax
      BY <1>1, <2>5
    <3>. QED  BY <2>1, <3>1, TimesFits
  <2>. HIDE DEF bytes
  <2>7. Times(3, bytes) = 3 * bytes
    <3>1. 3 \in Nat /\ 3 * bytes <= UsizeMax
      BY <2>5
    <3>. QED  BY <2>4, <3>1, TimesFits
  <2>. QED  BY <2>3, <2>6, <2>7 DEF bytes, kd
<1>9. n * d.heads * d.dim * d.in = n * (d.heads * d.dim * d.in) /\ hidden \in Nat
  <2>1. d.heads \in Nat /\ d.dim \in Nat /\ d.in \in Nat
    BY <1>1
  <2>. HIDE DEF n
  <2>2. ASSUME NEW p \in Nat, NEW q \in Nat, NEW r \in Nat, NEW s \in Nat
        PROVE  p * q * r * s = p * (q * r * s) /\ p * q * r * s \in Nat
    OBVIOUS
  <2>. QED  BY <1>6, <2>1, <2>2
<1>. HIDE DEF n, tokens, row, hidden
<1>10. 1 \in 1..15 /\ 2 \in 1..15 /\ 4 \in 1..15
  OBVIOUS
<1>11. ASSUME NEW each \in Nat, NEW bytes \in Nat, NEW width \in 1..15,
              execute.accepted => bytes <= n * each
       PROVE  Suits(Some(width), Of(Mul(tokens, each), 1), bytes, execute)
  <2>. DEFINE most_ == n * each
  <2>1. most_ \in Nat /\ Mul(tokens, each) = Checked(most_)
    BY <1>6, MulChecks
  <2>. HIDE DEF most_
  <2>2. Checked(most_) \in Nat /\ (Checked(most_) = Over \/ Checked(most_) = most_)
    BY <2>1, Fits
  <2>. QED  BY <1>2, <1>11, <2>1, <2>2, WordsAreWide
            DEF Suits, Some, AtLeast, Of, Demands, Agree, Covers, most_
<1>12. Suits(Some(d.in), Of(Mul(tokens, row), 1), hidden, execute)
  <2>1. execute.accepted => hidden <= n * row
    BY <1>8, <1>9 DEF hidden
  <2>2. d.in \in 1..15
    BY <1>1
  <2>. QED  BY <1>7, <1>9, <1>11, <2>1, <2>2
<1>13. Suits(Some(d.in), Of(Mul(tokens, three), 1), 3 * hidden, execute)
  <2>1. execute.accepted => 3 * hidden <= n * three
    <3>1. ASSUME execute.accepted  PROVE hidden = n * row /\ three = 3 * row
      BY <1>8, <1>9, <3>1 DEF hidden
    <3>2. n * (3 * row) = 3 * (n * row)
      BY <1>6, <1>7
    <3>. QED  BY <1>9, <3>1, <3>2
  <2>. DEFINE bytes == 3 * hidden
  <2>2. d.in \in 1..15 /\ bytes \in Nat
    BY <1>1, <1>9
  <2>. HIDE DEF three, bytes
  <2>3. Suits(Some(d.in), Of(Mul(tokens, three), 1), bytes, execute)
    BY <1>7, <1>11, <2>1, <2>2 DEF bytes
  <2>. QED  BY <2>3 DEF bytes
<1>14. Suits(Some(4), Of(d.sequences * 4, 1), d.sequences * 4, execute)
  BY <1>1, <1>2, WordsAreWide DEF Suits, Some, AtLeast, Of, Demands, Agree, Covers
<1>. HIDE DEF three
<1>15. /\ DOMAIN lengths = 1..most /\ DOMAIN sizes = 1..most
       /\ DOMAIN execute.touches = 1..most
       /\ \A i \in 1..most : \E width \in 1..15 : lengths[i] = Some(width)
  BY <1>1, <1>3, <1>10 DEF PaddedLengths
<1>16. \A i \in 1..most : Suits(lengths[i], sizes[i], execute.touches[i], execute)
  <2>1. /\ Suits(Some(d.in), Of(Mul(tokens, row), 1), OfQueries(d, hidden), execute)
        /\ Suits(Some(d.in), Of(Mul(tokens, three), 1),
                 Indexed({3 * d.heads * d.dim}, 3 * hidden), execute)
    BY <1>12, <1>13, IndexedSuits DEF OfQueries
  <2>. QED  BY <1>3, <1>14, <2>1 DEF PaddedLengths
<1>17. most \in Nat \ {0}
  OBVIOUS
<1>. HIDE DEF lengths, sizes, most, allowed
<1>18. AllSuit(When(TRUE, lengths), When(allowed, sizes), execute)
  BY <1>2, <1>3, <1>15, <1>16, <1>17, WhenSuits
<1>. QED  BY <1>4, <1>5, <1>18 DEF execute, lengths

-----------------------------------------------------------------------------
(* Kernels that the facade launches itself: what it demands is all there   *)
(* is.                                                                     *)
LEMMA TypedSuits ==
    ASSUME NEW n \in Nat, NEW width \in 1..15, NEW bytes \in Int, bytes <= n * width,
           NEW execute, ~Measures(execute)
    PROVE  /\ Suits(Of(Checked(n), width), Some(1), bytes, execute)
           /\ Suits(AtLeast(Checked(n), width), Some(1), bytes, execute)
<1>1. Checked(n) \in Nat /\ (Checked(n) = Over \/ Checked(n) = n)
  BY Fits
<1>. QED  BY <1>1, WordsAreWide DEF Suits, Some, AtLeast, Of, Demands, Covers

(* Those of two numbers, checked or known to fit.                          *)
LEMMA TypedProductSuits ==
    ASSUME NEW p \in Nat, NEW q \in Nat, NEW width \in 1..15,
           NEW bytes \in Int, bytes <= p * q * width, NEW execute, ~Measures(execute)
    PROVE  /\ Suits(Of(Mul(p, q), width), Some(1), bytes, execute)
           /\ Suits(AtLeast(Mul(p, q), width), Some(1), bytes, execute)
           /\ Mul(p, q) # Over =>
                /\ Suits(Of(Times(p, q), width), Some(1), bytes, execute)
                /\ Suits(AtLeast(Times(p, q), width), Some(1), bytes, execute)
<1>. DEFINE n == p * q
<1>1. n \in Nat /\ Mul(p, q) = Checked(n) /\ bytes <= n * width
  BY MulIsChecked
<1>2. Mul(p, q) # Over => Times(p, q) = Mul(p, q)
  <2>1. Mul(p, q) # Over => Mul(p, q) = p * q /\ p * q <= UsizeMax
    BY MulFits
  <2>. QED  BY <2>1, TimesFits
<1>. HIDE DEF n
<1>3. /\ Suits(Of(Checked(n), width), Some(1), bytes, execute)
      /\ Suits(AtLeast(Checked(n), width), Some(1), bytes, execute)
  BY <1>1, TypedSuits
<1>. QED  BY <1>1, <1>2, <1>3

(* Those of three numbers.                                                 *)
LEMMA TypedCubeSuits ==
    ASSUME NEW p \in Nat, NEW q \in Nat, NEW r \in Nat, NEW width \in 1..15,
           NEW bytes \in Int, bytes <= p * q * r * width, NEW execute, ~Measures(execute)
    PROVE  Suits(Of(Mul(Mul(p, q), r), width), Some(1), bytes, execute)
<1>. DEFINE n == p * q * r
<1>1. p * q \in Nat /\ Mul(Mul(p, q), r) = Checked(n)
  BY MulThree
<1>2. n \in Nat /\ bytes <= n * width
  BY <1>1
<1>. HIDE DEF n
<1>. QED  BY <1>1, <1>2, TypedSuits

(* Operands whose facade's demands suit.                                   *)
LEMMA TypedAllSuit ==
    ASSUME NEW lengths, NEW execute, NEW most \in Nat, DOMAIN lengths = 1..most,
           DOMAIN execute.touches = 1..most, execute.prepared = <<>>,
           \A i \in 1..most : Suits(lengths[i], Some(1), execute.touches[i], execute)
    PROVE  AllSuit(lengths, Unchecked(most), execute)
BY DEF AllSuit, Unchecked

(* The product of packed MXFP8 weights.                                    *)
LEMMA MatmulIsSound ==
    ASSUME NEW d \in MatmulDims
    PROVE  Sound(Matmul(d))
<1>. SUFFICES ASSUME MatmulSpec(d)
              PROVE  AllSuit(MatmulLengths(d), MatmulSizes(d), MatmulExecute(d))
  BY DEF Sound, Matmul, Kind
<1>. DEFINE execute == MatmulExecute(d)  lengths == MatmulLengths(d)  most == 4
            words == d.columns \div 4  scales == d.columns \div 32
            tokens == Min({d.tokens, 4 * TokenBlocks(d)})
            input == tokens * d.columns * 2  output == tokens * d.rows * 2
            weights == d.rows * words * 4  factors == d.rows * scales
<1>1. /\ d.tokens \in Nat /\ d.rows \in Nat /\ d.columns \in Nat
      /\ words \in Nat /\ scales \in Nat
  BY DEF MatmulDims, Usize
<1>2. Mul(d.tokens, d.columns) # Over /\ Mul(d.tokens, d.rows) # Over
  BY DEF MatmulSpec, Fit
<1>3. tokens \in Nat /\ tokens <= d.tokens
  <2>1. 4 * TokenBlocks(d) \in Nat
    BY <1>1 DEF TokenBlocks, DivCeil
  <2>2. \A a, b \in Nat : Min({a, b}) \in Nat /\ Min({a, b}) <= a
    <3>1. \A a, b \in Nat : \E x \in {a, b} : \A y \in {a, b} : x <= y
      OBVIOUS
    <3>2. \A a, b \in Nat : /\ Min({a, b}) \in {a, b}
                            /\ \A y \in {a, b} : Min({a, b}) <= y
      BY <3>1 DEF Min
    <3>. QED  BY <3>2
  <2>. QED  BY <1>1, <2>1, <2>2
<1>4. ~Measures(execute) /\ execute.prepared = <<>>
  BY DEF Measures, MatmulExecute, Typed, LaunchIf, TypedFirst, Range
<1>5. execute.touches = <<input, weights, factors, output>>
  BY DEF MatmulExecute, Typed, LaunchIf
<1>. HIDE DEF execute, tokens, words, scales
<1>6. ASSUME NEW n \in Nat
      PROVE  /\ tokens * n * 2 \in Int /\ tokens * n * 2 <= d.tokens * n * 2
             /\ d.rows * n \in Nat
  <2>1. tokens * n \in Nat /\ d.tokens * n \in Nat /\ tokens * n <= d.tokens * n
    BY <1>1, <1>3, FewerProducts
  <2>. QED  BY <1>1, <2>1
<1>7. 1 \in 1..15 /\ 2 \in 1..15 /\ 4 \in 1..15
  OBVIOUS
<1>8. /\ input \in Int /\ input <= d.tokens * d.columns * 2
      /\ output \in Int /\ output <= d.tokens * d.rows * 2
      /\ weights \in Int /\ weights <= d.rows * words * 4
      /\ factors \in Int /\ factors <= d.rows * scales * 1
  BY <1>1, <1>6
<1>. HIDE DEF input, output, weights, factors
<1>9. Suits(AtLeast(Times(d.tokens, d.columns), 2), Some(1), input, execute)
  BY <1>1, <1>2, <1>4, <1>7, <1>8, TypedProductSuits
<1>10. Suits(AtLeast(Times(d.tokens, d.rows), 2), Some(1), output, execute)
  BY <1>1, <1>2, <1>4, <1>7, <1>8, TypedProductSuits
<1>11. Suits(Of(Mul(d.rows, words), 4), Some(1), weights, execute)
  BY <1>1, <1>4, <1>7, <1>8, TypedProductSuits
<1>12. Suits(Of(Mul(d.rows, scales), 1), Some(1), factors, execute)
  BY <1>1, <1>4, <1>7, <1>8, TypedProductSuits
<1>13. /\ DOMAIN lengths = 1..most /\ DOMAIN execute.touches = 1..most
       /\ \A i \in 1..most : Suits(lengths[i], Some(1), execute.touches[i], execute)
  BY <1>5, <1>9, <1>10, <1>11, <1>12
     DEF MatmulLengths, WeightWords, ScaleElements, words, scales
<1>14. most \in Nat
  OBVIOUS
<1>. HIDE DEF lengths, most
<1>15. AllSuit(lengths, Unchecked(most), execute)
  BY <1>4, <1>13, <1>14, TypedAllSuit
<1>. QED  BY <1>15 DEF MatmulSizes, execute, lengths, most

(* The product with selected matrices.                                     *)
LEMMA GatheredIsSound ==
    ASSUME NEW d \in GatheredDims
    PROVE  Sound(Gathered(d))
<1>. SUFFICES ASSUME GatheredSpec(d)
              PROVE  AllSuit(GatheredLengths(d), GatheredSizes(d), GatheredExecute(d))
  BY DEF Sound, Gathered, Kind
<1>. DEFINE execute == GatheredExecute(d)  lengths == GatheredLengths(d)
            most == IF d.bias THEN 6 ELSE 5
            words == d.columns \div 4  scales == d.columns \div 32
            taken == Assignments(d)
            bank == d.matrices * d.rows
            least == Mul(d.matrices, d.rows)
            used == (taken - 1) \div d.each + 1
            input == used * d.columns * 2
            weights == bank * words * 4
            factors == bank * scales
            selected == taken * 4
            output == taken * d.rows * 2
            biases == bank * 2
            touches == <<input, weights, factors, selected, output>>
                       \o (IF d.bias THEN <<biases>> ELSE <<>>)
<1>1. /\ d.inputs \in Nat /\ d.each \in Nat /\ d.matrices \in Nat /\ d.rows \in Nat
      /\ d.columns \in Nat /\ words \in Nat /\ scales \in Nat
  BY DEF GatheredDims, Usize
<1>2. d.inputs # 0 /\ d.each # 0 /\ taken # Over /\ d.bias \in BOOLEAN
  BY DEF GatheredSpec, Positive, Fit, GatheredDims
<1>3. taken = d.inputs * d.each /\ taken \in Nat /\ taken <= UsizeMax
  BY <1>1, <1>2, MulFits DEF Assignments
<1>4. used = d.inputs
  <2>1. ASSUME NEW p \in Nat \ {0}, NEW q \in Nat \ {0}
        PROVE  (p * q - 1) \div q = p - 1
    <3>1. p * q - 1 = q * (p - 1) + (q - 1) /\ p - 1 \in Nat /\ q - 1 \in 0..(q - 1)
      OBVIOUS
    <3>2. \A x \in Nat, r \in 0..(q - 1) : (q * x + r) \div q = x
      OBVIOUS
    <3>. QED  BY <3>1, <3>2
  <2>2. d.inputs \in Nat \ {0} /\ d.each \in Nat \ {0}
    BY <1>1, <1>2
  <2>3. (d.inputs * d.each - 1) \div d.each = d.inputs - 1
    BY <2>1, <2>2
  <2>. HIDE DEF taken
  <2>4. (taken - 1) \div d.each = d.inputs - 1
    BY <1>3, <2>3
  <2>. QED  BY <2>2, <2>4
<1>5. ~Measures(execute) /\ execute.prepared = <<>>
  BY DEF Measures, GatheredExecute, Typed, LaunchIf, TypedFirst, Range
<1>6. execute.touches = touches
  BY DEF GatheredExecute, Typed, LaunchIf
<1>7. lengths = <<Of(Mul(d.inputs, d.columns), 2), Of(Mul(least, words), 4),
                  Of(Mul(least, scales), 1), Of(taken, 4), Of(Mul(taken, d.rows), 2)>>
                \o (IF d.bias THEN <<Of(least, 2)>> ELSE <<>>)
  BY DEF GatheredLengths
<1>. HIDE DEF execute, lengths, words, scales, taken, used, least
<1>8. 1 \in 1..15 /\ 2 \in 1..15 /\ 4 \in 1..15
  OBVIOUS
<1>9. /\ bank \in Nat
      /\ input \in Int /\ input <= d.inputs * d.columns * 2
      /\ output \in Int /\ output <= taken * d.rows * 2
      /\ selected \in Int /\ selected <= taken * 4
      /\ biases \in Int /\ biases <= d.matrices * d.rows * 2
  BY <1>1, <1>3, <1>4
<1>10. /\ weights \in Int /\ weights <= d.matrices * d.rows * words * 4
       /\ factors \in Int /\ factors <= d.matrices * d.rows * scales * 1
  BY <1>1, <1>9
<1>. HIDE DEF bank, input, weights, factors, selected, output, biases
<1>11. Suits(Of(Mul(d.inputs, d.columns), 2), Some(1), input, execute)
  BY <1>1, <1>5, <1>8, <1>9, TypedProductSuits
<1>12. Suits(Of(Mul(least, words), 4), Some(1), weights, execute)
  BY <1>1, <1>5, <1>8, <1>10, TypedCubeSuits DEF least
<1>13. Suits(Of(Mul(least, scales), 1), Some(1), factors, execute)
  BY <1>1, <1>5, <1>8, <1>10, TypedCubeSuits DEF least
<1>14. Suits(Of(taken, 4), Some(1), selected, execute)
  <2>1. Suits(Of(Checked(taken), 4), Some(1), selected, execute)
    BY <1>3, <1>5, <1>8, <1>9, TypedSuits
  <2>. QED  BY <1>3, <2>1 DEF Checked
<1>15. Suits(Of(Mul(taken, d.rows), 2), Some(1), output, execute)
  BY <1>1, <1>3, <1>5, <1>8, <1>9, TypedProductSuits
<1>16. Suits(Of(least, 2), Some(1), biases, execute)
  BY <1>1, <1>5, <1>8, <1>9, TypedProductSuits DEF least
<1>17. /\ DOMAIN lengths = 1..most /\ DOMAIN execute.touches = 1..most
       /\ \A i \in 1..most : Suits(lengths[i], Some(1), execute.touches[i], execute)
  <2>1. CASE d.bias
    BY <1>6, <1>7, <1>11, <1>12, <1>13, <1>14, <1>15, <1>16, <2>1
  <2>2. CASE ~d.bias
    BY <1>6, <1>7, <1>11, <1>12, <1>13, <1>14, <1>15, <2>2
  <2>. QED  BY <2>1, <2>2
<1>18. most \in Nat
  OBVIOUS
<1>. HIDE DEF most
<1>19. AllSuit(lengths, Unchecked(most), execute)
  BY <1>5, <1>17, <1>18, TypedAllSuit
<1>. QED  BY <1>19 DEF GatheredSizes, execute, lengths, most

(* The lookup of embeddings in a part of the vocabulary.                   *)
LEMMA EmbeddingIsSound ==
    ASSUME NEW d \in EmbeddingDims
    PROVE  Sound(Embedding(d))
<1>. SUFFICES ASSUME EmbeddingSpec(d)
              PROVE  AllSuit(EmbeddingLengths(d), EmbeddingSizes(d), EmbeddingExecute(d))
  BY DEF Sound, Embedding, Kind
<1>. DEFINE execute == EmbeddingExecute(d)  lengths == EmbeddingLengths(d)  most == 4
            words == d.hidden \div 4  scales == d.hidden \div 32
            until == d.start + d.tokens
            weights == d.vocab * words * 4  factors == d.vocab * scales
            selected == until * 4  output == d.tokens * d.hidden * 2
<1>1. /\ d.vocab \in Nat /\ d.hidden \in Nat /\ d.start \in Nat /\ d.tokens \in Nat
      /\ words \in Nat /\ scales \in Nat
  BY DEF EmbeddingDims, Usize
<1>2. until \in Nat /\ Add(d.start, d.tokens) = Checked(until)
  BY <1>1, WordsAreWide DEF Add, Checked
<1>3. ~Measures(execute) /\ execute.prepared = <<>>
  BY DEF Measures, EmbeddingExecute, Typed, LaunchIf, TypedFirst, Range
<1>4. execute.touches = <<weights, factors, selected, output>>
  BY DEF EmbeddingExecute, Typed, LaunchIf
<1>. HIDE DEF execute, words, scales, until
<1>5. 1 \in 1..15 /\ 2 \in 1..15 /\ 4 \in 1..15
  OBVIOUS
<1>6. /\ weights \in Int /\ weights <= d.vocab * words * 4
      /\ factors \in Int /\ factors <= d.vocab * scales * 1
      /\ selected \in Int /\ selected <= until * 4
      /\ output \in Int /\ output <= d.tokens * d.hidden * 2
  BY <1>1, <1>2
<1>. HIDE DEF weights, factors, selected, output
<1>7. Suits(Of(Mul(d.vocab, words), 4), Some(1), weights, execute)
  BY <1>1, <1>3, <1>5, <1>6, TypedProductSuits
<1>8. Suits(Of(Mul(d.vocab, scales), 1), Some(1), factors, execute)
  BY <1>1, <1>3, <1>5, <1>6, TypedProductSuits
<1>9. Suits(AtLeast(Checked(until), 4), Some(1), selected, execute)
  BY <1>2, <1>3, <1>5, <1>6, TypedSuits
<1>10. Suits(AtLeast(Mul(d.tokens, d.hidden), 2), Some(1), output, execute)
  BY <1>1, <1>3, <1>5, <1>6, TypedProductSuits
<1>11. /\ DOMAIN lengths = 1..most /\ DOMAIN execute.touches = 1..most
       /\ \A i \in 1..most : Suits(lengths[i], Some(1), execute.touches[i], execute)
  BY <1>2, <1>4, <1>7, <1>8, <1>9, <1>10 DEF EmbeddingLengths, words, scales
<1>12. most \in Nat
  OBVIOUS
<1>. HIDE DEF lengths, most
<1>13. AllSuit(lengths, Unchecked(most), execute)
  BY <1>3, <1>11, <1>12, TypedAllSuit
<1>. QED  BY <1>13 DEF EmbeddingSizes, execute, lengths, most

(* Factors of blocks of 32 values, laid out for a projection.              *)
LEMMA LaidOutSuits ==
    ASSUME NEW rows \in Nat \ {0}, NEW columns \in Nat \ {0}, columns % 128 = 0,
           columns <= UsizeMax, NEW execute, ~Measures(execute)
    PROVE  Suits(Of(MxScales(rows, columns), 1), Some(1), MxExtent(rows, columns), execute)
<1>. DEFINE n == MxExtent(rows, columns)
<1>1. n \in Nat /\ MxScales(rows, columns) = Checked(n)
  BY MxScalesCount
<1>. HIDE DEF n
<1>2. n \in Int /\ n <= n * 1 /\ 1 \in 1..15
  BY <1>1
<1>3. Suits(Of(Checked(n), 1), Some(1), n, execute)
  BY <1>1, <1>2, TypedSuits
<1>. QED  BY <1>1, <1>3 DEF n

(* Quantization to MXFP8, whose factors are padded to whole tiles.         *)
LEMMA QuantizeIsSound ==
    ASSUME NEW d \in Mxfp8Dims
    PROVE  Sound(Quantize(d))
<1>. SUFFICES ASSUME Mxfp8Spec(d)
              PROVE  AllSuit(QuantizeLengths(d), Unchecked(3), QuantizeExecute(d))
  BY DEF Sound, Quantize, Kind
<1>. DEFINE execute == QuantizeExecute(d)  lengths == QuantizeLengths(d)  most == 3
            values == d.m * d.k * 2  bytes == d.m * d.k
<1>1. /\ d.m \in Nat \ {0} /\ d.k \in Nat \ {0} /\ d.k % 128 = 0 /\ d.k <= UsizeMax
  BY WordsAreWide DEF Mxfp8Dims, Usize, Mxfp8Spec, Positive, Even
<1>2. d.m \in Nat /\ d.k \in Nat /\ Mul(d.m, d.k) # Over
  BY DEF Mxfp8Dims, Usize, Mxfp8Spec, Fit
<1>3. ~Measures(execute) /\ execute.prepared = <<>>
  BY DEF Measures, QuantizeExecute, Typed, LaunchIf, TypedFirst, Range
<1>4. execute.touches = <<values, bytes, MxExtent(d.m, d.k)>>
  BY DEF QuantizeExecute, Typed, LaunchIf
<1>. HIDE DEF execute
<1>5. 1 \in 1..15 /\ 2 \in 1..15
  OBVIOUS
<1>6. values \in Int /\ values <= d.m * d.k * 2 /\ bytes \in Int /\ bytes <= d.m * d.k * 1
  BY <1>2
<1>. HIDE DEF values, bytes
<1>7. Suits(Of(Times(d.m, d.k), 2), Some(1), values, execute)
  BY <1>2, <1>3, <1>5, <1>6, TypedProductSuits
<1>8. Suits(Of(Times(d.m, d.k), 1), Some(1), bytes, execute)
  BY <1>2, <1>3, <1>5, <1>6, TypedProductSuits
<1>9. Suits(Of(MxScales(d.m, d.k), 1), Some(1), MxExtent(d.m, d.k), execute)
  BY <1>1, <1>3, LaidOutSuits
<1>10. /\ DOMAIN lengths = 1..most /\ DOMAIN execute.touches = 1..most
       /\ \A i \in 1..most : Suits(lengths[i], Some(1), execute.touches[i], execute)
  BY <1>4, <1>7, <1>8, <1>9 DEF QuantizeLengths
<1>11. most \in Nat
  OBVIOUS
<1>. HIDE DEF lengths, most
<1>12. AllSuit(lengths, Unchecked(most), execute)
  BY <1>3, <1>10, <1>11, TypedAllSuit
<1>. QED  BY <1>12 DEF execute, lengths, most

(* The new order of such factors.                                          *)
LEMMA SwizzleIsSound ==
    ASSUME NEW d \in Mxfp8Dims
    PROVE  Sound(Swizzle(d))
<1>. SUFFICES ASSUME Mxfp8Spec(d)
              PROVE  AllSuit(SwizzleLengths(d), Unchecked(2), SwizzleExecute(d))
  BY DEF Sound, Swizzle, Kind
<1>. DEFINE execute == SwizzleExecute(d)  lengths == SwizzleLengths(d)  most == 2
            scales == d.k \div 32  bytes == d.m * scales
<1>1. /\ d.m \in Nat \ {0} /\ d.k \in Nat \ {0} /\ d.k % 128 = 0 /\ d.k <= UsizeMax
  BY WordsAreWide DEF Mxfp8Dims, Usize, Mxfp8Spec, Positive, Even
<1>2. d.m \in Nat /\ d.k \in Nat /\ Mul(d.m, d.k) # Over /\ scales \in Nat /\ scales <= d.k
  BY DEF Mxfp8Dims, Usize, Mxfp8Spec, Fit
<1>3. ~Measures(execute) /\ execute.prepared = <<>>
  BY DEF Measures, SwizzleExecute, Typed, LaunchIf, TypedFirst, Range
<1>4. execute.touches = <<bytes, MxExtent(d.m, d.k)>>
  BY DEF SwizzleExecute, Typed, LaunchIf
<1>. HIDE DEF execute, scales
<1>5. Mul(d.m, scales) # Over
  <2>1. d.m * d.k \in Nat /\ d.m * d.k <= UsizeMax
    BY <1>2, MulFits
  <2>. DEFINE n == d.m * scales
  <2>2. n \in Nat /\ n <= d.m * d.k
    <3>1. \A p, q, r \in Nat : p <= q => r * p \in Nat /\ r * p <= r * q
      OBVIOUS
    <3>. QED  BY <1>2, <3>1
  <2>3. n <= UsizeMax
    <3>. HIDE DEF n
    <3>. QED  BY <2>1, <2>2, WordsAreWide
  <2>4. Mul(d.m, scales) = Checked(n)
    BY <1>2, MulIsChecked
  <2>. HIDE DEF n
  <2>5. Checked(n) # Over
    BY <2>2, <2>3, Fits
  <2>. QED  BY <2>4, <2>5
<1>6. bytes \in Int /\ bytes <= d.m * scales * 1 /\ 1 \in 1..15
  BY <1>2
<1>. HIDE DEF bytes
<1>7. Suits(Of(Times(d.m, scales), 1), Some(1), bytes, execute)
  BY <1>2, <1>3, <1>5, <1>6, TypedProductSuits
<1>8. Suits(Of(MxScales(d.m, d.k), 1), Some(1), MxExtent(d.m, d.k), execute)
  BY <1>1, <1>3, LaidOutSuits
<1>9. /\ DOMAIN lengths = 1..most /\ DOMAIN execute.touches = 1..most
      /\ \A i \in 1..most : Suits(lengths[i], Some(1), execute.touches[i], execute)
  BY <1>4, <1>7, <1>8 DEF SwizzleLengths, scales
<1>10. most \in Nat
  OBVIOUS
<1>. HIDE DEF lengths, most
<1>11. AllSuit(lengths, Unchecked(most), execute)
  BY <1>3, <1>9, <1>10, TypedAllSuit
<1>. QED  BY <1>11 DEF execute, lengths, most

-----------------------------------------------------------------------------
(* Marlin.                                                                 *)

(* Sizes that only the layer below demands.                                *)
LEMMA PlainSuits ==
    ASSUME NEW n \in Nat, NEW bytes \in Int, bytes <= n, NEW width \in 1..15,
           NEW execute, Measures(execute)
    PROVE  Suits(Some(width), Of(n, 1), bytes, execute)
BY WordsAreWide DEF Suits, Some, AtLeast, Of, Demands, Agree, Covers

(* A bank of experts' matrices is of whole tiles.                          *)
LEMMA BankIsTiled ==
    ASSUME NEW d, d.experts \in Usize, d.n \in Usize, d.k \in Usize,
           NEW tile \in {16, 32, 64, 128}, Geometry(d, tile)
    PROVE  \E a, b, u \in Nat : /\ d.n = 64 * a /\ d.k = 16 * b /\ u = d.experts * a * b
                                /\ Bank(d) = 1024 * u /\ Bank(d) # Over
                                /\ 1024 * u <= UsizeMax
<1>. DEFINE e == d.experts  n == d.n  k == d.k
            a == n \div 64  b == k \div 16  u == e * a * b  whole == e * n * k
<1>1. e \in Nat /\ n \in Nat /\ k \in Nat
  BY DEF Usize
<1>2. n % 64 = 0 /\ Bank(d) = Mul(Mul(e, n), k) /\ Bank(d) # Over
  BY DEF Geometry, Even, Fit, Bank
<1>3. k % 16 = 0
  <2>1. k % tile = 0
    BY DEF Geometry, Even
  <2>. HIDE DEF k
  <2>. QED  BY <1>1, <2>1
<1>. HIDE DEF e, n, k
<1>4. a \in Nat /\ b \in Nat /\ n = 64 * a /\ k = 16 * b
  BY <1>1, <1>2, <1>3
<1>5. Mul(Mul(e, n), k) = Checked(whole) /\ whole \in Nat
  <2>1. e * n \in Nat /\ Mul(Mul(e, n), k) = Checked(whole)
    BY <1>1, MulThree
  <2>. QED  BY <1>1, <2>1
<1>. HIDE DEF a, b
<1>6. u \in Nat /\ whole = 1024 * u
  <2>1. e * a \in Nat /\ e * n = 64 * (e * a)
    BY <1>1, <1>4
  <2>. DEFINE ea == e * a
  <2>. HIDE DEF ea
  <2>2. ea * b \in Nat /\ (64 * ea) * (16 * b) = 1024 * (ea * b)
    BY <1>4, <2>1 DEF ea
  <2>. QED  BY <1>4, <2>1, <2>2 DEF ea
<1>. HIDE DEF whole
<1>7. Mul(Mul(e, n), k) = whole /\ whole <= UsizeMax
  BY <1>2, <1>5, Fits
<1>8. /\ n = 64 * a /\ k = 16 * b /\ u = e * a * b /\ Bank(d) = 1024 * u
      /\ 1024 * u <= UsizeMax
  BY <1>2, <1>4, <1>6, <1>7
<1>. HIDE DEF u
<1>. QED  BY <1>2, <1>4, <1>6, <1>8 DEF e, n, k

(* What both repacking calls know of their bank.                           *)
LEMMA RepackBank ==
    ASSUME NEW d \in RepackDims, RepackSpec(d)
    PROVE  \E a, b, u \in Nat : /\ d.n = 64 * a /\ d.k = 16 * b /\ u = d.experts * a * b
                                /\ Bank(d) = 1024 * u /\ Bank(d) # Over
                                /\ 1024 * u <= UsizeMax
<1>1. d.experts \in Usize /\ d.n \in Usize /\ d.k \in Usize
  BY DEF RepackDims
<1>2. 16 \in {16, 32, 64, 128} /\ Geometry(d, 16)
  BY DEF RepackSpec
<1>. QED  BY <1>1, <1>2, BankIsTiled

(* NVFP4 weights in Marlin's layout, from one bank or two.                 *)
LEMMA RepackIsSound ==
    ASSUME NEW d \in RepackDims
    PROVE  Sound(Repack(d))
<1>. SUFFICES ASSUME RepackSpec(d)
              PROVE  AllSuit(RepackLengths(d), RepackSizes(d), RepackExecute(d))
  BY DEF Sound, Repack, Kind
<1>. DEFINE execute == RepackExecute(d)  lengths == RepackLengths(d)
            all == Fraction(Bank(d), 2)  part == Fraction(all, Sources(d))
            each == d.experts * (d.n \div Sources(d)) * (d.k \div 2)
            output == (d.experts * ((d.n * d.k) \div 8)) * 4
            most == IF d.pair THEN 3 ELSE 2
<1>1. d.experts \in Nat /\ d.n \in Nat /\ d.k \in Nat /\ d.pair \in BOOLEAN
  BY DEF RepackDims, Usize
<1>2. PICK a, b, u \in Nat : /\ d.n = 64 * a /\ d.k = 16 * b /\ u = d.experts * a * b
                             /\ Bank(d) = 1024 * u /\ Bank(d) # Over
                             /\ 1024 * u <= UsizeMax
  BY RepackBank
<1>3. Sources(d) \in {1, 2} /\ (Sources(d) = 2 <=> d.pair)
  BY <1>1 DEF Sources
<1>4. all = 512 * u /\ all # Over
  <2>1. (1024 * u) \div 2 = 512 * u
    OBVIOUS
  <2>2. 512 * u <= UsizeMax
    BY <1>2, WordsAreWide
  <2>. QED  BY <1>2, <2>1, <2>2, WordsAreWide DEF Fraction, Over
<1>5. part \in Nat /\ (d.pair => part = 256 * u) /\ (~d.pair => part = 512 * u)
  <2>1. (512 * u) \div 2 = 256 * u /\ (512 * u) \div 1 = 512 * u
    OBVIOUS
  <2>. HIDE DEF all
  <2>2. CASE d.pair
    BY <1>2, <1>3, <1>4, <2>1, <2>2 DEF Fraction
  <2>3. CASE ~d.pair
    BY <1>2, <1>3, <1>4, <2>1, <2>3 DEF Fraction
  <2>. QED  BY <1>1, <2>2, <2>3
<1>6. each = part
  <2>1. d.k \div 2 = 8 * b /\ d.n \div 1 = 64 * a /\ d.n \div 2 = 32 * a
    BY <1>2
  <2>. DEFINE ea == d.experts * a
  <2>2. ea \in Nat /\ d.experts * (64 * a) = 64 * ea /\ d.experts * (32 * a) = 32 * ea
    BY <1>1, <1>2
  <2>. HIDE DEF ea
  <2>3. (64 * ea) * (8 * b) = 512 * (ea * b) /\ (32 * ea) * (8 * b) = 256 * (ea * b)
    BY <1>2, <2>2
  <2>4. u = ea * b
    BY <1>2 DEF ea
  <2>5. CASE d.pair
    <3>1. each = (32 * ea) * (8 * b)
      BY <1>3, <2>1, <2>2, <2>5
    <3>. QED  BY <1>5, <2>3, <2>4, <2>5, <3>1
  <2>6. CASE ~d.pair
    <3>1. each = (64 * ea) * (8 * b)
      BY <1>3, <2>1, <2>2, <2>6
    <3>. QED  BY <1>5, <2>3, <2>4, <2>6, <3>1
  <2>. QED  BY <1>1, <2>5, <2>6
<1>7. output = 512 * u
  <2>1. d.n * d.k = 1024 * (a * b) /\ a * b \in Nat
    BY <1>2
  <2>2. (d.n * d.k) \div 8 = 128 * (a * b)
    BY <2>1
  <2>3. d.experts * (128 * (a * b)) = 128 * u
    BY <1>1, <1>2
  <2>. QED  BY <1>2, <2>2, <2>3
<1>8. Measures(execute) /\ DOMAIN execute.prepared = {}
  BY DEF Measures, RepackExecute, Launch, LaunchIf, MarlinFirst, Range
<1>9. execute.touches = <<OfBank(d, each), OfBank(d, output)>>
                        \o (IF d.pair THEN <<OfBank(d, each)>> ELSE <<>>)
  BY DEF RepackExecute, Launch, LaunchIf, Second
<1>10. /\ lengths = <<Some(1), Some(1)>> \o (IF d.pair THEN <<Some(1)>> ELSE <<>>)
       /\ RepackSizes(d) = <<Of(part, 1), Of(all, 1)>>
                           \o (IF d.pair THEN <<Of(part, 1)>> ELSE <<>>)
  BY DEF RepackLengths, RepackSizes, Second
<1>. HIDE DEF execute, lengths, each, output, part, all
<1>11. /\ Suits(Some(1), Of(part, 1), OfBank(d, each), execute)
       /\ Suits(Some(1), Of(all, 1), OfBank(d, output), execute)
  <2>1. 1 \in 1..15 /\ all \in Nat /\ output \in Nat /\ each \in Nat
        /\ output <= all /\ each <= part
    BY <1>2, <1>4, <1>5, <1>6, <1>7
  <2>2. /\ Suits(Some(1), Of(part, 1), each, execute)
        /\ Suits(Some(1), Of(all, 1), output, execute)
    BY <1>5, <1>8, <2>1, PlainSuits
  <2>. QED  BY <2>2, IndexedSuits DEF OfBank
<1>12. /\ DOMAIN lengths = 1..most /\ DOMAIN execute.touches = 1..most
       /\ \A i \in 1..most : Suits(lengths[i], RepackSizes(d)[i], execute.touches[i], execute)
  <2>1. CASE d.pair
    BY <1>9, <1>10, <1>11, <2>1
  <2>2. CASE ~d.pair
    BY <1>9, <1>10, <1>11, <2>2
  <2>. QED  BY <1>1, <2>1, <2>2
<1>. QED  BY <1>8, <1>12 DEF AllSuit, execute, lengths

(* Their scale factors.                                                    *)
LEMMA FactorsIsSound ==
    ASSUME NEW d \in RepackDims
    PROVE  Sound(Factors(d))
<1>. SUFFICES ASSUME RepackSpec(d)
              PROVE  AllSuit(FactorsLengths(d), FactorsSizes(d), FactorsExecute(d))
  BY DEF Sound, Factors, Kind
<1>. DEFINE execute == FactorsExecute(d)  lengths == FactorsLengths(d)
            all == Fraction(Bank(d), 16)  part == Fraction(all, Sources(d))
            each == d.experts * (d.n \div Sources(d)) * (d.k \div 16)
            output == d.experts * d.n * (d.k \div 16)
            globals == d.experts * 4
            most == IF d.pair THEN 6 ELSE 5
<1>1. d.experts \in Nat /\ d.n \in Nat /\ d.k \in Nat /\ d.pair \in BOOLEAN
  BY DEF RepackDims, Usize
<1>2. PICK a, b, u \in Nat : /\ d.n = 64 * a /\ d.k = 16 * b /\ u = d.experts * a * b
                             /\ Bank(d) = 1024 * u /\ Bank(d) # Over
                             /\ 1024 * u <= UsizeMax
  BY RepackBank
<1>3. Sources(d) \in {1, 2} /\ (Sources(d) = 2 <=> d.pair)
  BY <1>1 DEF Sources
<1>4. all = 64 * u /\ all # Over
  <2>1. (1024 * u) \div 16 = 64 * u
    OBVIOUS
  <2>2. 64 * u <= UsizeMax
    BY <1>2, WordsAreWide
  <2>. QED  BY <1>2, <2>1, <2>2, WordsAreWide DEF Fraction, Over
<1>5. part \in Nat /\ (d.pair => part = 32 * u) /\ (~d.pair => part = 64 * u)
  <2>1. (64 * u) \div 2 = 32 * u /\ (64 * u) \div 1 = 64 * u
    OBVIOUS
  <2>. HIDE DEF all
  <2>2. CASE d.pair
    BY <1>2, <1>3, <1>4, <2>1, <2>2 DEF Fraction
  <2>3. CASE ~d.pair
    BY <1>2, <1>3, <1>4, <2>1, <2>3 DEF Fraction
  <2>. QED  BY <1>1, <2>2, <2>3
<1>6. each = part /\ output = 64 * u
  <2>1. d.k \div 16 = b /\ d.n \div 1 = 64 * a /\ d.n \div 2 = 32 * a
    BY <1>2
  <2>. DEFINE ea == d.experts * a
  <2>2. ea \in Nat /\ d.experts * (64 * a) = 64 * ea /\ d.experts * (32 * a) = 32 * ea
    BY <1>1, <1>2
  <2>. HIDE DEF ea
  <2>3. (64 * ea) * b = 64 * (ea * b) /\ (32 * ea) * b = 32 * (ea * b)
    BY <1>2, <2>2
  <2>4. u = ea * b
    BY <1>2 DEF ea
  <2>5. output = (64 * ea) * b
    BY <1>2, <2>1, <2>2
  <2>6. CASE d.pair
    <3>1. each = (32 * ea) * b
      BY <1>3, <2>1, <2>2, <2>6
    <3>. QED  BY <1>5, <2>3, <2>4, <2>5, <2>6, <3>1
  <2>7. CASE ~d.pair
    <3>1. each = (64 * ea) * b
      BY <1>3, <2>1, <2>2, <2>7
    <3>. QED  BY <1>5, <2>3, <2>4, <2>5, <2>7, <3>1
  <2>. QED  BY <1>1, <2>6, <2>7
<1>7. Measures(execute) /\ DOMAIN execute.prepared = {}
  BY DEF Measures, FactorsExecute, Launch, LaunchIf, MarlinFirst, Range
<1>8. execute.touches = <<OfBank(d, each), globals, OfBank(d, output), globals, 4>>
                        \o (IF d.pair THEN <<OfBank(d, each)>> ELSE <<>>)
  BY DEF FactorsExecute, Launch, LaunchIf, Second
<1>9. /\ lengths = <<Some(1), Some(4), Some(1), Some(4), Of(1, 4)>>
                   \o (IF d.pair THEN <<Some(1)>> ELSE <<>>)
      /\ FactorsSizes(d) =
           <<Of(part, 1), Of(globals, 1), Of(all, 1), Of(globals, 1), Of(4, 1)>>
           \o (IF d.pair THEN <<Of(part, 1)>> ELSE <<>>)
  BY DEF FactorsLengths, FactorsSizes, Second
<1>10. globals \in Nat
  BY <1>1
<1>. HIDE DEF execute, lengths, each, output, part, all, globals
<1>11. /\ Suits(Some(1), Of(part, 1), OfBank(d, each), execute)
       /\ Suits(Some(1), Of(all, 1), OfBank(d, output), execute)
       /\ Suits(Some(4), Of(globals, 1), globals, execute)
  <2>1. 1 \in 1..15 /\ 4 \in 1..15 /\ all \in Nat /\ output \in Nat /\ each \in Nat
        /\ output <= all /\ each <= part /\ globals <= globals
    BY <1>2, <1>4, <1>5, <1>6, <1>10
  <2>2. /\ Suits(Some(1), Of(part, 1), each, execute)
        /\ Suits(Some(1), Of(all, 1), output, execute)
        /\ Suits(Some(4), Of(globals, 1), globals, execute)
    BY <1>5, <1>7, <1>10, <2>1, PlainSuits
  <2>. QED  BY <2>2, IndexedSuits DEF OfBank
<1>12. Suits(Of(1, 4), Of(4, 1), 4, execute)
  BY <1>7, WordsAreWide DEF Suits, Of, Demands, Agree, Covers, Some, AtLeast
<1>13. /\ DOMAIN lengths = 1..most /\ DOMAIN execute.touches = 1..most
       /\ \A i \in 1..most : Suits(lengths[i], FactorsSizes(d)[i], execute.touches[i], execute)
  <2>1. CASE d.pair
    BY <1>8, <1>9, <1>11, <1>12, <2>1
  <2>2. CASE ~d.pair
    BY <1>8, <1>9, <1>11, <1>12, <2>2
  <2>. QED  BY <1>1, <2>1, <2>2
<1>. QED  BY <1>7, <1>13 DEF AllSuit, execute, lengths

(* The rows of the source that the kernels reach are all there.            *)
LEMMA SourceRowsSuffice ==
    ASSUME NEW d \in MxRepackDims, MxRepackSpec(d)
    PROVE  SourceRows(d) \in Nat /\ SourceRows(d) <= d.ln
<1>. DEFINE rows == {SourceRow(d, row) : row \in 0..(d.n - 1)}
            S == {r \in rows : r < d.ln} \cup {0}
            bound == d.ln - 1
<1>1. d.n \in Nat /\ d.ln \in Nat \ {0} /\ bound \in Int
  BY DEF MxRepackDims, Usize, MxRepackSpec, Positive
<1>2. rows \subseteq Int
  <2>1. ASSUME NEW row \in 0..(d.n - 1)  PROVE SourceRow(d, row) \in Int
    BY <1>1 DEF SourceRow
  <2>. QED  BY <2>1
<1>. HIDE DEF rows
<1>3. S \in SUBSET Int /\ S # {} /\ 0 \in S /\ \A x \in S : x <= bound
  <2>1. \A x \in S : x \in Int
    BY <1>2
  <2>2. ASSUME NEW x \in S  PROVE x <= bound
    <3>1. x = 0 \/ x < d.ln
      OBVIOUS
    <3>. QED  BY <1>1, <2>1, <3>1
  <2>. QED  BY <2>1, <2>2
<1>. HIDE DEF S, bound
<1>4. Max(S) \in S /\ (\A x \in S : x <= Max(S)) /\ Max(S) <= bound
  BY <1>1, <1>3, MaxOfBounded
<1>5. SourceRows(d) = 1 + Max(S)
  BY DEF SourceRows, S, rows
<1>6. Max(S) \in Int /\ 0 <= Max(S) /\ Max(S) <= bound
  BY <1>3, <1>4
<1>. QED  BY <1>1, <1>5, <1>6 DEF bound

(* A logical bank of whole blocks of 32 fits where the padded one does.    *)
LEMMA LogicalBankFits ==
    ASSUME NEW d \in MxRepackDims, MxRepackSpec(d)
    PROVE  \E c \in Nat : /\ d.lk = 32 * c /\ d.experts * d.ln * c \in Nat
                          /\ LogicalBank(d) = 32 * (d.experts * d.ln * c)
                          /\ LogicalBank(d) # Over
<1>. DEFINE e == d.experts  l == d.ln  c == d.lk \div 32
            whole == e * l * d.lk  bank == e * d.n * d.k
<1>1. /\ e \in Nat /\ d.n \in Nat /\ d.k \in Nat /\ l \in Nat /\ d.lk \in Nat
      /\ l <= d.n /\ d.lk <= d.k
  BY DEF MxRepackDims, Usize, MxRepackSpec
<1>2. c \in Nat /\ d.lk = 32 * c
  BY <1>1 DEF MxRepackSpec, Even
<1>3. Mul(Mul(e, d.n), d.k) # Over
  BY DEF MxRepackSpec, Geometry, Fit
<1>. HIDE DEF e, l, c
<1>4. bank \in Nat /\ bank <= UsizeMax
  <2>1. e * d.n \in Nat /\ Mul(Mul(e, d.n), d.k) = Checked(bank)
    BY <1>1, MulThree
  <2>2. bank \in Nat
    BY <1>1, <2>1
  <2>. HIDE DEF bank
  <2>. QED  BY <1>3, <2>1, <2>2, Fits
<1>5. whole \in Nat /\ whole <= bank
  <2>1. l * e \in Nat /\ l * e <= d.n * e /\ d.n * e \in Nat
    BY <1>1
  <2>. DEFINE p == e * l  q == e * d.n
  <2>2. p \in Nat /\ q \in Nat /\ p <= q
    BY <1>1, <2>1
  <2>. HIDE DEF p, q
  <2>3. p * d.lk \in Nat /\ p * d.lk <= q * d.lk
    BY <1>1, <2>2, FewerProducts
  <2>4. d.lk * q <= d.k * q
    BY <1>1, <2>2
  <2>5. q * d.lk = d.lk * q /\ q * d.k = d.k * q /\ q * d.lk \in Nat /\ q * d.k \in Nat
    BY <1>1, <2>2
  <2>6. p * d.lk <= q * d.k
    BY <2>3, <2>4, <2>5
  <2>. QED  BY <2>3, <2>6 DEF p, q
<1>6. LogicalBank(d) = Checked(whole)
  <2>1. LogicalBank(d) = Mul(Mul(e, l), d.lk)
    BY DEF LogicalBank, e, l
  <2>2. e \in Nat /\ l \in Nat /\ d.lk \in Nat
    BY <1>1
  <2>. HIDE DEF e, l
  <2>3. Mul(Mul(e, l), d.lk) = Checked(e * l * d.lk)
    BY <2>2, MulThree
  <2>. QED  BY <2>1, <2>3 DEF whole
<1>7. whole = 32 * (e * l * c) /\ e * l * c \in Nat
  <2>1. e * l \in Nat
    BY <1>1
  <2>. DEFINE p == e * l
  <2>. HIDE DEF p
  <2>2. p \in Nat /\ p * (32 * c) = 32 * (p * c) /\ p * c \in Nat
    BY <1>2, <2>1 DEF p
  <2>. QED  BY <1>2, <2>2 DEF p
<1>. HIDE DEF whole, bank
<1>8. whole <= UsizeMax
  BY <1>4, <1>5, WordsAreWide
<1>9. LogicalBank(d) = whole /\ LogicalBank(d) # Over
  BY <1>5, <1>6, <1>8, Fits
<1>. QED  BY <1>2, <1>7, <1>9 DEF e, l, c

(* Both calls for MXFP4, which differ in the bytes of a block of 32: d.lk  *)
(* and d.k by half or by a thirty-second.                                  *)
LEMMA MxSourceSuits ==
    ASSUME NEW d \in MxRepackDims, MxRepackSpec(d), NEW share \in {2, 32},
           NEW execute, Measures(execute)
    PROVE  Suits(Some(1), Of(Fraction(LogicalBank(d), share), 1),
                 MxSource(d, d.lk \div share), execute)
<1>. DEFINE l == d.ln  rows == SourceRows(d)  each == d.lk \div share
            n == Fraction(LogicalBank(d), share)
            bytes == ((d.experts - 1) * l + rows) * each
<1>1. d.experts \in Nat /\ d.experts >= 1 /\ l \in Nat
  BY DEF MxRepackDims, Usize, MxRepackSpec, Geometry, Positive
<1>2. PICK c \in Nat : /\ d.lk = 32 * c /\ d.experts * l * c \in Nat
                       /\ LogicalBank(d) = 32 * (d.experts * l * c)
                       /\ LogicalBank(d) # Over
  BY LogicalBankFits
<1>. DEFINE el == d.experts * l  factor == IF share = 2 THEN 16 ELSE 1
<1>3. el \in Nat /\ factor \in Nat
  BY <1>1
<1>4. each = factor * c
  BY <1>2
<1>5. n = factor * (el * c) /\ el * c \in Nat
  <2>. DEFINE u == el * c
  <2>1. u \in Nat /\ LogicalBank(d) = 32 * u
    BY <1>2
  <2>. HIDE DEF u
  <2>2. (32 * u) \div 2 = 16 * u /\ (32 * u) \div 32 = u
    BY <2>1
  <2>3. n = factor * u
    BY <1>2, <2>1, <2>2 DEF Fraction
  <2>. QED  BY <2>1, <2>3 DEF u
<1>6. rows \in Nat /\ rows <= l
  BY SourceRowsSuffice
<1>. HIDE DEF rows, each, factor
<1>7. MxSource(d, each) = OfBank(d, bytes)
  BY DEF MxSource, rows
<1>8. (d.experts - 1) * l + rows \in Nat /\ (d.experts - 1) * l + rows <= el
  <2>1. (d.experts - 1) * l = el - l /\ l <= el
    BY <1>1
  <2>. HIDE DEF el
  <2>. QED  BY <1>1, <1>3, <1>6, <2>1
<1>. DEFINE some == (d.experts - 1) * l + rows
<1>. HIDE DEF some, el, n, bytes
<1>9. each \in Nat /\ el * each = n
  <2>1. el * (factor * c) = factor * (el * c) /\ factor * c \in Nat
    BY <1>2, <1>3
  <2>. QED  BY <1>4, <1>5, <2>1
<1>10. some * each \in Nat /\ some * each <= el * each
  BY <1>3, <1>8, <1>9, FewerProducts DEF some
<1>11. bytes \in Nat /\ bytes <= n /\ n \in Nat /\ 1 \in 1..15
  BY <1>3, <1>5, <1>9, <1>10 DEF some, bytes
<1>12. Suits(Some(1), Of(n, 1), OfBank(d, bytes), execute)
  <2>1. Suits(Some(1), Of(n, 1), bytes, execute)
    BY <1>11, PlainSuits
  <2>. QED  BY <2>1, IndexedSuits DEF OfBank
<1>. QED  BY <1>7, <1>12 DEF n, each

(* MXFP4 weights and scale factors from a smaller bank: no row beyond it   *)
(* is read.                                                                *)
LEMMA MxRepackIsSound ==
    ASSUME NEW d \in MxRepackDims
    PROVE  Sound(MxRepack(d)) /\ Sound(MxFactors(d))
<1>. SUFFICES ASSUME MxRepackSpec(d)
              PROVE  /\ AllSuit(MxRepackLengths(d), MxRepackSizes(d), MxRepackExecute(d))
                     /\ AllSuit(MxRepackLengths(d), MxFactorsSizes(d), MxFactorsExecute(d))
  BY DEF Sound, MxRepack, MxFactors, Kind
<1>1. PICK a, b, u \in Nat : /\ d.n = 64 * a /\ d.k = 16 * b /\ u = d.experts * a * b
                             /\ Bank(d) = 1024 * u /\ Bank(d) # Over
                             /\ 1024 * u <= UsizeMax
  <2>1. d.experts \in Usize /\ d.n \in Usize /\ d.k \in Usize
    BY DEF MxRepackDims
  <2>2. 32 \in {16, 32, 64, 128} /\ Geometry(d, 32)
    BY DEF MxRepackSpec
  <2>. QED  BY <2>1, <2>2, BankIsTiled
<1>2. d.experts \in Nat /\ d.n \in Nat /\ d.k \in Nat /\ d.k % 32 = 0
  BY DEF MxRepackDims, Usize, MxRepackSpec, Geometry, Even
<1>. DEFINE words == (d.experts * ((d.n * d.k) \div 8)) * 4
            scales == d.experts * d.n * (d.k \div 32)
            half == Fraction(Bank(d), 2)  part == Fraction(Bank(d), 32)
<1>3. half = 512 * u /\ part = 32 * u
  <2>1. (1024 * u) \div 2 = 512 * u /\ (1024 * u) \div 32 = 32 * u
    OBVIOUS
  <2>. QED  BY <1>1, <2>1 DEF Fraction
<1>4. words = 512 * u
  <2>1. d.n * d.k = 1024 * (a * b) /\ a * b \in Nat
    BY <1>1
  <2>2. (d.n * d.k) \div 8 = 128 * (a * b)
    BY <2>1
  <2>3. d.experts * (128 * (a * b)) = 128 * u
    BY <1>1, <1>2
  <2>. QED  BY <1>1, <2>2, <2>3
<1>5. scales = 32 * u
  <2>. DEFINE c == d.k \div 32  ea == d.experts * a
  <2>1. c \in Nat /\ b = 2 * c
    BY <1>1, <1>2
  <2>2. d.experts * d.n = 64 * ea /\ ea \in Nat
    BY <1>1, <1>2
  <2>3. u = ea * b
    BY <1>1
  <2>. HIDE DEF ea, c
  <2>4. (64 * ea) * c = 32 * (ea * (2 * c))
    BY <2>1, <2>2
  <2>. QED  BY <2>1, <2>2, <2>3, <2>4 DEF c
<1>. HIDE DEF words, scales, half, part
<1>6. 1 \in 1..15 /\ 2 \in {2, 32} /\ 32 \in {2, 32}
  OBVIOUS
<1>7. ASSUME NEW execute, Measures(execute)
      PROVE  /\ Suits(Some(1), Of(half, 1), OfBank(d, words), execute)
             /\ Suits(Some(1), Of(part, 1), OfBank(d, scales), execute)
  <2>1. /\ words \in Nat /\ half \in Nat /\ words <= half
        /\ scales \in Nat /\ part \in Nat /\ scales <= part
    BY <1>1, <1>3, <1>4, <1>5
  <2>2. /\ Suits(Some(1), Of(half, 1), words, execute)
        /\ Suits(Some(1), Of(part, 1), scales, execute)
    BY <1>6, <1>7, <2>1, PlainSuits
  <2>. QED  BY <2>2, IndexedSuits DEF OfBank
<1>8. AllSuit(MxRepackLengths(d), MxRepackSizes(d), MxRepackExecute(d))
  <2>. DEFINE execute == MxRepackExecute(d)
  <2>1. Measures(execute) /\ DOMAIN execute.prepared = {}
        /\ execute.touches = <<MxSource(d, d.lk \div 2), OfBank(d, words)>>
    BY DEF Measures, MxRepackExecute, Launch, LaunchIf, MarlinFirst, Range, words
  <2>. HIDE DEF execute
  <2>2. Suits(Some(1), Of(Fraction(LogicalBank(d), 2), 1), MxSource(d, d.lk \div 2), execute)
    BY <1>6, <2>1, MxSourceSuits
  <2>3. Suits(Some(1), Of(half, 1), OfBank(d, words), execute)
    BY <1>7, <2>1
  <2>. QED  BY <2>1, <2>2, <2>3 DEF AllSuit, MxRepackLengths, MxRepackSizes, execute, half
<1>9. AllSuit(MxRepackLengths(d), MxFactorsSizes(d), MxFactorsExecute(d))
  <2>. DEFINE execute == MxFactorsExecute(d)
  <2>1. Measures(execute) /\ DOMAIN execute.prepared = {}
        /\ execute.touches = <<MxSource(d, d.lk \div 32), OfBank(d, scales)>>
    BY DEF Measures, MxFactorsExecute, Launch, LaunchIf, MarlinFirst, Range, scales
  <2>. HIDE DEF execute
  <2>2. Suits(Some(1), Of(Fraction(LogicalBank(d), 32), 1), MxSource(d, d.lk \div 32), execute)
    BY <1>6, <2>1, MxSourceSuits
  <2>3. Suits(Some(1), Of(part, 1), OfBank(d, scales), execute)
    BY <1>7, <2>1
  <2>. QED  BY <2>1, <2>2, <2>3 DEF AllSuit, MxRepackLengths, MxFactorsSizes, execute, part
<1>. QED  BY <1>8, <1>9

(* What a product may use of the routes fits in what their preparation was *)
(* given.                                                                  *)
LEMMA BlocksAreEnough ==
    ASSUME NEW rows \in Nat, NEW experts \in Nat, NEW block \in Nat \ {0}
    PROVE  /\ experts * (block - 1) \in Nat
           /\ DivCeil(rows + experts * (block - 1), block) \in Nat
           /\ DivCeil(rows + experts * (block - 1), block) <= rows + experts * (block - 1)
           /\ (IF rows <= experts THEN rows ELSE experts + (rows - experts) \div block)
                \in Nat
           /\ (IF rows <= experts THEN rows ELSE experts + (rows - experts) \div block)
                <= DivCeil(rows + experts * (block - 1), block)
<1>. DEFINE padded == rows + experts * (block - 1)  ceil == DivCeil(padded, block)
<1>1. experts * (block - 1) = experts * block - experts /\ experts * block \in Nat
      /\ experts * (block - 1) \in Nat
  OBVIOUS
<1>2. padded \in Nat
  BY <1>1
<1>3. ASSUME NEW p \in Nat
      PROVE  /\ DivCeil(p, block) \in Nat /\ DivCeil(p, block) <= p
             /\ \A q \in Nat : q * block <= p => q <= DivCeil(p, block)
  <2>. DEFINE c == (p + block - 1) \div block
  <2>1. c \in Nat /\ block * c <= p + block - 1 /\ p + block - 1 < block * c + block
    OBVIOUS
  <2>. HIDE DEF c
  <2>2. c <= p
    <3>1. c > p => block * c >= block * (p + 1) /\ block * (p + 1) = block * p + block
                   /\ block * p >= p
      BY <2>1
    <3>. QED  BY <2>1, <3>1
  <2>3. ASSUME NEW q \in Nat, q * block <= p  PROVE q <= c
    <3>1. q > c => block * q >= block * (c + 1) /\ block * (c + 1) = block * c + block
      BY <2>1
    <3>2. block * q = q * block
      OBVIOUS
    <3>. QED  BY <2>1, <2>3, <3>1, <3>2
  <2>4. DivCeil(p, block) = c
    BY DEF DivCeil, c
  <2>. QED  BY <2>1, <2>2, <2>3, <2>4
<1>4. CASE rows <= experts
  <2>1. rows * block <= padded
    <3>1. rows * (block - 1) <= experts * (block - 1)
      BY <1>4
    <3>2. rows * block = rows + rows * (block - 1) /\ rows * block \in Nat
      OBVIOUS
    <3>. QED  BY <1>1, <3>1, <3>2
  <2>. HIDE DEF padded
  <2>2. rows <= DivCeil(padded, block)
    BY <1>2, <1>3, <2>1
  <2>. QED  BY <1>1, <1>2, <1>3, <1>4, <2>2 DEF padded
<1>5. CASE rows > experts
  <2>. DEFINE more == (rows - experts) \div block
  <2>1. more \in Nat /\ block * more <= rows - experts
    BY <1>5
  <2>. HIDE DEF more
  <2>2. (experts + more) * block <= padded
    <3>1. (experts + more) * block = experts * block + block * more
      BY <2>1
    <3>. QED  BY <1>1, <1>2, <2>1, <3>1
  <2>. HIDE DEF padded
  <2>3. experts + more \in Nat /\ experts + more <= DivCeil(padded, block)
    BY <1>2, <1>3, <2>1, <2>2
  <2>. QED  BY <1>1, <1>2, <1>3, <1>5, <2>3 DEF padded, more
<1>. QED  BY <1>4, <1>5

(* The sizes of a preparation: they do not wrap if the routed rows are     *)
(* narrow, and the most blocks that rows can fill are no more than those   *)
(* prepared.                                                               *)
LEMMA RoutesCount ==
    ASSUME NEW d \in RoutesDims, MoeSpec(d)
    PROVE  /\ RoutedRows(d) \in Nat /\ PaddedCapacity(d) \in Nat
           /\ DivCeil(PaddedCapacity(d), d.block) \in Nat
           /\ RoutedRows(d) <= I32Max =>
                /\ PaddedCapacity(d) = RoutedRows(d) + d.experts * (d.block - 1)
                /\ PaddedCapacity(d) * 4 <= UsizeMax
                /\ DivCeil(PaddedCapacity(d), d.block) <= PaddedCapacity(d)
                /\ MostBlocks(d) \in Nat
                /\ MostBlocks(d) <= DivCeil(PaddedCapacity(d), d.block)
<1>. DEFINE e == d.experts  b == d.block  r == RoutedRows(d)  padded == r + e * (b - 1)
            c == PaddedCapacity(d)
<1>1. e \in Nat /\ e <= I32Max /\ b \in 1..64
  BY DEF RoutesDims, Usize, MoeSpec, Geometry, Narrow
<1>2. r \in Nat
  <2>1. d.tokens \in Nat /\ d.topk \in Nat
    BY DEF RoutesDims, Usize
  <2>2. r # Over /\ r = Mul(d.tokens, d.topk)
    BY DEF MoeSpec, Fit, RoutedRows
  <2>. HIDE DEF r
  <2>3. d.tokens * d.topk \in Nat /\ Mul(d.tokens, d.topk) = d.tokens * d.topk
    <3>1. ASSUME NEW p \in Nat, NEW q \in Nat, Mul(p, q) # Over
          PROVE  p * q \in Nat /\ Mul(p, q) = p * q
      BY <3>1, MulFits
    <3>. QED  BY <2>1, <2>2, <3>1
  <2>. QED  BY <2>2, <2>3
<1>3. c = Add(r, Mul(e, b - 1))
  BY DEF PaddedCapacity
<1>4. MostBlocks(d) = IF r <= e THEN r ELSE e + (r - e) \div b
  BY DEF MostBlocks
<1>. HIDE DEF e, b, r, c
<1>5. e * (b - 1) \in Nat /\ padded \in Nat
  BY <1>1, <1>2
<1>6. c = Checked(padded)
  <2>. DEFINE less == b - 1  unused == e * less
  <2>1. less \in Nat
    BY <1>1
  <2>2. unused \in Nat /\ Mul(e, less) = Checked(unused)
    <3>. HIDE DEF less
    <3>. QED  BY <1>1, <2>1, MulIsChecked
  <2>. HIDE DEF unused
  <2>3. Add(r, Checked(unused)) = Checked(r + unused)
    BY <1>2, <2>2, AddChecks
  <2>. QED  BY <1>3, <2>2, <2>3 DEF unused
<1>7. c \in Nat /\ DivCeil(c, b) \in Nat
  <2>1. c \in Nat
    BY <1>5, <1>6, Fits
  <2>. QED  BY <1>1, <2>1 DEF DivCeil
<1>8. ASSUME r <= I32Max
      PROVE  c = padded /\ padded * 4 <= UsizeMax
  <2>1. e * (b - 1) <= 63 * I32Max
    <3>1. e * (b - 1) <= e * 63
      BY <1>1
    <3>. QED  BY <1>1, <3>1, WordsAreWide
  <2>2. padded * 4 <= UsizeMax /\ padded <= UsizeMax
    BY <1>2, <1>5, <1>8, <2>1, WordsAreWide
  <2>. HIDE DEF padded
  <2>. QED  BY <1>5, <1>6, <2>2, Fits
<1>9. /\ DivCeil(padded, b) <= padded /\ MostBlocks(d) \in Nat
      /\ MostBlocks(d) <= DivCeil(padded, b)
  <2>. DEFINE most == IF r <= e THEN r ELSE e + (r - e) \div b
  <2>1. b \in Nat \ {0}
    BY <1>1
  <2>2. e \in Nat
    BY <1>1
  <2>3. DivCeil(padded, b) <= padded /\ most \in Nat /\ most <= DivCeil(padded, b)
    BY <1>2, <2>1, <2>2, BlocksAreEnough, Zenon
  <2>. QED  BY <1>4, <2>3, Zenon
<1>10. r <= I32Max => /\ c = padded /\ c * 4 <= UsizeMax /\ DivCeil(c, b) <= c
                      /\ MostBlocks(d) \in Nat /\ MostBlocks(d) <= DivCeil(c, b)
  <2>. HIDE DEF padded
  <2>. QED  BY <1>8, <1>9
<1>. QED  BY <1>2, <1>7, <1>10 DEF e, b, r, c

(* Sizes that wrap, but not for the numbers of an accepted call.           *)
LEMMA AcceptedRowSuits ==
    ASSUME NEW p \in Nat, NEW width \in 1..4, NEW facadeWidth \in 1..15, NEW bytes,
           NEW execute, Measures(execute),
           execute.accepted => p * 4 <= UsizeMax /\ bytes \in Int /\ bytes <= p * width
    PROVE  Suits(Some(facadeWidth), Of(Times(p, width), 1), bytes, execute)
<1>. DEFINE n == p * width
<1>1. n \in Nat /\ n <= p * 4
  OBVIOUS
<1>2. Times(p, width) \in Nat
  BY <1>1, WordsAreWide DEF Times
<1>3. execute.accepted => Times(p, width) = n /\ bytes \in Int /\ bytes <= n
  <2>1. p * width <= UsizeMax => Times(p, width) = p * width
    BY TimesFits
  <2>. QED  BY <1>1, <2>1, WordsAreWide
<1>. HIDE DEF n
<1>. QED  BY <1>2, <1>3, WordsAreWide DEF Suits, Some, AtLeast, Of, Demands, Agree, Covers

(* The preparation of routes: its sizes wrap, but it is refused unless the *)
(* number of routed rows is narrow.                                        *)
LEMMA RoutesIsSound ==
    ASSUME NEW d \in RoutesDims
    PROVE  Sound(Routes(d))
<1>. SUFFICES ASSUME MoeSpec(d)
              PROVE  AllSuit(RoutesLengths(d), RoutesSizes(d), RoutesExecute(d))
  BY DEF Sound, Routes, Kind
<1>. DEFINE execute == RoutesExecute(d)  lengths == RoutesLengths(d)
            e == d.experts  r == RoutedRows(d)  c == PaddedCapacity(d)
            capacity == r + e * (d.block - 1)
            blocks == DivCeil(c, d.block)  some == MostBlocks(d)
            r4 == r * 4  r2 == r * 2  c4 == capacity * 4  some4 == some * 4  e4 == e * 4
<1>1. e \in Nat /\ e <= I32Max
  BY DEF RoutesDims, Usize, MoeSpec, Geometry, Narrow
<1>2. /\ r \in Nat /\ c \in Nat /\ blocks \in Nat
      /\ r <= I32Max => /\ c = capacity /\ c * 4 <= UsizeMax /\ blocks <= c
                        /\ some \in Nat /\ some <= blocks
  BY RoutesCount
<1>3. Measures(execute) /\ DOMAIN execute.prepared = {}
  BY DEF Measures, RoutesExecute, LaunchIf, MarlinFirst, Range
<1>4. execute.touches = <<r4, r2, Indexed({capacity}, c4), Indexed({capacity}, some4),
                         4, e4, r4>>
      /\ (execute.accepted => r <= I32Max)
  BY DEF RoutesExecute, LaunchIf, Narrow
<1>5. /\ lengths = <<Some(4), Some(2), Some(4), Some(4), Some(4), Some(4), Some(4)>>
      /\ RoutesSizes(d) =
           <<Of(Times(r, 4), 1), Of(Times(r, 2), 1), Of(Times(c, 4), 1),
             Of(Times(blocks, 4), 1), Of(4, 1), Of(Times(e, 4), 1), Of(Times(r, 4), 1)>>
  BY DEF RoutesLengths, RoutesSizes
<1>. HIDE DEF execute, lengths, e, r, c, blocks, some, capacity
<1>6. /\ e * 4 <= UsizeMax /\ e4 \in Int /\ e4 <= e * 4
      /\ r <= I32Max =>
           /\ r * 4 <= UsizeMax /\ r4 \in Int /\ r4 <= r * 4 /\ r2 \in Int /\ r2 <= r * 2
           /\ c * 4 <= UsizeMax /\ c4 \in Int /\ c4 <= c * 4
           /\ blocks * 4 <= UsizeMax /\ some4 \in Int /\ some4 <= blocks * 4
  BY <1>1, <1>2, WordsAreWide
<1>. HIDE DEF r4, r2, c4, some4, e4
<1>7. 2 \in 1..4 /\ 4 \in 1..4 /\ 2 \in 1..15 /\ 4 \in 1..15 /\ 4 \in Nat
  OBVIOUS
<1>8. /\ Suits(Some(4), Of(Times(r, 4), 1), r4, execute)
      /\ Suits(Some(2), Of(Times(r, 2), 1), r2, execute)
      /\ Suits(Some(4), Of(Times(c, 4), 1), Indexed({capacity}, c4), execute)
      /\ Suits(Some(4), Of(Times(blocks, 4), 1), Indexed({capacity}, some4), execute)
      /\ Suits(Some(4), Of(Times(e, 4), 1), e4, execute)
  <2>1. /\ Suits(Some(4), Of(Times(r, 4), 1), r4, execute)
        /\ Suits(Some(2), Of(Times(r, 2), 1), r2, execute)
        /\ Suits(Some(4), Of(Times(c, 4), 1), c4, execute)
        /\ Suits(Some(4), Of(Times(blocks, 4), 1), some4, execute)
        /\ Suits(Some(4), Of(Times(e, 4), 1), e4, execute)
    BY <1>1, <1>2, <1>3, <1>4, <1>6, <1>7, AcceptedRowSuits
  <2>. QED  BY <2>1, IndexedSuits
<1>9. Suits(Some(4), Of(4, 1), 4, execute)
  BY <1>3, WordsAreWide DEF Suits, Of, Demands, Agree, Covers, Some, AtLeast
<1>. QED  BY <1>3, <1>4, <1>5, <1>8, <1>9 DEF AllSuit, execute, lengths

(* Rows of parts are parts of the rows.                                    *)
LEMMA PartsFit ==
    ASSUME NEW p \in Nat, NEW k \in Nat, NEW c \in {2, 16, 32}
    PROVE  p * k \in Nat /\ p * (k \div c) \in Nat /\ p * (k \div c) <= (p * k) \div c
<1>. DEFINE part == k \div c  whole == p * k  some == p * part
<1>1. part \in Nat /\ part * c <= k
  OBVIOUS
<1>2. whole \in Nat
  OBVIOUS
<1>. HIDE DEF part
<1>3. some \in Nat /\ p * (part * c) <= p * k /\ p * (part * c) = some * c
  BY <1>1
<1>. HIDE DEF whole, some
<1>4. some * c <= whole
  BY <1>3 DEF whole
<1>5. some <= whole \div c
  BY <1>2, <1>3, <1>4
<1>. QED  BY <1>2, <1>3, <1>5 DEF whole, some, part

(* The part of a bank that a kernel takes, and the bank's.                 *)
LEMMA BankParts ==
    ASSUME NEW d \in RoutesDims, MoeSpec(d), NEW c \in {2, 16, 32}
    PROVE  /\ Fraction(Bank(d), c) \in Nat /\ d.experts * d.n * (d.k \div c) \in Nat
           /\ d.experts * d.n * (d.k \div c) <= Fraction(Bank(d), c)
<1>. DEFINE p == d.experts * d.n  whole == p * d.k
<1>1. d.experts \in Nat /\ d.n \in Nat /\ d.k \in Nat
  BY DEF RoutesDims, Usize
<1>2. p \in Nat /\ Bank(d) = Checked(whole)
  BY <1>1, MulThree DEF Bank
<1>. HIDE DEF p
<1>3. whole \in Nat /\ p * (d.k \div c) \in Nat /\ p * (d.k \div c) <= whole \div c
  BY <1>1, <1>2, PartsFit
<1>4. Bank(d) = whole /\ Bank(d) # Over
  <2>1. Bank(d) # Over
    BY DEF MoeSpec, Geometry, Fit, Bank
  <2>. QED  BY <1>2, <1>3, <2>1, Fits
<1>5. Fraction(Bank(d), c) = whole \div c
  BY <1>4 DEF Fraction
<1>. HIDE DEF whole
<1>6. whole \div c \in Nat
  BY <1>3
<1>. QED  BY <1>3, <1>5, <1>6 DEF p

(* Scratch, of which no use is modelled, is of any size.                   *)
LEMMA ScratchSuits ==
    ASSUME NEW n \in Nat, NEW execute, Measures(execute)
    PROVE  Suits(Some(4), AtLeast(n, 1), 0, execute)
BY WordsAreWide DEF Suits, Some, AtLeast, Demands, Agree, Covers

(* The scratch for partial results.                                        *)
LEMMA ReductionSuits ==
    ASSUME NEW d \in RoutesDims, MoeSpec(d), NEW execute, Measures(execute)
    PROVE  /\ Suits(Some(4), Reduction(d)[1], 0, execute)
           /\ Suits(Some(4), Reduction(d)[2], 0, execute)
           /\ Reduction(d) = <<Reduction(d)[1], Reduction(d)[2]>>
<1>. DEFINE x == Mul(PaddedCapacity(d), d.n)  y == Mul(LockCount, d.block * 256)
            rows == Min({x, y})
            first == Times(Times(rows, IF d.block = 8 THEN 2 ELSE 1), 4)
            second == Times(LockCount, 4)
<1>1. LockCount \in Nat /\ PaddedCapacity(d) \in Nat /\ d.n \in Nat
      /\ d.block * 256 \in Nat
  BY RoutesCount, SomeMultiprocessor DEF LockCount, RoutesDims, Usize
<1>2. x \in Nat /\ y \in Nat
  <2>1. ASSUME NEW p \in Nat, NEW q \in Nat  PROVE Mul(p, q) \in Nat
    <3>1. p * q \in Nat
      OBVIOUS
    <3>. QED  BY <3>1, MulIsChecked, Fits
  <2>. QED  BY <1>1, <2>1
<1>3. Reduction(d) = <<AtLeast(first, 1), AtLeast(second, 1)>>
  BY DEF Reduction
<1>. HIDE DEF x, y
<1>4. rows \in Nat
  BY <1>2 DEF Min
<1>. HIDE DEF rows
<1>5. ASSUME NEW p \in Nat, NEW q \in Nat  PROVE Times(p, q) \in Nat
  BY WordsAreWide DEF Times
<1>6. first \in Nat /\ second \in Nat
  <2>1. 1 \in Nat /\ 2 \in Nat /\ 4 \in Nat
    OBVIOUS
  <2>. QED  BY <1>1, <1>4, <1>5, <2>1
<1>. HIDE DEF first, second
<1>. QED  BY <1>3, <1>6, ScratchSuits

(* Routes, which no check of the call measures.                            *)
LEMMA RoutesPrepared ==
    ASSUME NEW p \in Nat, p * 4 <= UsizeMax, NEW some \in Nat, some <= p,
           NEW execute, NEW i \in DOMAIN execute.prepared,
           execute.prepared[i] = Times(p, 4)
    PROVE  IsPrepared(Some(4), Some(1), some * 4, execute, i)
<1>. DEFINE bytes == some * 4  n == p * 4
<1>1. Times(p, 4) = n /\ n \in Nat /\ bytes \in Int /\ bytes <= n
  BY TimesFits
<1>. HIDE DEF bytes, n
<1>2. Some(4) \in Demands /\ Some(1) \in Demands /\ Some(1).width = 1
      /\ Some(4) = Some(Some(4).width)
  BY WordsAreWide DEF Some, AtLeast, Demands
<1>. QED  BY <1>1, <1>2 DEF IsPrepared, bytes

(* A sequence that is given part by part has these elements.               *)
Lists(s, t) == DOMAIN s = DOMAIN t /\ \A i \in DOMAIN t : s[i] = t[i]

(* Products by selected experts: no check measures the routes, and what    *)
(* the kernels touch of them is what their preparation was given.          *)
LEMMA MoeIsSound ==
    ASSUME NEW d \in MoeDims
    PROVE  Sound(Moe(d))
<1>. SUFFICES ASSUME MoeSpec(d)
              PROVE  AllSuit(MoeLengths(d), MoeSizes(d), MoeExecute(d))
  BY DEF Sound, Moe, Kind
<1>. DEFINE execute == MoeExecute(d)  lengths == MoeLengths(d)  sizes == MoeSizes(d)
            e == d.experts  r == RoutedRows(d)  c == PaddedCapacity(d)
            blocks == DivCeil(c, d.block)  some == MostBlocks(d)
            factor == IF d.mx THEN 32 ELSE 16
            weights == e * d.n * (d.k \div 2)  factors == e * d.n * (d.k \div factor)
            input == d.tokens * d.k * 2  output == r * d.n * 2
            bank == Fraction(Bank(d), 2)  scales == Fraction(Bank(d), factor)
            first == IF d.mx THEN 5 ELSE 6  most == IF d.mx THEN 10 ELSE 11
            c4 == c * 4  some4 == some * 4  r4 == r * 4  e4 == e * 4
<1>0. d \in RoutesDims /\ r <= I32Max
  BY DEF MoeDims
<1>1. /\ e \in Nat /\ e <= I32Max /\ d.tokens \in 0..I32Max /\ d.n \in 0..I32Max
      /\ d.k \in 0..I32Max /\ d.mx \in BOOLEAN
  BY <1>0 DEF RoutesDims, Usize, MoeSpec, Geometry, Narrow
<1>2. /\ r \in Nat /\ c \in Nat /\ blocks \in Nat /\ c * 4 <= UsizeMax /\ blocks <= c
      /\ some \in Nat /\ some <= blocks
  BY <1>0, RoutesCount
<1>3. Measures(execute)
  BY DEF Measures, MoeExecute, LaunchIf, MarlinFirst, Range
<1>4. /\ execute.prepared = [i \in first..(first + 2) |-> RoutesSizes(d)[i - first + 3].len]
      /\ RoutesSizes(d)[3].len = Times(c, 4) /\ RoutesSizes(d)[4].len = Times(blocks, 4)
      /\ RoutesSizes(d)[5].len = 4
  BY DEF MoeExecute, LaunchIf, PreparedRoutes, RoutesSizes, Of
<1>5. /\ d.mx => Lists(execute.touches,
           <<input, weights, factors, r4, c4, some4, 4, 0, 0, output>>)
      /\ ~d.mx => Lists(execute.touches,
           <<input, weights, factors, e4, r4, c4, some4, 4, 0, 0, output>>)
  <2>1. CASE d.mx
    BY <2>1 DEF MoeExecute, LaunchIf, Globals, Lists
  <2>2. CASE ~d.mx
    BY <2>2 DEF MoeExecute, LaunchIf, Globals, Lists
  <2>. QED  BY <1>1, <2>1, <2>2
<1>6. /\ d.mx => Lists(lengths,
           <<Some(2), Some(1), Some(1), Some(4), Some(4), Some(4), Some(4), Some(4),
             Some(4), Some(2)>>)
      /\ ~d.mx => Lists(lengths,
           <<Some(2), Some(1), Some(1), Some(4), Some(4), Some(4), Some(4), Some(4),
             Some(4), Some(4), Some(2)>>)
  <2>1. CASE d.mx
    BY <2>1 DEF MoeLengths, Globals, Lists
  <2>2. CASE ~d.mx
    BY <2>2 DEF MoeLengths, Globals, Lists
  <2>. QED  BY <1>1, <2>1, <2>2
<1>7. Reduction(d) = <<Reduction(d)[1], Reduction(d)[2]>>
  BY <1>0, <1>3, ReductionSuits
<1>. DEFINE one == Reduction(d)[1]  two == Reduction(d)[2]
<1>8. /\ d.mx => Lists(sizes,
           <<Of(Times(Times(d.tokens, d.k), 2), 1), Of(bank, 1), Of(scales, 1),
             Of(Times(r, 4), 1), Some(1), Some(1), Some(1), one, two,
             Of(Times(Times(r, d.n), 2), 1)>>)
      /\ ~d.mx => Lists(sizes,
           <<Of(Times(Times(d.tokens, d.k), 2), 1), Of(bank, 1), Of(scales, 1),
             Of(Times(e, 4), 1), Of(Times(r, 4), 1), Some(1), Some(1), Some(1), one, two,
             Of(Times(Times(r, d.n), 2), 1)>>)
  <2>. HIDE DEF one, two
  <2>1. Reduction(d) = <<one, two>>
    BY <1>7 DEF one, two
  <2>2. CASE d.mx
    BY <2>1, <2>2 DEF MoeSizes, Globals, Lists
  <2>3. CASE ~d.mx
    BY <2>1, <2>3 DEF MoeSizes, Globals, Lists
  <2>. QED  BY <1>1, <2>2, <2>3
<1>9. /\ bank \in Nat /\ weights \in Nat /\ weights <= bank
      /\ scales \in Nat /\ factors \in Nat /\ factors <= scales
  <2>1. 2 \in {2, 16, 32} /\ factor \in {2, 16, 32}
    OBVIOUS
  <2>. HIDE DEF factor
  <2>. QED  BY <1>0, <2>1, BankParts
<1>. HIDE DEF execute, lengths, sizes, e, r, c, blocks, some, factor, weights, factors, bank, scales
<1>10. 1 \in 1..15 /\ 2 \in 1..15 /\ 4 \in 1..15 /\ 2 \in 1..4 /\ 4 \in 1..4 /\ 4 \in Nat
  OBVIOUS
<1>11. /\ Suits(Some(2), Of(Times(Times(d.tokens, d.k), 2), 1), input, execute)
       /\ Suits(Some(2), Of(Times(Times(r, d.n), 2), 1), output, execute)
  <2>1. r \in 0..I32Max
    BY <1>0, <1>2, WordsAreWide
  <2>. QED  BY <1>1, <1>3, <1>10, <2>1, NarrowProductSuits
<1>12. /\ Suits(Some(1), Of(bank, 1), weights, execute)
       /\ Suits(Some(1), Of(scales, 1), factors, execute)
  BY <1>3, <1>9, <1>10, PlainSuits
<1>13. /\ Suits(Some(4), Of(Times(e, 4), 1), e4, execute)
       /\ Suits(Some(4), Of(Times(r, 4), 1), r4, execute)
  <2>1. /\ e * 4 <= UsizeMax /\ e4 \in Int /\ e4 <= e * 4
        /\ r * 4 <= UsizeMax /\ r4 \in Int /\ r4 <= r * 4
    BY <1>0, <1>1, <1>2, WordsAreWide
  <2>. HIDE DEF e4, r4
  <2>. QED  BY <1>1, <1>2, <1>3, <1>10, <2>1, AcceptedRowSuits
<1>14. Suits(Some(4), one, 0, execute) /\ Suits(Some(4), two, 0, execute)
  BY <1>0, <1>3, ReductionSuits
<1>15. /\ DOMAIN execute.prepared = first..(first + 2)
       /\ IsPrepared(Some(4), Some(1), c4, execute, first)
       /\ IsPrepared(Some(4), Some(1), some4, execute, first + 1)
       /\ IsPrepared(Some(4), Some(1), 4, execute, first + 2)
  <2>1. first \in Nat
    OBVIOUS
  <2>. HIDE DEF first
  <2>2. /\ DOMAIN execute.prepared = first..(first + 2)
        /\ first \in DOMAIN execute.prepared /\ first + 1 \in DOMAIN execute.prepared
        /\ first + 2 \in DOMAIN execute.prepared
        /\ execute.prepared[first] = Times(c, 4)
        /\ execute.prepared[first + 1] = Times(blocks, 4)
        /\ execute.prepared[first + 2] = 4
    <3>1. /\ first - first + 3 = 3 /\ (first + 1) - first + 3 = 4 /\ (first + 2) - first + 3 = 5
          /\ first \in first..(first + 2) /\ first + 1 \in first..(first + 2)
          /\ first + 2 \in first..(first + 2)
      BY <2>1
    <3>. QED  BY <1>4, <3>1
  <2>. DEFINE second == first + 1  third == first + 2
  <2>3. c <= c /\ blocks * 4 <= UsizeMax
    BY <1>2, WordsAreWide
  <2>4. second \in DOMAIN execute.prepared /\ execute.prepared[second] = Times(blocks, 4)
    BY <2>2
  <2>5. third \in DOMAIN execute.prepared /\ execute.prepared[third] = 4
    BY <2>2
  <2>. HIDE DEF second, third
  <2>6. IsPrepared(Some(4), Some(1), c4, execute, first)
        /\ IsPrepared(Some(4), Some(1), some4, execute, second)
    BY <1>2, <2>2, <2>3, <2>4, RoutesPrepared
  <2>7. IsPrepared(Some(4), Some(1), 4, execute, third)
    BY <2>5, WordsAreWide DEF IsPrepared, Some, AtLeast, Demands
  <2>. QED  BY <2>2, <2>6, <2>7 DEF second, third
<1>. HIDE DEF one, two, input, output, r4, e4, c4, some4
<1>16. /\ DOMAIN lengths = 1..most /\ DOMAIN execute.touches = 1..most
       /\ \A i \in 1..most :
            \/ IsPrepared(lengths[i], sizes[i], execute.touches[i], execute, i)
            \/ /\ i \notin DOMAIN execute.prepared
               /\ Suits(lengths[i], sizes[i], execute.touches[i], execute)
  <2>1. CASE d.mx
    <3>1. first = 5 /\ most = 10
      BY <2>1
    <3>2. DOMAIN execute.prepared = 5..7
      BY <1>15, <3>1
    <3>3. \A i \in 5..7 : IsPrepared(lengths[i], sizes[i], execute.touches[i], execute, i)
      BY <1>5, <1>6, <1>8, <1>15, <2>1, <3>1 DEF Lists
    <3>4. \A i \in 1..10 : i \notin 5..7 => Suits(lengths[i], sizes[i], execute.touches[i], execute)
      BY <1>5, <1>6, <1>8, <1>11, <1>12, <1>13, <1>14, <2>1 DEF Lists
    <3>. QED  BY <1>5, <1>6, <2>1, <3>1, <3>2, <3>3, <3>4 DEF Lists
  <2>2. CASE ~d.mx
    <3>1. first = 6 /\ most = 11
      BY <2>2
    <3>2. DOMAIN execute.prepared = 6..8
      BY <1>15, <3>1
    <3>3. \A i \in 6..8 : IsPrepared(lengths[i], sizes[i], execute.touches[i], execute, i)
      BY <1>5, <1>6, <1>8, <1>15, <2>2, <3>1 DEF Lists
    <3>4. \A i \in 1..11 : i \notin 6..8 => Suits(lengths[i], sizes[i], execute.touches[i], execute)
      BY <1>5, <1>6, <1>8, <1>11, <1>12, <1>13, <1>14, <2>2 DEF Lists
    <3>. QED  BY <1>5, <1>6, <2>2, <3>1, <3>2, <3>3, <3>4 DEF Lists
  <2>. QED  BY <1>1, <2>1, <2>2
<1>. QED  BY <1>16 DEF AllSuit, execute, lengths, sizes

(* Products by one matrix, for few rows.                                   *)
LEMMA OneIsSound ==
    ASSUME NEW d \in RoutesDims
    PROVE  Sound(One(d))
<1>. SUFFICES ASSUME MoeSpec(d)
              PROVE  AllSuit(OneLengths(d), OneSizes(d), OneExecute(d))
  BY DEF Sound, One, Kind
<1>. DEFINE execute == OneExecute(d)  lengths == OneLengths(d)
            allowed == d.experts = 1 /\ d.topk = 1 /\ d.tokens <= MaxDenseTokens
            bank == Fraction(Mul(d.n, d.k), 2)  scales == Fraction(Mul(d.n, d.k), 16)
            weights == d.n * (d.k \div 2)  factors == d.n * (d.k \div 16)
            input == d.tokens * d.k * 2  output == d.tokens * d.n * 2
            partial == Times(Mul(Multiprocessors, 16 * 256), 4)
            flags == Times(Multiprocessors, 4)
            sizes == <<Of(Times(Times(d.tokens, d.k), 2), 1), Of(bank, 1), Of(scales, 1),
                       Of(4, 1), AtLeast(partial, 1), AtLeast(flags, 1),
                       Of(Times(Times(d.tokens, d.n), 2), 1)>>
<1>1. /\ d.tokens \in 0..I32Max /\ d.n \in 0..I32Max /\ d.k \in 0..I32Max
      /\ d.experts \in Nat
  BY DEF RoutesDims, Usize, MoeSpec, Geometry, Narrow
<1>2. Measures(execute) /\ execute.prepared = <<>>
  BY DEF Measures, OneExecute, LaunchIf, MarlinFirst, Range
<1>3. /\ OneSizes(d) = When(allowed, sizes) /\ lengths = When(TRUE, lengths)
      /\ lengths = <<Some(2), Some(1), Some(1), Some(4), Some(4), Some(4), Some(2)>>
      /\ execute.touches = <<input, weights, factors, 4, 0, 0, output>>
  BY DEF OneSizes, OneLengths, OneExecute, LaunchIf, When
<1>4. ASSUME d.experts = 1
      PROVE  /\ bank \in Nat /\ weights \in Nat /\ weights <= bank
             /\ scales \in Nat /\ factors \in Nat /\ factors <= scales
  <2>1. Mul(d.experts, d.n) = d.n
    <3>1. Mul(1, d.n) = Checked(1 * d.n)
      <4>1. 1 \in Nat /\ d.n \in Nat
        BY <1>1, WordsAreWide
      <4>. QED  BY <4>1, MulIsChecked
    <3>2. d.n \in Nat /\ 1 * d.n = d.n /\ d.n <= UsizeMax
      BY <1>1, WordsAreWide
    <3>3. Checked(d.n) = d.n
      BY <3>2, Fits
    <3>. QED  BY <1>4, <3>1, <3>2, <3>3
  <2>2. Bank(d) = Mul(d.n, d.k)
    BY <2>1 DEF Bank
  <2>3. ASSUME NEW c \in {2, 16, 32}
        PROVE  /\ Fraction(Mul(d.n, d.k), c) \in Nat /\ d.n * (d.k \div c) \in Nat
               /\ d.n * (d.k \div c) <= Fraction(Mul(d.n, d.k), c)
    <3>1. d.experts * d.n = d.n
      BY <1>1, <1>4
    <3>. QED  BY <2>2, <3>1, BankParts
  <2>. QED  BY <2>3
<1>5. partial \in Nat /\ flags \in Nat
  <2>1. ASSUME NEW p \in Nat, NEW q \in Nat  PROVE Times(p, q) \in Nat /\ Mul(p, q) \in Nat
    <3>1. p * q \in Nat
      OBVIOUS
    <3>2. Times(p, q) \in Nat
      BY <3>1, WordsAreWide DEF Times
    <3>. QED  BY <3>1, <3>2, MulIsChecked, Fits
  <2>2. Multiprocessors \in Nat /\ 4 \in Nat /\ 16 * 256 \in Nat
    BY SomeMultiprocessor
  <2>3. Mul(Multiprocessors, 16 * 256) \in Nat
    BY <2>1, <2>2
  <2>. QED  BY <2>1, <2>2, <2>3
<1>. DEFINE first == Of(Times(Times(d.tokens, d.k), 2), 1)
            last7 == Of(Times(Times(d.tokens, d.n), 2), 1)
<1>. HIDE DEF execute, lengths, bank, scales, weights, factors, input, output, partial, flags
<1>6. 1 \in 1..15 /\ 2 \in 1..15 /\ 4 \in 1..15 /\ 2 \in 1..4 /\ 7 \in Nat \ {0}
  OBVIOUS
<1>7. Suits(Some(2), first, input, execute) /\ Suits(Some(2), last7, output, execute)
  BY <1>1, <1>2, <1>6, NarrowProductSuits DEF input, output
<1>8. /\ Suits(Some(4), AtLeast(partial, 1), 0, execute)
      /\ Suits(Some(4), AtLeast(flags, 1), 0, execute)
  BY <1>2, <1>5, ScratchSuits
<1>9. Suits(Some(4), Of(4, 1), 4, execute)
  BY <1>2, WordsAreWide DEF Suits, Of, Demands, Agree, Covers, Some, AtLeast
<1>10. ASSUME allowed
       PROVE  \A i \in 1..7 : Suits(lengths[i], sizes[i], execute.touches[i], execute)
  <2>1. Suits(Some(1), Of(bank, 1), weights, execute)
        /\ Suits(Some(1), Of(scales, 1), factors, execute)
    BY <1>2, <1>4, <1>6, <1>10, PlainSuits
  <2>. HIDE DEF first, last7
  <2>2. sizes = <<first, Of(bank, 1), Of(scales, 1), Of(4, 1), AtLeast(partial, 1),
                  AtLeast(flags, 1), last7>>
    BY DEF first, last7
  <2>. QED  BY <1>3, <1>7, <1>8, <1>9, <2>1, <2>2
<1>11. /\ DOMAIN lengths = 1..7 /\ DOMAIN sizes = 1..7 /\ DOMAIN execute.touches = 1..7
       /\ \A i \in 1..7 : \E width \in 1..15 : lengths[i] = Some(width)
  BY <1>3, <1>6
<1>. HIDE DEF sizes, allowed
<1>12. AllSuit(When(TRUE, lengths), When(allowed, sizes), execute)
  BY <1>2, <1>6, <1>10, <1>11, WhenSuits
<1>. QED  BY <1>3, <1>12 DEF execute, lengths

-----------------------------------------------------------------------------
(* Every kind.                                                             *)

(* Each shape of a kind, whatever its numbers, lets through only what the  *)
(* kernels' operands hold.                                                 *)
LEMMA KindsAreSound ==
    ASSUME NEW shape \in Kinds
    PROVE  Sound(shape)
<1>1. CASE \/ \E d \in DenseDims : shape = Dense(d)
           \/ \E d \in VectorDims : shape = Vector(d)
           \/ \E d \in Fp4Dims : shape = Fp4(d)
           \/ \E d \in Fp4VectorDims : shape = Fp4Vector(d)
           \/ \E d \in Fp8VectorDims : shape = Fp8Vector(d)
           \/ \E d \in Mxfp8Dims : shape = Mxfp8(d)
           \/ \E d \in ScaledDims : shape = Scaled(d)
  BY <1>1, DenseIsSound, VectorIsSound, Fp4IsSound, Fp4VectorIsSound, Fp8VectorIsSound,
     Mxfp8IsSound, ScaledIsSound
<1>2. CASE \/ \E d \in GroupedDims : shape = Grouped(d)
           \/ \E d \in Bf16GroupsDims : shape = Bf16Groups(d)
           \/ \E d \in Fp4GroupsDims : shape = Fp4Groups(d)
           \/ \E d \in Fp4GroupsDims : shape = Paired(d)
           \/ \E d \in CublasDims : shape = Cublas(d)
           \/ \E d \in LtDims : shape = LtBf16(d)
           \/ \E d \in LtDims : shape = LtFp8(d)
           \/ \E d \in GemmDims : shape = Gemm(d)
  BY <1>2, GroupedIsSound, Bf16GroupsIsSound, Fp4GroupsIsSound, PairedIsSound, CublasIsSound,
     LtBf16IsSound, LtFp8IsSound, GemmIsSound
<1>3. CASE \/ \E d \in FixedDims : shape = Fixed(d)
           \/ \E d \in VarlenDims : shape = Varlen(d)
           \/ \E d \in PagedDims : shape = Paged(d)
           \/ \E d \in SplitDims : shape = Split(d)
           \/ \E d \in PaddedDims : shape = Padded(d)
           \/ \E d \in MatmulDims : shape = Matmul(d)
           \/ \E d \in GatheredDims : shape = Gathered(d)
           \/ \E d \in EmbeddingDims : shape = Embedding(d)
           \/ \E d \in Mxfp8Dims : shape = Quantize(d)
           \/ \E d \in Mxfp8Dims : shape = Swizzle(d)
  BY <1>3, FixedIsSound, VarlenIsSound, PagedIsSound, SplitIsSound, PaddedIsSound,
     MatmulIsSound, GatheredIsSound, EmbeddingIsSound, QuantizeIsSound, SwizzleIsSound
<1>4. CASE \/ \E d \in RepackDims : shape = Repack(d)
           \/ \E d \in RepackDims : shape = Factors(d)
           \/ \E d \in MxRepackDims : shape = MxRepack(d)
           \/ \E d \in MxRepackDims : shape = MxFactors(d)
           \/ \E d \in RoutesDims : shape = Routes(d)
           \/ \E d \in MoeDims : shape = Moe(d)
           \/ \E d \in RoutesDims : shape = One(d)
  BY <1>4, RepackIsSound, FactorsIsSound, MxRepackIsSound, RoutesIsSound, MoeIsSound,
     OneIsSound
<1>. QED  BY <1>1, <1>2, <1>3, <1>4 DEF Kinds

(* The worlds whose shapes are of these kinds.                             *)
ShapesAreKinds == \A w \in Worlds : \A slot \in DOMAIN w.shapes : w.shapes[slot] \in Kinds

(* What holds of the latest call holds after every step.                   *)
LEMMA CallsInductive ==
    ShapesAreKinds => (Spec => [](LaunchFits /\ LayersAgree))
<1>. SUFFICES ASSUME ShapesAreKinds  PROVE Spec => [](LaunchFits /\ LayersAgree)
  OBVIOUS
<1>1. CallsAreSound
  BY KindsAreSound DEF CallsAreSound, ShapesAreKinds
<1>2. Init => LaunchFits /\ LayersAgree
  BY DEF Init, NoCall, LaunchFits, LayersAgree
<1>3. IInv /\ (LaunchFits /\ LayersAgree) /\ [Next]_vars => (LaunchFits /\ LayersAgree)'
  BY <1>1, StepKeepsCalls
<1>. QED  BY <1>2, <1>3, InductiveInvariant, PTL DEF Spec

(* LaunchFits: for every kind of plan and call and whatever the numbers of *)
(* its shape, the checks of the facade and of the layer below leave the    *)
(* kernels no operand shorter than what they touch.  Of the operands       *)
(* offered the proof uses no more than Given says.                         *)
THEOREM LaunchesFit == ShapesAreKinds => (Spec => []LaunchFits)
<1>. QED  BY CallsInductive, PTL

(* LayersAgree: the facade and the layer below count alike what the facade *)
(* measures, so that only what it leaves to that layer is refused there.   *)
THEOREM LayersCountAlike == ShapesAreKinds => (Spec => []LayersAgree)
<1>. QED  BY CallsInductive, PTL
=============================================================================
