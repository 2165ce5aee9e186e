---------------------------- MODULE VendorShapes ----------------------------
(***************************************************************************)
(* The arithmetic of the plans that cuBLAS and cuBLASLt run, src/vendor    *)
(* over sys/src/platform/vendor, laid out as PlanShapes says.  How these   *)
(* plans share their handles is in CublasLeases.                           *)
(***************************************************************************)
EXTENDS PlanShapes

(* cuBLAS: matrices of elements of d.bytes, both stored by rows.           *)
CublasSpec(d) ==
    /\ Positive({d.m, d.n, d.k}) /\ Narrow({d.m, d.n, d.k})
    /\ Fit({Mul(d.m, d.k), Mul(d.n, d.k), Mul(d.m, d.n)})

CublasElements(d) == <<Times(d.m, d.k), Times(d.n, d.k), Times(d.m, d.n)>>

CublasLengths(d) == [i \in 1..3 |-> Of(CublasElements(d)[i], d.bytes)]

CublasCreate(d) == Narrow({d.m, d.n, d.k})

CublasSizes(d) ==
    Exactly(<<Mul(Mul(d.m, d.k), d.bytes), Mul(Mul(d.n, d.k), d.bytes),
      Mul(Mul(d.m, d.n), d.bytes)>>)

CublasExecute(d) ==
    Launch(StreamFirst, <<d.m * d.k * d.bytes, d.n * d.k * d.bytes,
                          d.m * d.n * d.bytes>>)

(* cuBLASLt: BF16.                                                         *)
OfBf16(d)        == [m |-> d.m, n |-> d.n, k |-> d.k, bytes |-> 2]
LtBf16Spec(d)    == CublasSpec(d)
LtBf16Lengths(d) == CublasLengths(OfBf16(d))
LtBf16Create(d)  == CublasCreate(d)
LtBf16Sizes(d)   == CublasSizes(OfBf16(d))
LtBf16Execute(d) == CublasExecute(OfBf16(d))

(* FP8 with one F32 factor for each input, and a BF16 output.              *)
LtFp8Spec(d) == CublasSpec(d)

LtFp8Lengths(d) ==
    <<Of(Times(d.m, d.k), 1), Of(Times(d.n, d.k), 1), Of(1, 4), Of(1, 4),
      Of(Times(d.m, d.n), 2)>>

LtFp8Create(d) == Narrow({d.m, d.n, d.k})

LtFp8Sizes(d) ==
    Exactly(<<Mul(d.m, d.k), Mul(d.n, d.k), 4, 4, Mul(Mul(d.m, d.n), 2)>>)

LtFp8Execute(d) ==
    Launch(StreamFirst, <<d.m * d.k, d.n * d.k, 4, 4, d.m * d.n * 2>>)

-----------------------------------------------------------------------------
(* d.batch products of views into larger matrices.  An operand d.left,     *)
(* d.right or d.output has the elements from one stored row to the next    *)
(* (leading) and from one product to the next (stride), whether it is      *)
(* stored transposed, and the element it begins at (offset).  Inputs have  *)
(* d.in bytes an element, the output d.out.                                *)

Columns(operand, rows, columns) == IF operand.transposed THEN rows ELSE columns
Rows(operand, rows, columns)    == IF operand.transposed THEN columns ELSE rows

GemmSpec(d) ==
    /\ Positive({d.m, d.n, d.k, d.batch}) /\ ~d.output.transposed
    /\ d.left.leading >= Columns(d.left, d.m, d.k)
    /\ d.right.leading >= Columns(d.right, d.k, d.n)
    /\ d.output.leading >= d.n
    /\ Narrow({d.m, d.n, d.k, d.batch})

GemmLengths(d) == <<Some(d.in), Some(d.in), Some(d.out)>>

(* The elements from the first of an operand to behind its last: the rows  *)
(* are the columns of cuBLAS, which gets the operands in another order.    *)
Span(operand, rows, columns) ==
    Add(Mul(Rows(operand, rows, columns) - 1, operand.leading),
        Columns(operand, rows, columns))

Extent(operand, rows, columns, batch) ==
    Add(Mul(batch - 1, operand.stride), Span(operand, rows, columns))

Extents(d) ==
    <<Extent(d.right, d.k, d.n, d.batch), Extent(d.left, d.m, d.k, d.batch),
      Extent(d.output, d.m, d.n, d.batch)>>

Operands(d) == <<d.right, d.left, d.output>>

GemmBytes(d) == <<d.in, d.in, d.out>>

(* The descriptor holds leading dimensions and strides as i64.             *)
GemmCreate(d) ==
    /\ Fit({Extents(d)[i] : i \in 1..3})
    /\ Narrow({d.m, d.n, d.k, d.batch})
    /\ \A i \in 1..3 : /\ Operands(d)[i].leading <= UsizeMax \div 2
                       /\ Operands(d)[i].stride <= UsizeMax \div 2

(* Each operand from its offset on, measured right after its stream was    *)
(* looked at: not after those of all, which only shows in a call with two  *)
(* things amiss.                                                           *)
GemmSizes(d) ==
    [i \in 1..3 |->
        AtLeast(Mul(Add(Operands(d)[i].offset, Extents(d)[i]),
                    GemmBytes(d)[i]), 1)]

(* cuBLAS takes a leading dimension as an int: what does not fit loses its *)
(* high bits.  It refuses one that is then less than a row.                *)
AsInt(v) ==
    LET low == v % (U32Max + 1) IN
    IF low > I32Max THEN low - (U32Max + 1) ELSE low

Taken(operand) == [operand EXCEPT !.leading = AsInt(@)]

TakenGemm(d) == [d EXCEPT !.left = Taken(@), !.right = Taken(@),
                          !.output = Taken(@)]

GemmExecute(d) ==
    LET taken == TakenGemm(d)  all == Operands(taken) IN
    LaunchIf(GemmSpec(taken), StreamFirst,
        IF GemmSpec(taken)
        THEN [i \in 1..3 |->
                 (all[i].offset + Extents(taken)[i]) * GemmBytes(d)[i]]
        ELSE <<0, 0, 0>>)
=============================================================================
