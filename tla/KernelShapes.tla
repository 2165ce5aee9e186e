---------------------------- MODULE KernelShapes ----------------------------
(***************************************************************************)
(* The arithmetic of the MXFP8 kernels that the facade compiles and        *)
(* launches itself, src/mxfp8 over kernels/mxfp8.cu, laid out as           *)
(* PlanShapes says.  There is no native plan, and no layer below checks a  *)
(* size: what the facade's execute demands is all there is.                *)
(***************************************************************************)
EXTENDS PlanShapes

CONSTANT GridMax   \* most blocks in the second dimension of a grid

ASSUME GridWidth == GridMax \in Nat \ {0}

(* A typed launch: its arguments are encoded in order, each tied to the    *)
(* stream it was allocated on; the driver refuses a grid that is empty or  *)
(* too large.                                                              *)
TypedFirst == <<"context", "buffers", "bind">>

GridFits(x, y) == x \in 1..I32Max /\ y \in 1..GridMax

Typed(x, y, touches) == LaunchIf(GridFits(x, y), TypedFirst, touches)

Unchecked(n) == [i \in 1..n |-> Some(1)]

Words(S) == \A v \in S : v <= U32Max

-----------------------------------------------------------------------------
(* d.tokens rows times a matrix of d.rows rows of d.columns values, packed *)
(* four to a word, with one scale factor for each 32.                      *)

MatmulSpec(d) ==
    LET all == {d.tokens, d.columns, d.rows} IN
    /\ Positive(all) /\ Even({d.columns}, 32) /\ Words(all)
    /\ Fit({Mul(d.tokens, d.columns), Mul(d.rows, d.columns),
            Mul(d.tokens, d.rows)})

WeightWords(d)   == Mul(d.rows, d.columns \div 4)
ScaleElements(d) == Mul(d.rows, d.columns \div 32)

MatmulLengths(d) ==
    <<AtLeast(Times(d.tokens, d.columns), 2), Of(WeightWords(d), 4),
      Of(ScaleElements(d), 1), AtLeast(Times(d.tokens, d.rows), 2)>>

MatmulSizes(d) == Unchecked(4)

(* One token for a block, or four of them.                                 *)
TokenBlocks(d) == IF d.tokens = 1 THEN 1 ELSE DivCeil(d.tokens, 4)

MatmulExecute(d) ==
    LET tokens == Min({d.tokens, 4 * TokenBlocks(d)}) IN
    Typed(d.rows, TokenBlocks(d),
        <<tokens * d.columns * 2, d.rows * (d.columns \div 4) * 4,
          d.rows * (d.columns \div 32), tokens * d.rows * 2>>)

-----------------------------------------------------------------------------
(* Each of d.inputs rows times d.each matrices selected from a bank of     *)
(* d.matrices.  A selection outside the bank yields zeros.  Without a bias *)
(* the kernel is passed the input in its place.                            *)

Assignments(d) == Mul(d.inputs, d.each)

GatheredSpec(d) ==
    LET one == [tokens |-> 1, rows |-> d.rows, columns |-> d.columns] IN
    /\ Positive({d.inputs, d.each, d.matrices}) /\ Fit({Assignments(d)})
    /\ MatmulSpec(one)
    /\ Fit({Mul(d.matrices, WeightWords(one)),
            Mul(d.matrices, ScaleElements(one))})

GatheredLengths(d) ==
    LET bank == Mul(d.matrices, d.rows) IN
    <<Of(Mul(d.inputs, d.columns), 2), Of(Mul(bank, d.columns \div 4), 4),
      Of(Mul(bank, d.columns \div 32), 1), Of(Assignments(d), 4),
      Of(Mul(Assignments(d), d.rows), 2)>>
    \o (IF d.bias THEN <<Of(bank, 2)>> ELSE <<>>)

GatheredSizes(d) == Unchecked(IF d.bias THEN 6 ELSE 5)

GatheredExecute(d) ==
    LET bank == d.matrices * d.rows
        base == Typed(d.rows, Assignments(d),
            <<((Assignments(d) - 1) \div d.each + 1) * d.columns * 2,
              bank * (d.columns \div 4) * 4, bank * (d.columns \div 32),
              Assignments(d) * 4, Assignments(d) * d.rows * 2>>
            \o (IF d.bias THEN <<bank * 2>> ELSE <<>>))
    IN [base EXCEPT !.accepted =
           @ /\ Words({Assignments(d), d.matrices, d.each})]

-----------------------------------------------------------------------------
(* Rows of a vocabulary of d.vocab rows of d.hidden values, for d.tokens   *)
(* selections from d.start on.  A selection outside leaves its row of the  *)
(* output as it was.                                                       *)

EmbeddingSpec(d) ==
    LET all == {d.vocab, d.hidden} IN
    Positive(all) /\ Even({d.hidden}, 32) /\ Words(all)

EmbeddingLengths(d) ==
    <<Of(Mul(d.vocab, d.hidden \div 4), 4),
      Of(Mul(d.vocab, d.hidden \div 32), 1),
      AtLeast(Add(d.start, d.tokens), 4), AtLeast(Mul(d.tokens, d.hidden), 2)>>

EmbeddingSizes(d) == Unchecked(4)

EmbeddingExecute(d) ==
    LET base == Typed(d.tokens, 1,
            <<d.vocab * (d.hidden \div 4) * 4, d.vocab * (d.hidden \div 32),
              (d.start + d.tokens) * 4, d.tokens * d.hidden * 2>>)
    IN [base EXCEPT !.accepted = @ /\ Words({d.start, d.tokens})]

-----------------------------------------------------------------------------
(* The two kernels of a Tensor Core projection of Mxfp8 shape, on d.m rows *)
(* of d.k values: quantization, whose results go to the buffers that the   *)
(* projections share, and the layout of scale factors.                     *)

QuantizeLengths(d) ==
    <<Of(Times(d.m, d.k), 2), Of(Times(d.m, d.k), 1),
      Of(MxScales(d.m, d.k), 1)>>

QuantizeExecute(d) ==
    Typed(d.k \div 32, d.m,
          <<d.m * d.k * 2, d.m * d.k, MxExtent(d.m, d.k)>>)

SwizzleLengths(d) ==
    <<Of(Times(d.m, d.k \div 32), 1), Of(MxScales(d.m, d.k), 1)>>

SwizzleExecute(d) ==
    Typed(DivCeil(d.m * (d.k \div 32), 256), 1,
          <<d.m * (d.k \div 32), MxExtent(d.m, d.k)>>)
=============================================================================
