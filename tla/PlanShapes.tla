----------------------------- MODULE PlanShapes -----------------------------
(***************************************************************************)
(* The arithmetic of matrix plans: src/cutlass over sys/src/platform/      *)
(* cutlass, for the plans of one matrix.  A kind of plan is known by five  *)
(* operators on its dimensions d:                                          *)
(*                                                                         *)
(*   ..Spec     whether the facade's constructor accepts the dimensions;   *)
(*   ..Lengths  what the facade's execute demands of each operand;         *)
(*   ..Create   whether the native plan can be created;                    *)
(*   ..Sizes    what the layer below demands of each operand, in bytes;    *)
(*   ..Execute  the order of that layer's checks, and the bytes of each    *)
(*              operand that the native kernel touches.                    *)
(*                                                                         *)
(* Words are shorter than the program's 31, 32 and 64 bits, in the same    *)
(* proportion; tile sizes are the real ones.  What reaches no property,    *)
(* the scalars alpha and beta and the tile of a kernel, is left out.       *)
(***************************************************************************)
EXTENDS Integers, Sequences, SequencesExt

CONSTANTS
    I32Max,   \* largest value of an i32
    U32Max,   \* largest value of a u32
    UsizeMax  \* largest value of a usize

ASSUME WordWidths ==
    /\ I32Max \in Nat /\ U32Max \in Nat /\ UsizeMax \in Nat
    /\ I32Max >= 1023   \* tiles and heads, which have their real sizes, fit
    /\ U32Max = 2 * I32Max + 1
    /\ UsizeMax = (U32Max + 1) * (U32Max + 1) - 1

(* Checked arithmetic: a product that does not fit is Over, which no       *)
(* operand's size equals and which every further product keeps.            *)
Over == UsizeMax + 1

Mul(a, b) == IF a = 0 \/ b = 0 THEN 0
             ELSE IF a > UsizeMax \div b THEN Over ELSE a * b

Add(a, b) == IF a + b > UsizeMax THEN Over ELSE a + b

(* usize::unwrap_or(0) on a checked product.                               *)
OrZero(a) == IF a = Over THEN 0 ELSE a

(* Checked division of a checked product.                                  *)
Fraction(a, b) == IF a = Over THEN Over ELSE a \div b

(* Unchecked multiplication wraps, as it does in release builds.           *)
Times(a, b) == (a * b) % (UsizeMax + 1)

DivCeil(a, b) == (a + b - 1) \div b

Positive(S)    == 0 \notin S
Narrow(S)      == \A v \in S : v <= I32Max
Fit(S)         == Over \notin S
Even(S, unit)  == \A v \in S : v % unit = 0

(* A demand on an operand, as a number of elements of a width or, below    *)
(* the facade, of bytes.  Some is a facade's that leaves it to that layer. *)
Of(n, w)      == [len |-> n, width |-> w, exact |-> TRUE]
AtLeast(n, w) == [len |-> n, width |-> w, exact |-> FALSE]
Some(w)       == AtLeast(0, w)
Exactly(bytes) == [i \in DOMAIN bytes |-> Of(bytes[i], 1)]

Meets(demand, len) ==
    IF demand.exact THEN len = demand.len ELSE len >= demand.len

(* The two orders in which the layer below checks a call.                  *)
StreamFirst == <<"stream", "buffers", "sizes", "bind">>
BindFirst   == <<"bind", "stream", "buffers", "sizes">>

(* A native launch: whether the numbers of the call are narrowed and       *)
(* accepted, the order of the checks, the bytes touched of each operand,   *)
(* the operands that no check ties to the stream, and the bytes of those   *)
(* that no check measures since an earlier call prepared them.             *)
LaunchIf(accepted, order, touches) ==
    [accepted |-> accepted, order |-> order, touches |-> touches,
     unseen |-> {}, prepared |-> <<>>]

Launch(order, touches) == LaunchIf(TRUE, order, touches)

(* Kernels compute some offsets in signed words of 32 bits.  A product     *)
(* that does not fit has no defined value: the operand that it indexes is  *)
(* left astray, and no number of bytes is what the kernel touches of it.   *)
(* Products of unsigned words, which wrap and so stay inside, are exact.   *)
Astray == -1

Within(inside, bytes) == IF inside THEN bytes ELSE Astray

Indexed(products, bytes) == Within(Narrow(products), bytes)

(* Demands under a condition: no operand meets them otherwise.             *)
When(condition, demands) ==
    IF condition THEN demands ELSE [i \in DOMAIN demands |-> Of(Over, 1)]

-----------------------------------------------------------------------------
(* Scale factors of blocks of sixteen FP4 values, in tiles of 128 rows by  *)
(* 64 values: 512 bytes each.                                              *)

Fp4Scales(rows, columns) == Mul(Mul(DivCeil(rows, 128), columns \div 64), 512)

(* The byte at which a kernel reads the factor of a row and a block.       *)
ScaleIndex(row, block, columns) ==
    (row \div 128) * (columns \div 64) * 512 + (row % 32) * 16
      + ((row % 128) \div 32) * 4 + (block \div 4) * 512 + (block % 4)

(* What a kernel touches that reads the factor of every row and block: the *)
(* last tile row decides.                                                  *)
ScaleExtent(rows, columns) ==
    1 + Max({ScaleIndex(row, columns \div 16 - 1, columns) :
                row \in (128 * ((rows - 1) \div 128))..(rows - 1)})

(* Scale factors of blocks of 32 values, padded to 128 rows by 4 blocks.   *)
MxScales(rows, columns) ==
    Mul(Mul(DivCeil(rows, 128), 128), Times(DivCeil(columns \div 32, 4), 4))

(* A tile of 128 rows by 4 blocks takes 512 bytes.                         *)
MxExtent(rows, columns) == DivCeil(rows, 128) * DivCeil(columns, 128) * 512

-----------------------------------------------------------------------------
(* Dense matrices of 16-bit values, with an output of the same type or     *)
(* F32: d.m rows, d.n columns, d.k to reduce, elements of d.in and d.out   *)
(* bytes.                                                                  *)

DenseSpec(d) ==
    /\ Positive({d.m, d.n, d.k}) /\ Narrow({d.m, d.n, d.k})
    /\ Fit({Mul(d.m, d.k), Mul(d.n, d.k), Mul(d.m, d.n)})

(* Two matrices, one of them stored by columns, and their product (mutant: *)
(* the rows of one and the columns of the other change places).            *)
DenseSwapped(d) ==
    <<Of(Times(d.n, d.k), d.in), Of(Times(d.m, d.k), d.in),
      Of(Times(d.m, d.n), d.out)>>

DenseLengths(d) ==
    <<Of(Times(d.m, d.k), d.in), Of(Times(d.n, d.k), d.in),
      Of(Times(d.m, d.n), d.out)>>

DenseCreate(d) == Narrow({d.m, d.n, d.k}) /\ d.in = 2

DenseSizes(d) ==
    Exactly(<<Mul(Mul(d.m, d.k), d.in), Mul(Mul(d.n, d.k), d.in),
      Mul(Mul(d.m, d.n), d.out)>>)

DenseExecute(d) ==
    Launch(StreamFirst,
        <<d.m * d.k * d.in, d.n * d.k * d.in, d.m * d.n * d.out>>)

(* A dense matrix times a vector, without a workspace.  The facade takes   *)
(* F32 too; the native plan does not.                                      *)
VectorSpec(d) ==
    Positive({d.n, d.k}) /\ Narrow({d.n, d.k}) /\ Fit({Mul(d.n, d.k)})

VectorLengths(d) == <<Of(d.k, d.in), Of(Times(d.n, d.k), d.in), Of(d.n, d.in)>>

VectorCreate(d) == Narrow({d.n, d.k}) /\ d.in = 2

VectorSizes(d) == Exactly(<<Mul(d.k, 2), Mul(Mul(d.n, d.k), 2), Mul(d.n, 2)>>)

(* With d.k odd a value is indexed from the first of the matrix, else from *)
(* that of its row.                                                        *)
VectorExecute(d) ==
    LET last == (d.n - 1) * d.k + (IF d.k % 2 = 1 THEN d.k - 1 ELSE 0) IN
    Launch(StreamFirst, <<d.k * 2, Indexed({last}, d.n * d.k * 2), d.n * 2>>)

-----------------------------------------------------------------------------
(* Matrices of FP4 values, two to a byte, with their scale factors.        *)

Fp4Spec(d) ==
    /\ Positive({d.m, d.n, d.k}) /\ Even({d.k}, 64) /\ Narrow({d.m, d.n, d.k})
    /\ Fit({Mul(d.m, d.k), Mul(d.n, d.k), Mul(d.m, d.n)})

Fp4Lengths(d) ==
    <<Of(Times(d.m, d.k) \div 2, 1), Of(Fp4Scales(d.m, d.k), 1),
      Of(Times(d.n, d.k) \div 2, 1), Of(Fp4Scales(d.n, d.k), 1),
      Of(Times(d.m, d.n), 2)>>

Fp4Create(d) == Narrow({d.m, d.n, d.k}) /\ d.k % 64 = 0

Fp4Sizes(d) ==
    Exactly(<<Fraction(Mul(d.m, d.k), 2), Fp4Scales(d.m, d.k),
      Fraction(Mul(d.n, d.k), 2), Fp4Scales(d.n, d.k),
      Mul(Mul(d.m, d.n), 2)>>)

Fp4Execute(d) ==
    Launch(StreamFirst,
        <<(d.m * d.k) \div 2, ScaleExtent(d.m, d.k),
          (d.n * d.k) \div 2, ScaleExtent(d.n, d.k), d.m * d.n * 2>>)

(* FP4 times a vector: a count that does not fit becomes zero below.       *)
Fp4VectorSpec(d) ==
    /\ Positive({d.n, d.k}) /\ Even({d.k}, 64) /\ Narrow({d.n, d.k})
    /\ Fit({Mul(d.n, d.k)})

Fp4VectorLengths(d) ==
    <<Of(d.k \div 2, 1), Of(Fp4Scales(1, d.k), 1),
      Of(Times(d.n, d.k) \div 2, 1), Of(Fp4Scales(d.n, d.k), 1), Of(d.n, 2)>>

Fp4VectorCreate(d) == Narrow({d.n, d.k}) /\ d.k % 64 = 0

Fp4VectorSizes(d) ==
    Exactly(<<d.k \div 2, OrZero(Fp4Scales(1, d.k)),
      OrZero(Mul(d.n, d.k)) \div 2, OrZero(Fp4Scales(d.n, d.k)),
      Times(d.n, 2)>>)

Fp4VectorExecute(d) ==
    Launch(StreamFirst,
        <<d.k \div 2, Indexed({ScaleExtent(1, d.k) - 1}, ScaleExtent(1, d.k)),
          Indexed({(d.n - 1) * d.k}, (d.n * d.k) \div 2),
          Indexed({ScaleExtent(d.n, d.k) - 1}, ScaleExtent(d.n, d.k)),
          d.n * 2>>)

-----------------------------------------------------------------------------
(* Matrices of FP8 values.                                                 *)

(* One F32 factor for each block of 128 by 128 weights.                    *)
Fp8VectorSpec(d) ==
    /\ Positive({d.n, d.k}) /\ Even({d.n, d.k}, 128) /\ Narrow({d.n, d.k})
    /\ Fit({Mul(d.n, d.k)})

Fp8VectorLengths(d) ==
    <<Of(d.k, 1), Of(d.k \div 128, 4), Of(Times(d.n, d.k), 1),
      Of(Mul(d.n \div 128, d.k \div 128), 4), Of(d.n, 2)>>

Fp8VectorCreate(d) == Narrow({d.n, d.k}) /\ Even({d.n, d.k}, 128)

Fp8VectorSizes(d) ==
    LET blocks == d.k \div 128 IN
    Exactly(<<d.k, Times(blocks, 4), OrZero(Mul(d.n, d.k)),
      Times(OrZero(Mul(d.n \div 128, blocks)), 4), Times(d.n, 2)>>)

Fp8VectorExecute(d) ==
    Launch(StreamFirst,
        <<d.k, DivCeil(d.k, 128) * 4, d.n * d.k,
          DivCeil(d.n, 128) * DivCeil(d.k, 128) * 4, d.n * 2>>)

(* One factor for each 32 values; the facade's weights are words of four.  *)
Mxfp8Spec(d) ==
    /\ Positive({d.m, d.n, d.k}) /\ Even({d.k}, 128) /\ Narrow({d.m, d.n, d.k})
    /\ Fit({Mul(d.m, d.k), Mul(d.n, d.k), Mul(d.m, d.n)})

Mxfp8Lengths(d) ==
    <<Of(Times(d.m, d.k), 1), Of(MxScales(d.m, d.k), 1),
      Of(Times(d.n, d.k) \div 4, 4), Of(MxScales(d.n, d.k), 1),
      Of(Times(d.m, d.n), 2)>>

Mxfp8Create(d) == Narrow({d.m, d.n, d.k}) /\ d.k % 128 = 0

Mxfp8Sizes(d) ==
    Exactly(<<Mul(d.m, d.k), MxScales(d.m, d.k),
      Mul(d.n, d.k), MxScales(d.n, d.k), Mul(Mul(d.m, d.n), 2)>>)

Mxfp8Execute(d) ==
    Launch(StreamFirst,
        <<d.m * d.k, MxExtent(d.m, d.k), d.n * d.k, MxExtent(d.n, d.k),
          d.m * d.n * 2>>)

(* One factor for each row of the input and for the weights, or for each   *)
(* of their rows: d.scale bytes each, d.channels whether one for each row. *)
(* The facade checks no length and does not narrow: all below is wrapping. *)
ScaledSpec(d) ==
    /\ Positive({d.m, d.n, d.k}) /\ Even({d.n, d.k}, 16)
    /\ Fit({Mul(d.m, d.k), Mul(d.n, d.k)})

ScaledLengths(d) ==
    <<Some(1), Some(1), Some(4), Some(d.scale), Some(2)>>
    \o (IF d.bias THEN <<Some(2)>> ELSE <<>>)

ScaledCreate(d) == Narrow({d.m, d.n, d.k}) /\ Even({d.n, d.k}, 16)

ScaledSizes(d) ==
    Exactly(<<Times(d.m, d.k), Times(d.n, d.k), Times(d.m, 4),
      Times(IF d.channels THEN d.n ELSE 1, d.scale),
      Times(Times(d.m, d.n), 2)>>
    \o (IF d.bias THEN <<Times(d.n, 2)>> ELSE <<>>))

ScaledExecute(d) ==
    Launch(StreamFirst,
        <<d.m * d.k, d.n * d.k, d.m * 4,
          (IF d.channels THEN d.n ELSE 1) * d.scale, d.m * d.n * 2>>
        \o (IF d.bias THEN <<d.n * 2>> ELSE <<>>))
=============================================================================
