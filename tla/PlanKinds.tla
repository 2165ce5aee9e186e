----------------------------- MODULE PlanKinds ------------------------------
(***************************************************************************)
(* The kinds of plans and calls, each with the arithmetic of its shape and *)
(* how its native side works: whether its creation binds a context, the    *)
(* steps of it that reach the device, where "init" queues a kernel, and    *)
(* the kernels that a call launches one after the other.                   *)
(***************************************************************************)
EXTENDS PlanShapes, GroupedShapes, AttentionShapes, KernelShapes, MarlinShapes,
        VendorShapes

(* How launch errors come back: "peek" leaves the error of the thread in   *)
(* place, "get" takes it away, "driver" has none but its own.              *)
Native(binds, creation, kernels, errors) ==
    [binds |-> binds, creation |-> creation, kernels |-> kernels,
     errors |-> errors, partial |-> FALSE]

Host       == Native(FALSE, <<>>, <<"gemm">>, "peek")
Bound      == [Host EXCEPT !.binds = TRUE]
Workspace  == [Bound EXCEPT !.creation = <<"alloc">>]

(* Pointer tables, one allocation standing for twelve, and the workspace.  *)
(* A call sets the tables by a kernel of its own.                          *)
Tables     == [Bound EXCEPT
    !.creation = <<"alloc", "init", "alloc">>,
    !.kernels = <<"setup", "gemm">>]

(* A weight out of range leaves its group's part of the tables as it was.  *)
PartTables == [Tables EXCEPT !.partial = TRUE]

Marlin     == Native(FALSE, <<>>, <<"gemm">>, "get")
TypedCall  == Native(FALSE, <<>>, <<"gemm">>, "driver")

(* What a cuBLAS plan owns beside its lease is not on the device.          *)
Leased     == [Bound EXCEPT !.errors = "driver"]

(* A shape that its constructor rejects has no more to it.                 *)
Kind(native, spec, create, lengths, sizes, execute) ==
    IF ~spec THEN [spec |-> FALSE]
    ELSE IF ~create THEN [spec |-> TRUE, create |-> FALSE, native |-> native]
    ELSE [spec |-> TRUE, create |-> TRUE, native |-> native,
          lengths |-> lengths, sizes |-> sizes, execute |-> execute]

Dense(d) ==
    Kind(Workspace, DenseSpec(d), DenseCreate(d),
         DenseLengths(d), DenseSizes(d), DenseExecute(d))

Vector(d) ==
    Kind(Bound, VectorSpec(d), VectorCreate(d),
         VectorLengths(d), VectorSizes(d), VectorExecute(d))

Fp4(d) ==
    Kind(Workspace, Fp4Spec(d), Fp4Create(d),
         Fp4Lengths(d), Fp4Sizes(d), Fp4Execute(d))

Fp4Vector(d) ==
    Kind(Bound, Fp4VectorSpec(d), Fp4VectorCreate(d),
         Fp4VectorLengths(d), Fp4VectorSizes(d), Fp4VectorExecute(d))

Fp8Vector(d) ==
    Kind(Bound, Fp8VectorSpec(d), Fp8VectorCreate(d),
         Fp8VectorLengths(d), Fp8VectorSizes(d), Fp8VectorExecute(d))

Mxfp8(d) ==
    Kind(Workspace, Mxfp8Spec(d), Mxfp8Create(d),
         Mxfp8Lengths(d), Mxfp8Sizes(d), Mxfp8Execute(d))

Scaled(d) ==
    Kind(Workspace, ScaledSpec(d), ScaledCreate(d),
         ScaledLengths(d), ScaledSizes(d), ScaledExecute(d))

Grouped(d) ==
    Kind(PartTables, GroupedSpec(d), GroupedCreate(d),
         GroupedLengths(d), GroupedSizes(d), GroupedExecute(d))

Bf16Groups(d) ==
    Kind(Tables, Bf16GroupsSpec(d), Bf16GroupsCreate(d),
         Bf16GroupsLengths(d), Bf16GroupsSizes(d), Bf16GroupsExecute(d))

Fp4Groups(d) ==
    Kind(PartTables, Fp4GroupsSpec(d), Fp4GroupsCreate(d),
         Fp4GroupsLengths(d), Fp4GroupsSizes(d), Fp4GroupsExecute(d))

Paired(d) ==
    Kind(PartTables, Fp4GroupsSpec(d), PairedCreate(d),
         PairedLengths(d), PairedSizes(d), PairedExecute(d))

Cublas(d) ==
    Kind(Leased, CublasSpec(d), CublasCreate(d),
         CublasLengths(d), CublasSizes(d), CublasExecute(d))

LtBf16(d) ==
    Kind(Leased, LtBf16Spec(d), LtBf16Create(d),
         LtBf16Lengths(d), LtBf16Sizes(d), LtBf16Execute(d))

LtFp8(d) ==
    Kind(Leased, LtFp8Spec(d), LtFp8Create(d),
         LtFp8Lengths(d), LtFp8Sizes(d), LtFp8Execute(d))

Gemm(d) ==
    Kind(Leased, GemmSpec(d), GemmCreate(d),
         GemmLengths(d), GemmSizes(d), GemmExecute(d))

Fixed(d) ==
    Kind(Host, FmhaSpec(d), FmhaCreate(d),
         FixedLengths(d), FixedSizes(d), FixedExecute(d))

Varlen(d) ==
    Kind(Host, FmhaSpec(d), FmhaCreate(d),
         VarlenLengths(d), VarlenSizes(d), VarlenExecute(d))

Paged(d) ==
    Kind(Host, FmhaSpec(d), FmhaCreate(d),
         PagedLengths(d), PagedSizes(d), PagedExecute(d))

Split(d) ==
    Kind(Host, FmhaSpec(d), FmhaCreate(d),
         SplitLengths(d), SplitSizes(d), SplitExecute(d))

Padded(d) ==
    Kind(Host, TRUE, PaddedCreate(d),
         PaddedLengths(d), PaddedSizes(d), PaddedExecute(d))

Matmul(d) ==
    Kind(TypedCall, MatmulSpec(d), TRUE,
         MatmulLengths(d), MatmulSizes(d), MatmulExecute(d))

Gathered(d) ==
    Kind(TypedCall, GatheredSpec(d), TRUE,
         GatheredLengths(d), GatheredSizes(d), GatheredExecute(d))

Embedding(d) ==
    Kind(TypedCall, EmbeddingSpec(d), TRUE,
         EmbeddingLengths(d), EmbeddingSizes(d), EmbeddingExecute(d))

Quantize(d) ==
    Kind(TypedCall, Mxfp8Spec(d), TRUE,
         QuantizeLengths(d), Unchecked(3), QuantizeExecute(d))

Swizzle(d) ==
    Kind(TypedCall, Mxfp8Spec(d), TRUE,
         SwizzleLengths(d), Unchecked(2), SwizzleExecute(d))

Repack(d) ==
    Kind(Marlin, RepackSpec(d), TRUE,
         RepackLengths(d), RepackSizes(d), RepackExecute(d))

Factors(d) ==
    Kind(Marlin, RepackSpec(d), TRUE,
         FactorsLengths(d), FactorsSizes(d), FactorsExecute(d))

MxRepack(d) ==
    Kind(Marlin, MxRepackSpec(d), TRUE,
         MxRepackLengths(d), MxRepackSizes(d), MxRepackExecute(d))

MxFactors(d) ==
    Kind(Marlin, MxRepackSpec(d), TRUE,
         MxRepackLengths(d), MxFactorsSizes(d), MxFactorsExecute(d))

Routes(d) ==
    Kind([Marlin EXCEPT !.kernels = <<"routes">>], MoeSpec(d), TRUE,
         RoutesLengths(d), RoutesSizes(d), RoutesExecute(d))

Moe(d) ==
    Kind(Marlin, MoeSpec(d), TRUE,
         MoeLengths(d), MoeSizes(d), MoeExecute(d))

One(d) ==
    Kind(Marlin, MoeSpec(d), TRUE,
         OneLengths(d), OneSizes(d), OneExecute(d))
-----------------------------------------------------------------------------
(* The numbers that a shape of each kind may have: any words, but that the *)
(* widths of elements, the blocks and the tiles are those of the kernels.  *)

Usize == 0..UsizeMax

DenseDims     == [m : Usize, n : Usize, k : Usize, in : {2, 4}, out : {2, 4}]
VectorDims    == [n : Usize, k : Usize, in : {2, 4}]
Fp4Dims       == [m : Usize, n : Usize, k : Usize]
Fp4VectorDims == [n : Usize, k : Usize]
Fp8VectorDims == [n : Usize, k : Usize]
Mxfp8Dims     == [m : Usize, n : Usize, k : Usize]
ScaledDims    == [m : Usize, n : Usize, k : Usize, scale : {2, 4},
                  channels : BOOLEAN, bias : BOOLEAN]

GroupedDims    == [groups : Usize, matrices : Usize, m : Usize, n : Usize,
                   k : Usize, broadcast : BOOLEAN]
Bf16GroupsDims == [groups : Usize, max : Usize, n : Usize, k : Usize,
                   capacity : Usize]
Fp4GroupsDims  == [groups : Usize, matrices : Usize, max : Usize, n : Usize,
                   k : Usize, capacity : Usize]

CublasDims == [m : Usize, n : Usize, k : Usize, bytes : {2, 4}]
LtDims     == [m : Usize, n : Usize, k : Usize]
Views      == [leading : Usize, stride : Usize, transposed : BOOLEAN,
               offset : Usize]
GemmDims   == [m : Usize, n : Usize, k : Usize, batch : Usize, in : {2, 4},
               out : {2, 4}, left : Views, right : Views, output : Views]

FixedDims  == [heads : Usize, kv : Usize, dim : Usize, vdim : Usize,
               queries : Usize, context : Usize, first : Usize, acc : BOOLEAN]
VarlenDims == [heads : Usize, kv : Usize, dim : Usize, vdim : Usize,
               totalq : Usize, totalc : Usize, batch : Usize, maxq : Usize,
               maxc : Usize]
PaddedDims == [heads : Usize, dim : Usize, in : {2, 4}, sequences : Usize,
               length : Usize]

PagedDims  == [heads : Usize, kv : Usize, dim : Usize, vdim : Usize,
               totalq : Usize, batch : Usize, maxq : Usize, maxc : Usize,
               page : Usize, blocks : Usize, pages : Usize, visible : Usize]

(* The demand for partial results saturates beyond words, which no buffer  *)
(* has as its length.                                                      *)
SplitDims ==
    {d \in [heads : Usize, kv : Usize, dim : Usize, vdim : Usize,
            totalq : Usize, batch : Usize, maxq : Usize, maxc : Usize,
            page : Usize, blocks : Usize, pages : Usize, visible : Usize,
            splits : Usize] :
        d.splits * d.totalq * d.heads * d.dim * 4 <= UsizeMax}

MatmulDims    == [tokens : Usize, rows : Usize, columns : Usize]
GatheredDims  == [inputs : Usize, each : Usize, matrices : Usize,
                  rows : Usize, columns : Usize, bias : BOOLEAN]
EmbeddingDims == [vocab : Usize, hidden : Usize, start : Usize,
                  tokens : Usize]

RepackDims   == [experts : Usize, n : Usize, k : Usize, pair : BOOLEAN]
MxRepackDims == [experts : Usize, n : Usize, k : Usize, ln : Usize,
                 lk : Usize, interleaved : BOOLEAN]
RoutesDims   == [experts : Usize, tokens : Usize, topk : Usize, n : Usize,
                 k : Usize, block : 1..64, tilen : {64, 128, 256},
                 tilek : {64, 128}, mx : BOOLEAN]

(* The routes of a product were prepared for its shape by a call that      *)
(* narrowed the number of their rows.                                      *)
MoeDims == {d \in RoutesDims : RoutedRows(d) <= I32Max}

Kinds ==
    {Dense(d) : d \in DenseDims} \cup {Vector(d) : d \in VectorDims}
    \cup {Fp4(d) : d \in Fp4Dims} \cup {Fp4Vector(d) : d \in Fp4VectorDims}
    \cup {Fp8Vector(d) : d \in Fp8VectorDims}
    \cup {Mxfp8(d) : d \in Mxfp8Dims} \cup {Scaled(d) : d \in ScaledDims}
    \cup {Grouped(d) : d \in GroupedDims}
    \cup {Bf16Groups(d) : d \in Bf16GroupsDims}
    \cup {Fp4Groups(d) : d \in Fp4GroupsDims}
    \cup {Paired(d) : d \in Fp4GroupsDims}
    \cup {Cublas(d) : d \in CublasDims} \cup {LtBf16(d) : d \in LtDims}
    \cup {LtFp8(d) : d \in LtDims} \cup {Gemm(d) : d \in GemmDims}
    \cup {Fixed(d) : d \in FixedDims} \cup {Varlen(d) : d \in VarlenDims}
    \cup {Paged(d) : d \in PagedDims} \cup {Split(d) : d \in SplitDims}
    \cup {Padded(d) : d \in PaddedDims} \cup {Matmul(d) : d \in MatmulDims}
    \cup {Gathered(d) : d \in GatheredDims}
    \cup {Embedding(d) : d \in EmbeddingDims}
    \cup {Quantize(d) : d \in Mxfp8Dims} \cup {Swizzle(d) : d \in Mxfp8Dims}
    \cup {Repack(d) : d \in RepackDims} \cup {Factors(d) : d \in RepackDims}
    \cup {MxRepack(d) : d \in MxRepackDims}
    \cup {MxFactors(d) : d \in MxRepackDims}
    \cup {Routes(d) : d \in RoutesDims} \cup {Moe(d) : d \in MoeDims}
    \cup {One(d) : d \in RoutesDims}
=============================================================================
