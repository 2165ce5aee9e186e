---------------------------- MODULE MarlinShapes ----------------------------
(***************************************************************************)
(* The arithmetic of Marlin's products of BF16 by FP4, src/marlin over     *)
(* sys/src/platform/marlin and native/marlin, laid out as PlanShapes says. *)
(* These are calls of a context without a plan: a buffer must be of the    *)
(* context, and of any stream.  The facade checks almost no length; the    *)
(* layer below checks sizes, narrows the numbers and launches.             *)
(***************************************************************************)
EXTENDS PlanShapes

CONSTANT Multiprocessors   \* of the device

ASSUME SomeMultiprocessor == Multiprocessors \in Nat \ {0}

MarlinFirst == <<"context", "buffers", "sizes", "bind">>

(* What every specification demands: experts of n by k, in whole tiles.    *)
Geometry(d, tile) ==
    /\ Positive({d.experts, d.n, d.k}) /\ Even({d.n}, 64) /\ Even({d.k}, tile)
    /\ Narrow({d.experts, d.n, d.k}) /\ Fit({Mul(Mul(d.experts, d.n), d.k)})

Bank(d) == Mul(Mul(d.experts, d.n), d.k)

(* The preparing kernels number the values of a bank, all experts'         *)
(* together, by signed words.                                              *)
OfBank(d, bytes) == Indexed({Bank(d)}, bytes)

-----------------------------------------------------------------------------
(* Weights and scale factors into Marlin's layout, once: NVFP4, from one   *)
(* bank or, if d.pair, from two of half the rows.                          *)

RepackSpec(d) == Geometry(d, 16)

Sources(d) == IF d.pair THEN 2 ELSE 1

Second(d, operands) == IF d.pair THEN operands ELSE <<>>

RepackLengths(d) == <<Some(1), Some(1)>> \o Second(d, <<Some(1)>>)

RepackSizes(d) ==
    LET all == Fraction(Bank(d), 2)
        each == Of(Fraction(all, Sources(d)), 1)
    IN
    <<each, Of(all, 1)>> \o Second(d, <<each>>)

(* A kernel's thread takes a word of output, of eight values.              *)
RepackExecute(d) ==
    LET each == OfBank(d, d.experts * (d.n \div Sources(d)) * (d.k \div 2)) IN
    Launch(MarlinFirst,
        <<each, OfBank(d, (d.experts * ((d.n * d.k) \div 8)) * 4)>>
        \o Second(d, <<each>>))

FactorsLengths(d) ==
    <<Some(1), Some(4), Some(1), Some(4), Of(1, 4)>> \o Second(d, <<Some(1)>>)

FactorsSizes(d) ==
    LET all == Fraction(Bank(d), 16)
        each == Of(Fraction(all, Sources(d)), 1)
    IN
    <<each, Of(d.experts * 4, 1), Of(all, 1), Of(d.experts * 4, 1), Of(4, 1)>>
    \o Second(d, <<each>>)

FactorsExecute(d) ==
    LET each == OfBank(d, d.experts * (d.n \div Sources(d)) * (d.k \div 16)) IN
    Launch(MarlinFirst,
        <<each, d.experts * 4, OfBank(d, d.experts * d.n * (d.k \div 16)),
          d.experts * 4, 4>> \o Second(d, <<each>>))

(* MXFP4, from a smaller bank of d.ln by d.lk that is padded, its rows in  *)
(* order or, if d.interleaved, alternately of the two halves.              *)
MxRepackSpec(d) ==
    /\ Geometry(d, 32)
    /\ Positive({d.ln, d.lk}) /\ d.ln <= d.n /\ d.lk <= d.k /\ Even({d.lk}, 32)

LogicalBank(d) == Mul(Mul(d.experts, d.ln), d.lk)

MxRepackLengths(d) == <<Some(1), Some(1)>>

MxRepackSizes(d) ==
    <<Of(Fraction(LogicalBank(d), 2), 1), Of(Fraction(Bank(d), 2), 1)>>

MxFactorsSizes(d) ==
    <<Of(Fraction(LogicalBank(d), 32), 1), Of(Fraction(Bank(d), 32), 1)>>

(* The rows of the source that a padded row's index reaches.               *)
SourceRow(d, row) ==
    LET up == row >= d.n \div 2
        unit == IF up THEN row - d.n \div 2 ELSE row IN
    IF ~d.interleaved THEN row
    ELSE IF unit >= d.ln \div 2 THEN d.ln
    ELSE unit * 2 + (IF up THEN 1 ELSE 0)

SourceRows(d) ==
    LET rows == {SourceRow(d, row) : row \in 0..(d.n - 1)} IN
    1 + Max({r \in rows : r < d.ln} \cup {0})

MxSource(d, bytes) ==
    OfBank(d, ((d.experts - 1) * d.ln + SourceRows(d)) * bytes)

MxRepackExecute(d) ==
    Launch(MarlinFirst,
        <<MxSource(d, d.lk \div 2),
          OfBank(d, (d.experts * ((d.n * d.k) \div 8)) * 4)>>)

MxFactorsExecute(d) ==
    Launch(MarlinFirst,
        <<MxSource(d, d.lk \div 32),
          OfBank(d, d.experts * d.n * (d.k \div 32))>>)

-----------------------------------------------------------------------------
(* Products for d.tokens rows by the d.topk experts selected for each, in  *)
(* blocks of d.block rows that one expert takes, by kernels with tiles of  *)
(* d.tilen by d.tilek.                                                     *)

MoeSpec(d) ==
    /\ Geometry(d, d.tilek) /\ d.n % d.tilen = 0
    /\ Positive({d.tokens, d.topk}) /\ d.topk <= d.experts
    /\ Narrow({d.tokens, d.topk}) /\ Fit({Mul(d.tokens, d.topk)})

RoutedRows(d) == Mul(d.tokens, d.topk)

(* Every expert may leave all rows but one of its last block unused        *)
(* (mutant: nothing is padded).                                            *)
Unpadded(d) == RoutedRows(d)

PaddedCapacity(d) == Add(RoutedRows(d), Mul(d.experts, d.block - 1))

(* The most blocks that hold the routed rows: each of an expert of its own *)
(* as far as there are experts, whole blocks from there.                   *)
MostBlocks(d) ==
    IF RoutedRows(d) <= d.experts THEN RoutedRows(d)
    ELSE d.experts + (RoutedRows(d) - d.experts) \div d.block

RoutesLengths(d) ==
    <<Some(4), Some(2), Some(4), Some(4), Some(4), Some(4), Some(4)>>

RoutesSizes(d) ==
    <<Of(Times(RoutedRows(d), 4), 1), Of(Times(RoutedRows(d), 2), 1),
      Of(Times(PaddedCapacity(d), 4), 1),
      Of(Times(DivCeil(PaddedCapacity(d), d.block), 4), 1), Of(4, 1),
      Of(Times(d.experts, 4), 1), Of(Times(RoutedRows(d), 4), 1)>>

RoutesExecute(d) ==
    LET capacity == RoutedRows(d) + d.experts * (d.block - 1) IN
    LaunchIf(Narrow({RoutedRows(d), d.experts}), MarlinFirst,
        <<RoutedRows(d) * 4, RoutedRows(d) * 2,
          Indexed({capacity}, capacity * 4),
          Indexed({capacity}, MostBlocks(d) * 4),
          4, d.experts * 4, RoutedRows(d) * 4>>)

(* Scratch for the reduction of partial results: a tile for each of four   *)
(* locks of a multiprocessor, twice with blocks of eight.  What the        *)
(* vendored kernel uses of it is not modelled.                             *)
LockCount == 4 * Multiprocessors

Reduction(d) ==
    LET rows == Min({Mul(PaddedCapacity(d), d.n),
                     Mul(LockCount, d.block * 256)}) IN
    <<AtLeast(Times(Times(rows, IF d.block = 8 THEN 2 ELSE 1), 4), 1),
      AtLeast(Times(LockCount, 4), 1)>>

(* A product by NVFP4 or, if d.mx, MXFP4 weights, that have no factor for  *)
(* an expert.  The routes, which the call takes as the preparation for the *)
(* same shape left them, are not checked.                                  *)
Globals(d, operands) == IF d.mx THEN <<>> ELSE operands

MoeLengths(d) ==
    <<Some(2), Some(1), Some(1)>> \o Globals(d, <<Some(4)>>) \o
    <<Some(4), Some(4), Some(4), Some(4), Some(4), Some(4), Some(2)>>

(* What the preparation was given for them.                                *)
PreparedRoutes(d) ==
    LET first == IF d.mx THEN 5 ELSE 6 IN
    [i \in first..(first + 2) |-> RoutesSizes(d)[i - first + 3].len]

MoeSizes(d) ==
    <<Of(Times(Times(d.tokens, d.k), 2), 1), Of(Fraction(Bank(d), 2), 1),
      Of(Fraction(Bank(d), IF d.mx THEN 32 ELSE 16), 1)>>
    \o Globals(d, <<Of(Times(d.experts, 4), 1)>>) \o
    <<Of(Times(RoutedRows(d), 4), 1), Some(1), Some(1), Some(1)>>
    \o Reduction(d) \o <<Of(Times(Times(RoutedRows(d), d.n), 2), 1)>>

MoeExecute(d) ==
    [LaunchIf(Narrow({d.topk, d.tokens, d.n, d.k}), MarlinFirst,
        <<d.tokens * d.k * 2, d.experts * d.n * (d.k \div 2),
          d.experts * d.n * (d.k \div (IF d.mx THEN 32 ELSE 16))>>
        \o Globals(d, <<d.experts * 4>>) \o
        <<RoutedRows(d) * 4, PaddedCapacity(d) * 4, MostBlocks(d) * 4, 4, 0, 0,
          RoutedRows(d) * d.n * 2>>)
     EXCEPT !.prepared = PreparedRoutes(d)]

(* A product by one matrix, of at most sixteen rows.                       *)
MaxDenseTokens == 16

OneLengths(d) ==
    <<Some(2), Some(1), Some(1), Some(4), Some(4), Some(4), Some(2)>>

OneSizes(d) ==
    When(d.experts = 1 /\ d.topk = 1 /\ d.tokens <= MaxDenseTokens,
         <<Of(Times(Times(d.tokens, d.k), 2), 1),
           Of(Fraction(Mul(d.n, d.k), 2), 1),
           Of(Fraction(Mul(d.n, d.k), 16), 1), Of(4, 1),
           AtLeast(Times(Mul(Multiprocessors, 16 * 256), 4), 1),
           AtLeast(Times(Multiprocessors, 4), 1),
           Of(Times(Times(d.tokens, d.n), 2), 1)>>)

OneExecute(d) ==
    LaunchIf(Narrow({d.tokens, d.n, d.k}), MarlinFirst,
        <<d.tokens * d.k * 2, d.n * (d.k \div 2), d.n * (d.k \div 16), 4, 0, 0,
          d.tokens * d.n * 2>>)
=============================================================================
