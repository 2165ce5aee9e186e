--------------------------- MODULE GroupedShapes ---------------------------
(***************************************************************************)
(* The arithmetic of plans for several matrices, laid out as PlanShapes    *)
(* says: groups of rows, each multiplied by one of d.matrices weights (or, *)
(* for BF16, by the weight of its own number).  The facade checks no       *)
(* length of these; the layer below checks all of them.                    *)
(***************************************************************************)
EXTENDS PlanShapes

(* A tile of 128 rows by 64 FP4 values, also when the last one is partial. *)
TileScales(rows, columns) ==
    Mul(Mul(DivCeil(rows, 128), DivCeil(columns, 64)), 512)

(* What one weight's scale factors take in a kernel.                       *)
ScaleStride(rows, columns) ==
    DivCeil(rows, 128) * 128 * (DivCeil(columns \div 16, 4) * 4)

-----------------------------------------------------------------------------
(* Groups of d.m rows each, that share one input if d.broadcast.           *)

InputGroups(d) == IF d.broadcast THEN 1 ELSE d.groups

GroupedSpec(d) ==
    LET all == {d.groups, d.matrices, d.m, d.n, d.k} IN
    Positive(all) /\ Even({d.k}, 64) /\ Narrow(all)

GroupedLengths(d) ==
    <<Some(1), Some(1), Some(1), Some(1), Some(4), Some(4), Some(2)>>

GroupedCreate(d) ==
    Narrow({d.groups, d.matrices, d.m, d.n, d.k}) /\ d.k % 64 = 0

GroupedSizes(d) ==
    Exactly(<<Mul(Mul(InputGroups(d), d.m), d.k \div 2),
      Mul(InputGroups(d), TileScales(d.m, d.k)),
      Mul(Mul(d.matrices, d.n), d.k \div 2),
      Mul(d.matrices, TileScales(d.n, d.k)),
      Mul(d.matrices, 4), Mul(d.groups, 4),
      Mul(Mul(Mul(d.groups, d.m), d.n), 2)>>)

(* The last group and the last weight decide.  Groups are numbered by      *)
(* signed words, weights by unsigned ones.                                 *)
GroupedExecute(d) ==
    LET last   == InputGroups(d) - 1
        stride == ScaleStride(d.m, d.k)
        scales == ScaleStride(d.n, d.k)
    IN
    Launch(BindFirst,
        <<Indexed({last * d.m * (d.k \div 2)},
                  InputGroups(d) * d.m * (d.k \div 2)),
          Indexed({stride, last * stride},
                  last * stride + ScaleExtent(d.m, d.k)),
          d.matrices * d.n * (d.k \div 2),
          Indexed({scales}, (d.matrices - 1) * scales + ScaleExtent(d.n, d.k)),
          d.matrices * 4, d.groups * 4,
          Indexed({(d.groups - 1) * d.m * d.n}, d.groups * d.m * d.n * 2)>>)

-----------------------------------------------------------------------------
(* Groups of any number of rows, d.capacity together.  The caller places   *)
(* them one after another; rows that a group has more than d.max are left  *)
(* out.                                                                    *)

CONSTANT RowCounts   \* bound: the numbers of rows that groups have

ASSUME GroupsMayBeEmpty == RowCounts \subseteq Nat /\ 0 \in RowCounts

Partitions(d) ==
    {rows \in [1..d.groups -> {r \in RowCounts : r <= d.max}] :
        SumFunction(rows) <= d.capacity}

(* The extent of the rows of all groups under the largest partition.       *)
RowExtent(d) == Max({SumFunction(rows) : rows \in Partitions(d)})

(* The scale factors of a group start at a tile: every group with rows     *)
(* takes whole tiles of 128.                                               *)
ScaleTiles(rows) == SumFunction([g \in DOMAIN rows |-> DivCeil(rows[g], 128)])

BiggestScales(d) ==
    Max({ScaleTiles(rows) : rows \in Partitions(d)}) * (d.k \div 64) * 512

Bf16GroupsSpec(d) ==
    LET all == {d.groups, d.max, d.n, d.k, d.capacity} IN
    /\ Positive(all) /\ Even({d.n, d.k}, 8) /\ \A v \in all : v <= U32Max
    /\ Fit({Mul(d.capacity, d.k), Mul(d.capacity, d.n)})

Bf16GroupsLengths(d) == <<Some(2), Some(2), Some(4), Some(4), Some(2)>>

Bf16GroupsCreate(d) ==
    Narrow({d.groups, d.max, d.n, d.k}) /\ Even({d.n, d.k}, 8)

Bf16GroupsSizes(d) ==
    Exactly(<<Mul(Mul(d.capacity, d.k), 2),
      Mul(Mul(Mul(d.groups, d.k), d.n), 2), Mul(d.groups, 4), Mul(d.groups, 4),
      Mul(Mul(d.capacity, d.n), 2)>>)

Bf16GroupsExecute(d) ==
    Launch(BindFirst,
        <<RowExtent(d) * d.k * 2,
          Indexed({(d.groups - 1) * d.n * d.k}, d.groups * d.n * d.k * 2),
          d.groups * 4, d.groups * 4, RowExtent(d) * d.n * 2>>)

(* The same with FP4 weights and scale factors.                            *)
Fp4GroupsSpec(d) ==
    LET all == {d.groups, d.matrices, d.max, d.n, d.k, d.capacity} IN
    /\ Positive(all) /\ Even({d.k}, 64) /\ \A v \in all : v <= U32Max
    /\ Fit({Mul(d.capacity, d.k \div 2), Mul(d.capacity, d.n)})

Fp4GroupsLengths(d) ==
    <<Some(1), Some(1), Some(1), Some(1), Some(4),
      Some(4), Some(4), Some(4), Some(4), Some(2)>>

Fp4GroupsCreate(d) ==
    Narrow({d.groups, d.matrices, d.max, d.n, d.k}) /\ d.k % 64 = 0

(* Every group may leave 127 rows of its last tile unused; tiles that this *)
(* does not fill are not needed (mutant: the padding of the whole).        *)
PaddedOnce(d) == ((d.capacity + 127) \div 128) * 128

ScaleCapacity(d) == (Add(d.capacity, Mul(d.groups, 127)) \div 128) * 128

Fp4GroupsSizes(d) ==
    Exactly(<<Mul(d.capacity, d.k \div 2), TileScales(ScaleCapacity(d), d.k),
      Mul(Mul(d.matrices, d.n), d.k \div 2),
      Mul(TileScales(d.n, d.k), d.matrices), Mul(d.matrices, 4),
      Mul(d.groups, 4), Mul(d.groups, 4), Mul(d.groups, 4),
      Mul(d.groups, 4), Mul(Mul(d.capacity, d.n), 2)>>)

Fp4GroupsExecute(d) ==
    LET scales == ScaleStride(d.n, d.k) IN
    Launch(BindFirst,
        <<RowExtent(d) * (d.k \div 2), BiggestScales(d),
          d.matrices * d.n * (d.k \div 2),
          Indexed({scales}, (d.matrices - 1) * scales + ScaleExtent(d.n, d.k)),
          d.matrices * 4, d.groups * 4, d.groups * 4, d.groups * 4,
          d.groups * 4, RowExtent(d) * d.n * 2>>)

(* Two such products, of a left and a right set of operands, over the same *)
(* groups: the native plan has twice as many.                              *)
PairedLengths(d) ==
    LET side == <<Some(1), Some(1), Some(1), Some(1), Some(4)>> IN
    side \o side
    \o <<Some(4), Some(4), Some(4), Some(4), Some(2), Some(2)>>

PairedCreate(d) == Fp4GroupsCreate(d) /\ d.groups <= I32Max \div 2

(* Operands 1..5 and the output are a side's, 6..9 are shared.             *)
Twice(side) ==
    SubSeq(side, 1, 5) \o SubSeq(side, 1, 5) \o SubSeq(side, 6, 9)
    \o <<side[10], side[10]>>

PairedSizes(d) == Twice(Fp4GroupsSizes(d))

PairedExecute(d) == Launch(BindFirst, Twice(Fp4GroupsExecute(d).touches))
=============================================================================
