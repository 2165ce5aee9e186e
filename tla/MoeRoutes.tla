----------------------------- MODULE MoeRoutes ------------------------------
(***************************************************************************)
(* The kernel that sorts routed rows by expert for Marlin,                 *)
(* sys/native/marlin/repack.cu, as one block of Threads threads in warps   *)
(* of WarpSize.  Threads of a warp run together, warps in any order; what  *)
(* a barrier separates happens in order.                                   *)
(*                                                                         *)
(* The first phase zeroes counts and adds to them without a barrier in     *)
(* between.  A warp finds the counts that it zeroes itself zeroed, the     *)
(* others perhaps not yet.                                                 *)
(***************************************************************************)
EXTENDS Integers, Sequences, FiniteSets, Functions

CONSTANTS
    Threads,  \* threads of the block, 256 in the program
    WarpSize  \* threads that run together, 32 on the device

ASSUME WarpsFill == Threads \in Nat \ {0} /\ WarpSize \in 1..Threads

VARIABLE
    routing  \* the kernel: its operands and how far its phases are

Idle == [phase |-> "idle"]

RoutedExperts == 0..(routing.experts - 1)
Routed        == DOMAIN routing.selected
Known(row)    == routing.selected[row] < routing.experts

(* The warp of a thread that takes every Threads-th index.                 *)
Warp(index) == (index % Threads) \div WarpSize

(* Rows with the padding of every expert (mutant: without).                *)
CapacityUnpadded(rows, experts, block) == rows

Capacity(rows, experts, block) == rows + experts * (block - 1)

(* A launch on rows that selected experts, or numbers beyond them.         *)
BeginRoutes(selected, experts, block) ==
    /\ routing.phase = "idle"
    /\ routing' =
         LET rows == Cardinality(DOMAIN selected)
             capacity == Capacity(rows, experts, block)
             each == [e \in 0..(experts - 1) |-> 0]
         IN [phase |-> "count", selected |-> selected, experts |-> experts,
             block |-> block, zeroed |-> {}, counted |-> {}, counts |-> each,
             offsets |-> each, ranks |-> each, placed |-> {},
             sorted |-> [i \in 0..(capacity - 1) |-> rows],
             blocks |-> <<>>]

-----------------------------------------------------------------------------
(* Counting.                                                               *)

ZeroCount(e) ==
    /\ routing.phase = "count" /\ e \in RoutedExperts \ routing.zeroed
    /\ routing' = [routing EXCEPT !.zeroed = @ \cup {e}, !.counts[e] = 0]

(* A warp counts when it has zeroed its own part.                          *)
CountRow(row) ==
    /\ routing.phase = "count" /\ row \in Routed \ routing.counted
    /\ {e \in RoutedExperts : Warp(e) = Warp(row)} \subseteq routing.zeroed
    /\ routing' =
         IF Known(row)
         THEN [routing EXCEPT !.counted = @ \cup {row},
                              !.counts[routing.selected[row]] = @ + 1]
         ELSE [routing EXCEPT !.counted = @ \cup {row}]

-----------------------------------------------------------------------------
(* Offsets: whole blocks for each expert, one expert after another.        *)

WholeBlocks(e) ==
    LET block == routing.block IN
    ((routing.counts[e] + block - 1) \div block) * block

(* One thread for each expert adds what is 1, 2, 4... before it.           *)
Stride[round \in 0..routing.experts] ==
    IF round = 0 THEN 1 ELSE 2 * Stride[round - 1]

Rounds == CHOOSE n \in 0..routing.experts :
    /\ Stride[n] >= routing.experts
    /\ \A round \in 0..(n - 1) : Stride[round] < routing.experts

Scanned ==
    LET scan[n \in 0..routing.experts] ==
          IF n = 0 THEN [e \in RoutedExperts |-> WholeBlocks(e)]
          ELSE LET before == scan[n - 1]  stride == Stride[n - 1] IN
               [e \in RoutedExperts |->
                  before[e] + (IF e >= stride THEN before[e - stride] ELSE 0)]
    IN scan[Rounds]

(* One thread adds for all experts.                                        *)
Serial ==
    LET before[e \in 0..routing.experts] ==
          IF e = 0 THEN 0 ELSE before[e - 1] + WholeBlocks(e - 1)
    IN before

Offset(e) ==
    IF routing.experts <= Threads THEN Scanned[e] - WholeBlocks(e)
    ELSE Serial[e]

PaddedRows ==
    IF routing.experts <= Threads THEN Scanned[routing.experts - 1]
    ELSE Serial[routing.experts]

(* The expert of each block.                                               *)
BlockExpert(b) == CHOOSE e \in RoutedExperts :
    b * routing.block \in Offset(e)..(Offset(e) + WholeBlocks(e) - 1)

PlaceBlocks ==
    /\ routing.phase = "count"
    /\ routing.zeroed = RoutedExperts /\ routing.counted = Routed
    /\ routing' = [routing EXCEPT !.phase = "place",
           !.offsets = [e \in RoutedExperts |-> Offset(e)],
           !.blocks = [i \in 1..(PaddedRows \div routing.block) |->
                          BlockExpert(i - 1)]]

-----------------------------------------------------------------------------
(* Rows: each takes the next place of its expert, in scheduling order, and *)
(* then every expert's rows are sorted.                                    *)

PlaceOf(row) ==
    LET e == routing.selected[row] IN routing.offsets[e] + routing.ranks[e]

PlaceRow(row) ==
    /\ routing.phase = "place" /\ row \in Routed \ routing.placed
    /\ routing' =
         IF Known(row)
         THEN [routing EXCEPT !.placed = @ \cup {row},
                              !.ranks[routing.selected[row]] = @ + 1,
                              !.sorted[PlaceOf(row)] = row]
         ELSE [routing EXCEPT !.placed = @ \cup {row}]

Places(rows, row) == {i \in DOMAIN rows : rows[i] = row}

(* The rows that a loop of exchanges leaves: the same ones, in order.       *)
Sort(rows) ==
    CHOOSE s \in [DOMAIN rows -> Range(rows)] :
        /\ \A i, j \in DOMAIN rows : i < j => s[i] <= s[j]
        /\ \A row \in Range(rows) :
             Cardinality(Places(s, row)) = Cardinality(Places(rows, row))

(* An expert's places in order: as many as it counted (mutant: all but the *)
(* last of them).                                                          *)
OrderedButLast(sorted, from, count) ==
    Sort([i \in 1..(count - 1) |-> sorted[from + i - 1]])
        \o (IF count = 0 THEN <<>> ELSE <<sorted[from + count - 1]>>)

Ordered(sorted, from, count) ==
    Sort([i \in 1..count |-> sorted[from + i - 1]])

SortRows ==
    /\ routing.phase = "place" /\ routing.placed = Routed
    /\ routing' = [routing EXCEPT !.phase = "done",
           !.sorted = [i \in DOMAIN @ |->
              LET owners == {e \in RoutedExperts : i - routing.offsets[e]
                                             \in 0..(routing.counts[e] - 1)}
              IN IF owners = {} THEN @[i]
                 ELSE LET e == CHOOSE e \in owners : TRUE IN
                      Ordered(@, routing.offsets[e], routing.counts[e])
                         [i - routing.offsets[e] + 1]]]

EndRoutes == routing.phase = "done" /\ routing' = Idle

RouteStep ==
    /\ routing.phase # "idle"
    /\ \/ \E e \in RoutedExperts : ZeroCount(e)
       \/ \E row \in Routed : CountRow(row)
       \/ PlaceBlocks
       \/ \E row \in Routed : PlaceRow(row)
       \/ SortRows

-----------------------------------------------------------------------------
(* What the routes are for: rows in blocks, each of one expert.            *)

Selecting(e) == {row \in Routed : routing.selected[row] = e}

BlocksOf(e) ==
    (Cardinality(Selecting(e)) + routing.block - 1) \div routing.block

BlocksBefore(e) ==
    Cardinality(UNION {{other} \X (1..BlocksOf(other)) : other \in 0..(e - 1)})

(* The place of a row: after the blocks of lower experts, behind lower     *)
(* rows of its own.                                                        *)
Bucket(row) ==
    routing.block * BlocksBefore(routing.selected[row])
      + Cardinality({other \in Selecting(routing.selected[row]) : other < row})

InBuckets ==
    /\ Len(routing.blocks) = BlocksBefore(routing.experts)
    /\ \A row \in Routed : Known(row) =>
         /\ routing.sorted[Bucket(row)] = row
         /\ routing.blocks[Bucket(row) \div routing.block + 1] =
                routing.selected[row]
    /\ \A i \in DOMAIN routing.sorted :
         i \in {Bucket(row) : row \in {r \in Routed : Known(r)}}
           \/ routing.sorted[i] = Cardinality(Routed)

(* The routes depend on the selection alone, not on how the threads were   *)
(* scheduled: rows of an expert stand in order in its blocks, whether the  *)
(* offsets came from the scan or the serial loop, and filler stands in the *)
(* rest.  Only that no count was lost is presumed.                         *)
RoutesAreBuckets ==
    (/\ routing.phase = "done"
     /\ \A e \in RoutedExperts :
          routing.counts[e] = Cardinality(Selecting(e)))
    => InBuckets

(* No row is placed or sorted outside of the buffer, and there are no more *)
(* blocks than fit in it, even if counts were lost.                        *)
RoutesStayInBounds ==
    routing.phase = "place" =>
        /\ \A row \in Routed \ routing.placed :
             Known(row) => PlaceOf(row) \in DOMAIN routing.sorted
        /\ \A e \in RoutedExperts :
             routing.counts[e] > 0 =>
                 routing.offsets[e] + routing.counts[e] - 1
                     \in DOMAIN routing.sorted
        /\ Len(routing.blocks) * routing.block
                <= Cardinality(DOMAIN routing.sorted)

(* What the comment at native/marlin/repack.cu:252 says: ordering every    *)
(* expert's rows makes the results reproducible.                           *)
RoutesAreReproducible == routing.phase = "done" => InBuckets
=============================================================================
