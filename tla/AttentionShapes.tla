-------------------------- MODULE AttentionShapes --------------------------
(***************************************************************************)
(* The arithmetic of attention plans, laid out as PlanShapes says.  A plan *)
(* fixes the heads, d.heads for queries over d.kv for keys and values, and *)
(* their width d.dim; the tokens come with each call, so that the numbers  *)
(* of the call are narrowed then, after all other checks.  BF16 throughout *)
(* but in padded attention.                                                *)
(***************************************************************************)
EXTENDS PlanShapes

FmhaSpec(d) ==
    /\ Positive({d.heads, d.kv}) /\ d.heads % d.kv = 0
    /\ d.dim = d.vdim /\ d.dim \in {64, 128, 256, 512}

FmhaCreate(d) ==
    /\ Positive({d.heads, d.kv}) /\ d.heads % d.kv = 0
    /\ d.dim = d.vdim /\ d.dim \in {64, 128, 256, 512}

(* Bytes of rows of heads, checked; and what saturates instead.            *)
RowBytes(rows, heads, columns, w) == Mul(Mul(Mul(rows, heads), columns), w)

Saturated(a) == IF a = Over THEN UsizeMax ELSE a

(* Tokens with the heads of queries, or of keys and values: their stride   *)
(* is computed in 32 bits.                                                 *)
OfQueries(d, bytes) == Indexed({d.heads * d.dim}, bytes)
OfKeys(d, bytes)    == Indexed({d.kv * d.dim}, bytes)

-----------------------------------------------------------------------------
(* Fixed attention: d.queries over d.context tokens from token d.first of  *)
(* the pages, with an accumulator if the caller passes one.                *)

KeyOffset(d)   == Mul(Mul(d.first, Times(d.kv, d.dim)), 2)
ValueOffset(d) == Mul(Mul(d.first, Times(d.kv, d.vdim)), 2)

FixedLengths(d) ==
    When(Fit({KeyOffset(d), ValueOffset(d)}),
         <<Some(2), Some(1), Some(1), Some(2)>>
         \o (IF d.acc THEN <<Some(4)>> ELSE <<>>))

Accumulates(d) == d.vdim > 256

FixedSizes(d) ==
    When(d.queries > 0 /\ d.context >= d.queries /\ (d.acc <=> Accumulates(d)),
         <<Of(RowBytes(d.queries, d.heads, d.dim, 2), 1),
           AtLeast(Add(KeyOffset(d), RowBytes(d.context, d.kv, d.dim, 2)), 1),
           AtLeast(Add(ValueOffset(d),
                       RowBytes(d.context, d.kv, d.vdim, 2)), 1),
           Of(RowBytes(d.queries, d.heads, d.vdim, 2), 1)>>
         \o (IF d.acc
             THEN <<AtLeast(RowBytes(d.queries, d.heads, d.vdim, 4), 1)>>
             ELSE <<>>))

(* Heads of 512 use the accumulator, whether it was passed or not.         *)
FixedExecute(d) ==
    LET query == d.queries * d.heads * d.dim * 2
        keys  == (d.first + d.context) * d.kv * d.dim * 2
    IN
    LaunchIf(/\ Narrow({d.queries, d.context, d.heads, d.kv, d.dim})
             /\ d.dim \in {64, 128, 512},
        StreamFirst,
        <<OfQueries(d, query), OfKeys(d, keys), OfKeys(d, keys),
          OfQueries(d, query)>>
        \o (IF d.dim = 512 THEN <<OfQueries(d, query * 2)>> ELSE <<>>))

-----------------------------------------------------------------------------
(* Sequences of any length, packed: d.totalq and d.totalc tokens in        *)
(* d.batch sequences of up to d.maxq and d.maxc.                           *)

VarlenLengths(d) == <<Some(2), Some(2), Some(2), Some(2), Some(4), Some(4)>>

VarlenSizes(d) ==
    LET starts == Mul(Add(d.batch, 1), 4) IN
    When(d.batch > 0 /\ d.totalq >= d.maxq /\ d.totalc >= d.maxc,
         <<Of(RowBytes(d.totalq, d.heads, d.dim, 2), 1),
           AtLeast(RowBytes(d.totalc, d.kv, d.dim, 2), 1),
           AtLeast(RowBytes(d.totalc, d.kv, d.vdim, 2), 1),
           Of(RowBytes(d.totalq, d.heads, d.vdim, 2), 1),
           AtLeast(starts, 1), AtLeast(starts, 1)>>)

VarlenExecute(d) ==
    LET query  == d.totalq * d.heads * d.dim * 2
        keys   == d.totalc * d.kv * d.dim * 2
        starts == (d.batch + 1) * 4
    IN
    LaunchIf(/\ Narrow({d.maxq, d.maxc, d.batch, d.heads, d.kv, d.dim})
             /\ Positive({d.maxq, d.maxc}) /\ d.dim \in {64, 128},
        StreamFirst,
        <<OfQueries(d, query), OfKeys(d, keys), OfKeys(d, keys),
          OfQueries(d, query), starts, starts>>)

-----------------------------------------------------------------------------
(* Keys and values in pages of d.page tokens: the cache holds d.pages of   *)
(* them, a sequence uses up to d.blocks.                                   *)

PageBytes(d) == RowBytes(d.page, d.kv, d.dim, 2)

PagedLengths(d) ==
    <<Some(2), Some(1), Some(1), Some(2),
      Some(4), Some(4), Some(4), Some(4), Some(4)>>

PagedSizes(d) ==
    LET query  == RowBytes(d.totalq, d.heads, d.dim, 2)
        pages  == Mul(d.pages, PageBytes(d))
        starts == Saturated(Mul((d.batch + 1) % (UsizeMax + 1), 4))
        blocks == Saturated(Mul(Mul(d.batch, d.blocks), 4))
    IN
    When(/\ Positive({d.batch, d.maxq, d.page, d.blocks, d.pages})
         /\ d.totalq >= d.maxq /\ d.page % 16 = 0
         /\ d.maxc <= Saturated(Mul(d.blocks, d.page)),
         <<Of(query, 1), Of(pages, 1), Of(pages, 1), Of(query, 1),
           AtLeast(starts, 1), AtLeast(Saturated(Mul(d.batch, 4)), 1),
           AtLeast(starts, 1), AtLeast(blocks, 1),
           AtLeast(Saturated(Mul(Mul(d.totalq, d.heads), 4)), 1)>>)

(* One query for each sequence, whose heads are then taken as its rows:    *)
(* the kernel counts sequences, not tokens, and no check compares the two. *)
(* What holds a row for each token is left astray when there are fewer.    *)
OneToken(d)  == d.maxq = 1 /\ d.heads > d.kv
QueryRows(d) == IF OneToken(d) THEN d.batch ELSE d.totalq

PerToken(d, bytes) == Within(QueryRows(d) <= d.totalq, bytes)

LseRows(d) == IF OneToken(d) THEN d.batch * (d.heads \div d.kv) ELSE d.totalq

PagedTouches(d) ==
    LET query  == PerToken(d,
                      OfQueries(d, QueryRows(d) * d.heads * d.dim * 2))
        pages  == OfKeys(d, d.pages * PageBytes(d))
        starts == (d.batch + 1) * 4
    IN
    <<query, pages, pages, query, starts, d.batch * 4, starts,
      ((d.batch - 1) * d.blocks + DivCeil(d.maxc, d.page)) * 4,
      PerToken(d, Indexed({LseRows(d)}, QueryRows(d) * d.heads * 4))>>

PagedNumbers(d) ==
    {d.totalq, d.maxq, d.maxc, d.batch, d.blocks, d.page, d.heads, d.kv, d.dim}

PagedNative(d) ==
    Narrow(PagedNumbers(d)) /\ d.maxc >= d.maxq /\ d.dim \in {64, 128, 256}

(* The keys that a window of d.visible tokens leaves before the query, -1  *)
(* when all are visible.                                                   *)
WindowLeft(d) == IF d.visible = 0 THEN -1 ELSE d.visible - 1

PagedExecute(d) ==
    LaunchIf(PagedNative(d) /\ WindowLeft(d) <= I32Max, StreamFirst,
        PagedTouches(d))

(* In d.splits parts that a second kernel merges, through two buffers of   *)
(* partial results, operands 10 and 11, that no check ties to the stream.  *)
SplitLengths(d) == PagedLengths(d) \o <<Some(4), Some(4)>>

SplitSizes(d) ==
    LET rows   == Saturated(Mul(Mul(d.splits, d.totalq), d.heads))
        values == Saturated(Mul(rows, d.dim))
    IN
    When(d.splits >= 2,
         PagedSizes(d) \o <<AtLeast(Saturated(Mul(values, 4)), 1),
                            AtLeast(Saturated(Mul(rows, 4)), 1)>>)

(* FlashAttention lays out the parts with d.maxq rows for each sequence,   *)
(* which may be more than there are tokens.                                *)
SplitExecute(d) ==
    LET padded == d.batch * d.maxq
        rows == d.splits * padded * d.heads
        Part(bytes) == Within(padded <= d.totalq, bytes)
    IN
    [LaunchIf(PagedNative(d) /\ d.splits <= I32Max, StreamFirst,
              PagedTouches(d) \o <<Part(rows * d.dim * 4), Part(rows * 4)>>)
        EXCEPT !.unseen = {10, 11}]

-----------------------------------------------------------------------------
(* Sequences padded to one length, that attend to all their own keys: the  *)
(* number of them is that of their lengths.  d.in bytes an element.        *)

PaddedCreate(d) == d.heads # 0 /\ d.dim \in {64, 128}

PaddedLengths(d) == <<Some(d.in), Some(4), Some(d.in)>>

PaddedSizes(d) ==
    LET row    == Times(Times(d.heads, d.dim), d.in)
        tokens == Mul(d.sequences, d.length)
    IN
    When(Positive({d.sequences, d.length}),
         <<Of(Mul(tokens, Times(3, row)), 1), Of(d.sequences * 4, 1),
           Of(Mul(tokens, row), 1)>>)

PaddedExecute(d) ==
    LET hidden == d.sequences * d.length * d.heads * d.dim * d.in IN
    LaunchIf(Narrow({d.sequences, d.length, d.heads, d.dim}), StreamFirst,
        <<Indexed({3 * d.heads * d.dim}, 3 * hidden), d.sequences * 4,
          OfQueries(d, hidden)>>)
=============================================================================
