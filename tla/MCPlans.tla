------------------------------ MODULE MCPlans -------------------------------
(***************************************************************************)
(* Small instances of Plans: one plan or call of every kind in a choice of *)
(* shapes, at and beyond the limits of its constructor and of the layer    *)
(* below; plans called several times; two projections that share a         *)
(* scratch; and rows that select experts.                                  *)
(***************************************************************************)
EXTENDS Plans, PlanKinds

CONSTANTS t1, t2

Cubes(M, N, K) == [m : M, n : N, k : K]

Denses ==
    {d @@ [in |-> 2, out |-> o] :
        d \in Cubes({0, 3, 8191, 8192}, {5}, {64, 8191}), o \in {2, 4}}
    \cup {[m |-> 1, n |-> 1, k |-> 1, in |-> 4, out |-> 4]}

Vectors     == [n : {1, 8192}, k : {8, 8191}, in : {2, 4}]
Fp4s        == Cubes({1, 128, 129}, {1, 257}, {64, 192, 96})
Fp4Vectors  == [n : {1, 128, 200}, k : {64, 320, 100}]
Fp8Vectors  == [n : {128, 384, 200}, k : {128, 256}]
Mxfp8s      == Cubes({1, 129}, {128, 130}, {128, 384, 64})
Scaleds     == {d @@ [scale |-> s, channels |-> c, bias |-> c] :
                   d \in Cubes({1, 8192}, {16, 24}, {32}), s \in {2, 4},
                   c \in BOOLEAN}

Matrices ==
    {Dense(d) : d \in Denses} \cup {Vector(d) : d \in Vectors}
    \cup {Fp4(d) : d \in Fp4s} \cup {Fp4Vector(d) : d \in Fp4Vectors}
    \cup {Fp8Vector(d) : d \in Fp8Vectors} \cup {Mxfp8(d) : d \in Mxfp8s}
    \cup {Scaled(d) : d \in Scaleds}

View(leading, stride, transposed, offset) ==
    [leading |-> leading, stride |-> stride, transposed |-> transposed,
     offset |-> offset]

(* Two products of parts of rows; a leading dimension as wide as a row, as *)
(* what remains of a wider one, and as less than a row.                    *)
Gemms ==
    {[m |-> 2, n |-> 3, k |-> 4, batch |-> 2, in |-> 2, out |-> 4,
      left |-> View(7, 9, x, 1), right |-> View(l, s, y, 2),
      output |-> View(3, 6, FALSE, 0)] :
        x, y \in BOOLEAN, s \in {0, 5, UsizeMax \div 2},
        l \in {3, 4, U32Max + 5, U32Max + 2}}

Cublases == {d @@ [bytes |-> b] :
                d \in Cubes({0, 3, 8192}, {5}, {7, 8191}), b \in {2, 4}}
Lts      == Cubes({3, 8191}, {8191}, {7, 8191})

Vendor ==
    {Cublas(d) : d \in Cublases} \cup UNION {{LtBf16(d), LtFp8(d)} : d \in Lts}
    \cup {Gemm(d) : d \in Gemms}

Groupeds ==
    [groups : {1, 3}, matrices : {1, 2}, m : {1, 129}, n : {130},
     k : {64, 96}, broadcast : BOOLEAN]
    \cup {[groups |-> 1, matrices |-> 9, m |-> 1, n |-> 8128, k |-> 8128,
           broadcast |-> TRUE],
          [groups |-> 1, matrices |-> 1, m |-> 1, n |-> 8, k |-> 64,
           broadcast |-> FALSE]}

Bf16s ==
    [groups : {1, 2}, max : {130, 8192}, n : {8}, k : {8, 12},
     capacity : {130, 300}]
    \cup [groups : {1}, max : {1}, n : {8}, k : {8}, capacity : {1}]

Fp4Grouped ==
    [groups : {1, 3}, matrices : {2}, max : {130, 8192}, n : {130}, k : {64},
     capacity : {2, 131, 300}]

Pairs ==
    [groups : {2, 4096}, matrices : {2}, max : {130}, n : {4}, k : {64},
     capacity : {131}]

Groups ==
    {Grouped(d) : d \in Groupeds} \cup {Bf16Groups(d) : d \in Bf16s}
    \cup {Fp4Groups(d) : d \in Fp4Grouped} \cup {Paired(d) : d \in Pairs}

Fixeds ==
    {[heads |-> 2, kv |-> 1, dim |-> w, vdim |-> w, queries |-> q,
      context |-> c, first |-> f, acc |-> a] :
        w \in {64, 256, 512, 96}, q \in {0, 3}, c \in {2, 5}, f \in {0, 2},
        a \in BOOLEAN}

Varlens ==
    {[heads |-> 2, kv |-> k, dim |-> w, vdim |-> w, batch |-> b,
      totalq |-> 5, totalc |-> 6, maxq |-> q, maxc |-> c] :
        k \in {1, 3}, w \in {64, 512}, b \in {0, 2}, q \in {0, 3},
        c \in {4, 7}}

(* A query for every sequence, and more sequences than queries.            *)
Pages ==
    [heads : {2}, kv : {1, 2}, dim : {64, 512}, vdim : {64, 512},
     batch : {2}, totalq : {2, 4}, maxq : {1, 3}, maxc : {2, 32, 33},
     blocks : {2}, page : {16}, pages : {3}, visible : {0, 5}]
    \cup [heads : {2}, kv : {1, 2}, dim : {64}, vdim : {64}, batch : {2},
          totalq : {1}, maxq : {1}, maxc : {2}, blocks : {2}, page : {16},
          pages : {3}, visible : {0}]

Splits ==
    {d @@ [splits |-> n] : d \in {p \in Pages : p.visible = 0}, n \in {1, 2}}

Paddeds ==
    [heads : {2}, dim : {64, 80}, in : {2, 4}, sequences : {0, 2},
     length : {0, 3}]

Attention ==
    {Fixed(d) : d \in Fixeds} \cup {Varlen(d) : d \in Varlens}
    \cup {Paged(d) : d \in Pages} \cup {Split(d) : d \in Splits}
    \cup {Padded(d) : d \in Paddeds}

Matmuls    == [tokens : {1, 4, 5, 509}, rows : {1, 3}, columns : {32, 48, 96}]
Gathers    == [inputs : {1, 64}, each : {1, 2}, matrices : {1, 3}, rows : {3},
               columns : {32}, bias : BOOLEAN]
Embeddings == [vocab : {5}, hidden : {32, 40}, start : {0, 2}, tokens : {0, 3}]
Quantizes  == Cubes({1, 127, 128}, {1}, {128, 384})
Swizzles   == Cubes({1, 130}, {1}, {128, 384})

Kernels ==
    {Matmul(d) : d \in Matmuls} \cup {Gathered(d) : d \in Gathers}
    \cup {Embedding(d) : d \in Embeddings}
    \cup {Quantize(d) : d \in Quantizes} \cup {Swizzle(d) : d \in Swizzles}

Moes ==
    [experts : {1, 4}, tokens : {3, 17}, topk : {1, 2}, n : {128}, k : {128},
     block : {8, 64}, tilen : {128}, tilek : {128}, mx : BOOLEAN]

Padding ==
    [experts : {2}, n : {64}, k : {64}, ln : {48, 63, 64}, lk : {32, 64},
     interleaved : BOOLEAN]

Repacks == [experts : {2}, n : {64, 96}, k : {32}, pair : BOOLEAN]

Marlins ==
    {Repack(d) : d \in Repacks}
    \cup {Factors(d) : d \in {r \in Repacks : r.n = 64}}
    \cup UNION {{MxRepack(d), MxFactors(d)} : d \in Padding}
    \cup {Moe(d) : d \in Moes}
    \cup UNION {{Routes(d), One(d)} : d \in {e \in Moes : ~e.mx}}

-----------------------------------------------------------------------------
NoRoutes == [experts |-> 1, block |-> 1, selections |-> {}]

Alone(shape, most) ==
    [shapes |-> <<shape>>, threads |-> {t1}, calls |-> most,
     shared |-> FALSE, routes |-> NoRoutes]

ShapeWorlds ==
    {Alone(shape, 1) : shape \in Matrices \cup Vendor \cup Groups
                           \cup Attention \cup Kernels \cup Marlins}

CallWorlds ==
    {Alone(Grouped([m |-> 1, n |-> 8, k |-> 64, groups |-> 1, matrices |-> 1,
                    broadcast |-> FALSE]), 2),
     Alone(Bf16Groups([groups |-> 1, max |-> 1, n |-> 8, k |-> 8,
                       capacity |-> 1]), 2)}

Shared == Cubes({1}, {1, 2}, {128})

SharedWorlds ==
    {[shapes |-> <<Mxfp8([m |-> 1, n |-> 1, k |-> 128]),
                   Mxfp8([m |-> 1, n |-> 2, k |-> 128])>>,
      threads |-> HostThreads, calls |-> 2, shared |-> TRUE,
      routes |-> NoRoutes]}

(* Three rows, in blocks of two, that select any of the experts or one     *)
(* that is not there; with three experts the offsets come from the serial  *)
(* loop.                                                                   *)
Routings ==
    [experts : 1..3, tokens : {3}, topk : {1}, n : {64}, k : {64}, block : {2},
     tilen : {64}, tilek : {64}, mx : {FALSE}]

RouteWorlds ==
    {[Alone(Routes(d), 1) EXCEPT !.routes =
         [experts |-> d.experts, block |-> d.block,
          selections |-> [0..2 -> 0..d.experts]]] : d \in Routings}

AllWorlds == ShapeWorlds \cup CallWorlds \cup SharedWorlds \cup RouteWorlds

(* Every shape has numbers that the theorems about all shapes speak of.    *)
ASSUME ShapesAreOfKinds ==
    /\ Denses \subseteq DenseDims /\ Vectors \subseteq VectorDims
    /\ Fp4s \subseteq Fp4Dims /\ Fp4Vectors \subseteq Fp4VectorDims
    /\ Fp8Vectors \subseteq Fp8VectorDims /\ Scaleds \subseteq ScaledDims
    /\ Mxfp8s \cup Shared \cup Quantizes \cup Swizzles \subseteq Mxfp8Dims
    /\ Groupeds \subseteq GroupedDims /\ Bf16s \subseteq Bf16GroupsDims
    /\ Fp4Grouped \cup Pairs \subseteq Fp4GroupsDims
    /\ Cublases \subseteq CublasDims /\ Lts \subseteq LtDims
    /\ Gemms \subseteq GemmDims /\ Fixeds \subseteq FixedDims
    /\ Varlens \subseteq VarlenDims /\ Paddeds \subseteq PaddedDims
    /\ Pages \subseteq PagedDims /\ Splits \subseteq SplitDims
    /\ Matmuls \subseteq MatmulDims /\ Gathers \subseteq GatheredDims
    /\ Embeddings \subseteq EmbeddingDims /\ Repacks \subseteq RepackDims
    /\ Padding \subseteq MxRepackDims /\ Moes \subseteq MoeDims
    /\ Routings \cup Moes \subseteq RoutesDims
=============================================================================
