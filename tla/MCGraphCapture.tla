--------------------------- MODULE MCGraphCapture ---------------------------
(* Small instances of GraphCapture.                                        *)
EXTENDS GraphCapture, TLC

CONSTANTS s1, s2, g1, g2, h1, h2, b1, b2, b3
(* Buffers, handles, graphs, and streams used alike, are interchangeable.  *)
Symmetry ==
    Permutations(Buffers) \cup Permutations(Handles) \cup Permutations(Graphs)
        \cup Permutations(Streams)
=============================================================================
