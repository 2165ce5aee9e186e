--------------------------- MODULE MCCublasLeases ---------------------------
(* Small instances of CublasLeases: a stream in each of two contexts.      *)
EXTENDS CublasLeases

CONSTANTS c1, c2, s1, s2, p1, p2, p3, h1, h2, h3, w1, w2

OneEach == [s \in Streams |-> IF s = s1 THEN c1 ELSE c2]
=============================================================================
