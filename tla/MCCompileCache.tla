--------------------------- MODULE MCCompileCache ---------------------------
(* Small instances of CompileCache: two threads of one compiler, one of    *)
(* another that shares the artifact directory.                             *)
EXTENDS CompileCache

CONSTANTS c1, c2, t1, t2, t3, r1, k1, p1

Assigned == [t \in Threads \cup Readers |-> IF t = t3 THEN c2 ELSE c1]
=============================================================================
