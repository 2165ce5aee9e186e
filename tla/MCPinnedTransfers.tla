------------------------- MODULE MCPinnedTransfers -------------------------
(* Small instances of PinnedTransfers.                                     *)
EXTENDS PinnedTransfers

CONSTANTS s1, s2, p1, p2, e1, e2
=============================================================================
