--------------------------- MODULE MCDeviceMemory ---------------------------
(* Small instances of DeviceMemory: two streams of one context and one of  *)
(* another.                                                                *)
EXTENDS DeviceMemory

CONSTANTS c1, c2, s1, s2, s3, b1, b2

TwoContexts == [s \in Streams |-> IF s = s3 THEN c2 ELSE c1]
OneContext  == [s \in Streams |-> c1]
=============================================================================
