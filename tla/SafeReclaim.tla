----------------------------- MODULE SafeReclaim -----------------------------
(***************************************************************************)
(* What stream-ordered device memory promises its callers, without queues, *)
(* flags or synchronizations: an allocation has an owner, workers (CUDA    *)
(* streams) use it, and it is given back only when it has no owner and no  *)
(* worker uses it.  "Cloning this handle retains the same CUDA allocation" *)
(* and cross-stream launches "are tracked for safe destruction"            *)
(* (src/memory/mod.rs).                                                    *)
(***************************************************************************)
CONSTANTS Buffers, Workers

VARIABLES
    life,  \* the life of each allocation
    inUse  \* <<buffer, worker>>: the worker has work that uses the buffer

avars == <<life, inUse>>

(* A buffer has one life, and workers use buffers.                         *)
AbstractTypeOK ==
    /\ life \in [Buffers -> {"none", "owned", "abandoned", "reclaimed"}]
    /\ inUse \in SUBSET (Buffers \X Workers)

AbstractInit ==
    /\ life = [b \in Buffers |-> "none"]
    /\ inUse = {}

(* A fresh allocation, which its worker may at once start to clear.        *)
Acquire(b) ==
    /\ life[b] = "none"
    /\ life' = [life EXCEPT ![b] = "owned"]
    /\ \/ UNCHANGED inUse
       \/ \E w \in Workers : inUse' = inUse \cup {<<b, w>>}

(* Only owned buffers are given to a worker.                               *)
Begin(B, w) ==
    /\ \A b \in B : life[b] = "owned"
    /\ inUse' = inUse \cup {<<b, w>> : b \in B}
    /\ UNCHANGED life

Finish(w) ==
    /\ \E done \in SUBSET Buffers : inUse' = inUse \ {<<b, w>> : b \in done}
    /\ UNCHANGED life

Abandon(b) ==
    /\ life[b] = "owned"
    /\ life' = [life EXCEPT ![b] = "abandoned"]
    /\ UNCHANGED inUse

Reclaim(b) ==
    /\ life[b] = "abandoned"
    /\ \A w \in Workers : <<b, w>> \notin inUse
    /\ life' = [life EXCEPT ![b] = "reclaimed"]
    /\ UNCHANGED inUse

AbstractNext ==
    \/ \E b \in Buffers : Acquire(b) \/ Abandon(b) \/ Reclaim(b)
    \/ \E w \in Workers : Finish(w) \/ \E B \in SUBSET Buffers : Begin(B, w)

AbstractSpec == AbstractInit /\ [][AbstractNext]_avars
=============================================================================
