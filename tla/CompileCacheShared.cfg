CONSTANTS
    c1 = c1
    c2 = c2
    t1 = t1
    t2 = t2
    t3 = t3
    r1 = r1
    k1 = k1
    p1 = p1
    Compilers = {c1, c2}
    Threads = {t1, t2, t3}
    Readers = {r1}
    CompilerOf <- Assigned
    Persistent = {c1, c2}
    SourceKeys = {k1}
    PtxKeys = {p1}
    Nobody = Nobody
    MaxCalls = 1
    MaxCrashes = 0
    Corruptible = {k1}
    Failures = {"read", "load", "remove"}
SPECIFICATION FairSpec
INVARIANTS
    SnapshotCountsLoaded
PROPERTIES
    RemovedIsReplaced
CHECK_DEADLOCK FALSE
