CONSTANTS
    c1 = c1
    c2 = c2
    t1 = t1
    t2 = t2
    t3 = t3
    r1 = r1
    k1 = k1
    p1 = p1
    Compilers = {c1, c2}
    Threads = {t1, t2, t3}
    Readers = {}
    CompilerOf <- Assigned
    Persistent = {c1, c2}
    SourceKeys = {k1}
    PtxKeys = {p1}
    Nobody = Nobody
    MaxCalls = 1
    MaxCrashes = 1
    Corruptible = {k1}
    Failures = {"nvrtc", "ptx", "read", "load", "remove", "write"}
SPECIFICATION FairSpec
INVARIANTS
    TypeOK
    OneLoadPerKey
    ArtifactsAreWhole
PROPERTIES
    CallsEnd
CHECK_DEADLOCK FALSE
