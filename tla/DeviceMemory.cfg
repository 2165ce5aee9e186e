CONSTANTS
    c1 = c1
    c2 = c2
    s1 = s1
    s2 = s2
    s3 = s3
    b1 = b1
    b2 = b2
    Contexts = {c1, c2}
    Streams = {s1, s2, s3}
    Buffers = {b1, b2}
    ContextOf <- TwoContexts
    ForeignStreams = {s2}
    NoStream = NoStream
    MaxHandles = 2
    MaxQueue = 2
    DriverFaults = TRUE
SPECIFICATION Spec
INVARIANTS
    IInv
    NoUseAfterFree
    FreedOnce
CHECK_DEADLOCK FALSE
