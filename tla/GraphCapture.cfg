CONSTANTS
    s1 = s1
    s2 = s2
    g1 = g1
    g2 = g2
    h1 = h1
    h2 = h2
    b1 = b1
    b2 = b2
    b3 = b3
    Streams = {s1, s2}
    Graphs = {g1, g2}
    Handles = {h1, h2}
    Buffers = {b1, b2}
    NoStream = NoStream
    NoHandle = NoHandle
    MaxQueue = 1
    Failures = TRUE
SYMMETRY Symmetry
SPECIFICATION Spec
INVARIANTS
    TypeOK
    WorkIsRetained
    ReplaysUseLiveMemory
    CaptureEndsWithItsCall
    HandlesAreAccountedFor
CHECK_DEADLOCK FALSE
