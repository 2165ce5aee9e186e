CONSTANTS
    s1 = s1
    s2 = s2
    p1 = p1
    p2 = p2
    e1 = e1
    e2 = e2
    Streams = {s1, s2}
    Buffers = {p1}
    Events = {e1}
    MaxRecords = 2
    MaxQueue = 4
    DriverFaults = FALSE
SPECIFICATION Spec
INVARIANTS
    AccessFollowsPriorTransfers
CHECK_DEADLOCK FALSE
