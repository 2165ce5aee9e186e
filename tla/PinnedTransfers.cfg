CONSTANTS
    s1 = s1
    s2 = s2
    p1 = p1
    p2 = p2
    e1 = e1
    e2 = e2
    Streams = {s1, s2}
    Buffers = {p1}
    Events = {e1}
    MaxRecords = 2
    MaxQueue = 3
    DriverFaults = TRUE
SPECIFICATION Spec
INVARIANTS
    EventCoversTransfers
    HostAccessIsExclusive
CHECK_DEADLOCK FALSE
