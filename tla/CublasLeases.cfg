CONSTANTS
    c1 = c1
    c2 = c2
    s1 = s1
    s2 = s2
    p1 = p1
    p2 = p2
    p3 = p3
    h1 = h1
    h2 = h2
    h3 = h3
    w1 = w1
    w2 = w2
    Contexts = {c1, c2}
    Streams = {s1}
    ContextOf <- OneEach
    Plans = {p1, p2, p3}
    Handles = {h1, h2}
    Workspaces = {w1, w2}
    None = None
    MaxExecutes = 1
    MaxQueue = 2
    Failures = TRUE
SPECIFICATION FairSpec
INVARIANTS
    TypeOK
    HandlesLiveWithLeases
    HandleIsExclusive
    LaunchesInItsMode
    WorkspaceOutlivesWork
PROPERTIES
    ExecutesEnd
CHECK_DEADLOCK FALSE
