CONSTANTS
    t1 = t1
    t2 = t2
    HostThreads = {t1, t2}
    Own = Own
    Other = Other
    Foreign = Foreign
    Nobody = Nobody
    I32Max = 8191
    U32Max = 16383
    UsizeMax = 268435455
    GridMax = 127
    Multiprocessors = 2
    RowCounts = {0, 1, 2, 129, 130}
    Threads = 2
    WarpSize = 1
    Worlds <- AllWorlds
SPECIFICATION FairSpec
INVARIANTS
    TypeOK
    LaunchFits
    LayersAgree
    BuffersAreFlagged
    WorkUsesLiveMemory
    NothingIsLeaked
    WorkReadsItsOwnCall
    RoutesAreBuckets
    RoutesStayInBounds
PROPERTIES
    ProjectionsEnd
CHECK_DEADLOCK FALSE
