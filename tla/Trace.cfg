SPECIFICATION FairSpec
CONSTANTS
    Threads = {t1, t2}
    NoThread = NoThread
    Policies = {"grow", "stop", "flush"}
    buffersize = 4
    Sizes = {1}
    MayClear = "quiet"
    MaxRecords = 3
    MaxFlushes = 2
INVARIANTS
    FlushExact
    ListComplete
PROPERTY
    CallsEnd
CHECK_DEADLOCK FALSE
