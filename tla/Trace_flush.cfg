SPECIFICATION Spec
CONSTANTS
    Threads = {t1, t2}
    NoThread = NoThread
    Policies = {"flush"}
    buffersize = 4
    Sizes = {1}
    MayClear = "never"
    MaxRecords = 3
    MaxFlushes = 1
INVARIANT
    RoomMade
CHECK_DEADLOCK FALSE
