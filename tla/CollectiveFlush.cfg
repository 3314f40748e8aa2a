SPECIFICATION FairSpec
CONSTANTS
    CommSizes = {1, 3, 4}
    MaxFlushes = 2
CHECK_DEADLOCK FALSE
INVARIANTS OutputExact
PROPERTIES AllFinish
