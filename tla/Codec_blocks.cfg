INIT CodecInit
NEXT CodecNext
CONSTANTS
    VlMax = 4
    IntMax = 1000
    BlockSize = 2
    MaxEntries = 6
    MoveBlk = 3
    Slack = 2
    CodecConfigs <- BlocksCfgs
INVARIANT NodesKept
CHECK_DEADLOCK FALSE
