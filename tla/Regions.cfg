INIT BothInit
NEXT BothNext
CONSTANTS
    Threads = {t1, t2}
    Channels = {}
    Process = process
    Attrs = {a, b, u}
    Values = {v1, v2}
    ProcessScope = {a, b, u}
    AsValue = {}
    Unaligned = {u}
    SetAttrs = {u}
    AllowOverlap = FALSE
    None = None
    MaxDepth = 2
    LapThread = t1
    LapChannel = c
    LapAttrs = {a, b, x}
    LapAsValue = {x}
    LapSetAttrs = {a}
    LapDepth = 3
SYMMETRY ValueSymmetry
INVARIANTS StacksFaithful CurrentValueExact NestingExact ErrorIffMistake OverlapExact
