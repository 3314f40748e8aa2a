SPECIFICATION Spec
CONSTANTS
    Threads = {t1, t2}
    Channels = {}
    Process = process
    Attrs = {a}
    Values = {v1}
    ProcessScope = {a}
    AsValue = {}
    Unaligned = {}
    SetAttrs = {}
    AllowOverlap = FALSE
    None = None
    MaxDepth = 2
INVARIANTS
    SharedStacksFaithful
