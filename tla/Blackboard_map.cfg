SPECIFICATION FairSpec
CONSTANTS
    Nmax = 4
    Reserve = 2
    WordBits = 3
    Keys = {2, 3, 6, 7, 10}
    HiddenKeys = {}
    Values = {v1, v2}
    InvId = InvId
    NoEntry = NoEntry
    MaxUpdates = 4
INVARIANTS
    ProbeReaches
    
PROPERTIES
    ImplementsMap
    EveryCallReturns
