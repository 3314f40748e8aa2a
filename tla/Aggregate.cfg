SPECIFICATION Spec
CONSTANTS
    m = m
    None = None
    w = w
    Threads = {m, w}
    Main = m
    Snapshots <- MCSnapshots
    Configs <- MCConfigs
    Attributes <- MCAttributes
    Existing <- MCExisting
    Nested = {"fn"}
    EntryHash <- MCEntryHash
    Buckets = 2
    Reserve = 4
    MaxKeyLen = 3
    MaxSnapshots = 3
    MaxFlushes = 2
CHECK_DEADLOCK FALSE
INVARIANTS AggregateExact ListExact
PROPERTIES FlushComplete
