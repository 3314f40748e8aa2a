INIT ServicesInit
NEXT ServicesNext
CONSTANTS
    main_thread = main_thread
    worker1 = worker1
    worker2 = worker2
    NoData = NoData
    MsThreads = {main_thread, worker1, worker2}
    MsMain = main_thread
    MsRegions = {"function", "loop"}
    PapiComponent <- MsComps
    PapiLists <- MsLists
    MAX_COUNTERS = 3
    LibpfmEvents <- MsLEvents
    MsMaxWork = 2
    MsMaxFaults = 2
    MsMaxOpen = 3
    MsSpawn <- MsSpawned
    Program <- CpStacks
    Internal = {"lib"}
    MAX_PATH = 2
    CpConfigs <- CpCfgs
    Symbols <- CpDebug
    CpMaxRecords = 3
    CpMaxFlushes = 2
    TdRecords <- DvTd
    PmRecords <- DvPcp
    DataSources <- DvBits
    Statms <- DvTexts
    Allocators <- DvAllocs
    Powers <- DvWatts
    AlConfigs <- AlCfgs
    MonConfigs <- MnCfgs
    AttrInfo <- MnAttributes
    MonMaxTime = 3
    MonMaxCount = 3
    SmConfigs <- SmCfgs
    SmMain = "main"
    ApiConfigs <- ApCfgs
    NoAttr = NoAttr
    ApiMaxObjs = 2
    ApiMaxChans = 2
    VlMax = 4
    IntMax = 1000
    BlockSize = 2
    MaxEntries = 6
    MoveBlk = 3
    Slack = 2
    CodecConfigs <- CoCfgs
    MpiConfigs <- MpCfgs
    MpiMaxOps = 3
    World = "world"
INVARIANTS
    MeasuredExact SymbolsExact  MemoryExact  NoSnapshotAfterFinish
      
CHECK_DEADLOCK FALSE
