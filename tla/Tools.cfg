INIT ToolsInit
NEXT ToolsNext
CONSTANTS
    Texts <- QlTexts
    Threads = {1, 2}
    Cases <- QuCases
    NestedNames <- QuNested
    GlobalNames <- QuGlobal
    Services <- CmServices
    Strings <- CmStrings
    Files <- CmFiles
    Params <- CmParams
    UserSpecs <- CmUserSpecs
    UserOpts <- CmUserOpts
    MaxCalls = 3
    Single <- CmSingle
    Env <- RcEnv
    ConfigFiles <- RcConfigFiles
    BuiltinProfiles <- RcBuiltinProfiles
    ConfigSets <- RcSets
    Settings <- RcSettings
    RcMaxCalls = 4
INVARIANTS
    ParseExact  RewrittenExact  CheckPredictsAdd  
CHECK_DEADLOCK FALSE
