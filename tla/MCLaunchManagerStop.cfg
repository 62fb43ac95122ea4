CONSTANTS
    camera = camera
    tool = tool
    p1 = p1
    p2 = p2
    p3 = p3
    c1 = c1
    c2 = c2
    NoPid = NoPid
    Names <- OneName
    Pids <- MCPids
    Configured <- MCConfigured
    Config <- LimitedConfig
    ApiSpecs <- MCApiSpecs
    RestartLimits <- MCLimits
    MaxCount = 1
    ForkMayFail = FALSE
    Clients <- OneClient
    Requests <- OneRequest
SPECIFICATION LMSpec
CHECK_DEADLOCK FALSE
PROPERTIES
    StopIsForced
