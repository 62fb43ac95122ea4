CONSTANTS
    camera = camera
    tool = tool
    p1 = p1
    p2 = p2
    p3 = p3
    c1 = c1
    c2 = c2
    NoPid = NoPid
    Names <- MCNames
    Pids <- ThreePids
    Configured <- MCConfigured
    Config <- LimitedConfig
    ApiSpecs <- MCApiSpecs
    RestartLimits <- MCLimits
    MaxCount = 1
    ForkMayFail = TRUE
    Clients <- MCClients
    Requests <- MCRequests
SPECIFICATION LMSpec
CHECK_DEADLOCK FALSE
SYMMETRY Symmetry
INVARIANTS
    TableMatchesChildren
    ShutdownStopsEverything
    DownForAReason
    StopRequestHolds
    NoChildLeftBehind
    EachCommandOnce
PROPERTIES
    OrderedStopIsFinal
