CONSTANTS
    i1 = i1
    i2 = i2
    i3 = i3
    i4 = i4
    None = None
    Instances <- Four
    Stoppers = {stopper}
    Exits = {"crash", "clean"}
    MaxContexts = 3
    NoContext = 0
    c1 = c1
    c2 = c2
    Clients <- TheClients
    Requests <- TheRequests
    MaxCalls = 3
    mode = mode
    robot_id = robot_id
    new = new
    NoName = NoName
    Defaults <- TheDefaults
    MaxStarts = 2
    Sockets = {s1, s2}
    Other = other
    Process = process
    Free = free
    Descriptors = {0, 1, 2, 3}
    Length = 2
    Messages = 3
    Capacity = 3
    Waiters = {t1, t2, t3}
    Writers = {t1, t2}
    LoggerNames = {node, openember}
    DefaultName = openember
    MaxLoggers = 4
    LogLevel = 2
    TopicLevel = 3
    RateLimit = 2
    MaxCallbacks = 3
    Absent = Absent
    Malformed = Malformed
    Unread = Unread
    Rejected = Rejected
    HardwareFiles <- TheHardwareFiles
    LaunchFiles <- TheLaunchFiles
SPECIFICATION FoundationSpec
INVARIANTS
    OneSession
    NothingLeaks
    WholeMessages
    NoSleeperMisses
    LockFileHolds
    LogsAreKept
    TakenFilesAreSound
PROPERTIES
    ParametersAreTold
    RefusedForAReason
SYMMETRY Alike
CHECK_DEADLOCK FALSE
