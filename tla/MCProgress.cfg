CONSTANTS
    w1 = w1
    w2 = w2
    c1 = c1
    c2 = c2
    c3 = c3
    t1 = t1
    t2 = t2
    t3 = t3
    camera = camera
    p1 = p1
    p2 = p2
    NoTask = NoTask
    NoPid = NoPid
    Workers <- TwoWorkers
    Clients <- TwoClients
    Tasks <- ThreeTasks
    Priority <- OneUrgent
    Drains <- Anyhow
SPECIFICATION ProgressSpec
CHECK_DEADLOCK FALSE
INVARIANTS
    ShutdownLeavesNothing
PROPERTIES
    ShutdownCompletes
    EveryExitIsReaped
    HungIsNoticed
    PostedCommandsRun
    WaitIdleMeansDone
    ImplementsTaskPool
    AcceptedTasksEnd
    WaitIdleReturnsOrDrops
    ShutdownReturns
