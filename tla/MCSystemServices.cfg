CONSTANTS
    imu = imu
    temp = temp
    Ids <- Both
    Diagnosed <- Both
    Devices <- Both
    None = None
    Configs <- TheConfigs
    Deployments <- TheDeployments
    InfoInterval = 2
    StaleAfter = 1
    MaxStarts = 2
    WireCapacity = 1
    MaxLost = 1
SPECIFICATION FairSpec
INVARIANTS
    EndedIsStopped
PROPERTIES
    SignalEnds
    DeadIsStale
    LiveIsReported
    RegistriesAreCurrent
CHECK_DEADLOCK FALSE
