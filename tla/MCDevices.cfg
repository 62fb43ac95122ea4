CONSTANTS
    j1 = j1
    j2 = j2
    Joints <- TwoJoints
    Items <- Moving
    DisabledOnStart = TRUE
    HasTimeout = TRUE
    Objects = {a, b}
    Files = {1, 2, 3, 4}
    Free = free
    Times = {0, 1}
    Frames <- TheFrames
    MaxFrames = 3
    Channels = 3
    CardChannels = 2
    kMaxRegsPerRead = 3
    kDefaultCommFailThreshold = 3
    MaxSamples = 3
    Climate = {"temperature", "light"}
    Layouts <- TheLayouts
    MaxUnderWay = 2
    Cores = {1, 2}
    MaxTime = 3
    Width = 4
SPECIFICATION DevicesSpec
INVARIANTS
    SafeUnlessEnabled
    StoppedIsSafe
    ResourcesFollowState
    FramesAreSent
    PublishedIsMeasured
PROPERTIES
    DrivenByCommand
    SilenceIsMadeSafe
    StopReturns
    OutputsFollowSources
CHECK_DEADLOCK FALSE
