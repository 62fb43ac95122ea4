CONSTANTS
    i1 = i1
    i2 = i2
    i3 = i3
    s1 = s1
    None = None
    Instances <- Three
    Stoppers <- OneStopper
    Exits <- CrashOrClean
SPECIFICATION LockSpec
SYMMETRY Symmetry
CHECK_DEADLOCK FALSE
INVARIANTS
    OneInstance
