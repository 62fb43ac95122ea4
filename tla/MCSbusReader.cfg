CONSTANTS
    Frames <- TheFrames
    MaxFrames = 3
SPECIFICATION SbusSpec
INVARIANTS
    ChannelsAreExact
CHECK_DEADLOCK FALSE
