CONSTANTS
    Sockets = {s1, s2}
    Other = other
    Process = process
    Free = free
    Descriptors = {0, 1, 2, 3}
SPECIFICATION DescriptorsSpec
INVARIANTS OnlyItsOwn
CHECK_DEADLOCK FALSE
