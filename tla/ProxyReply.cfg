SPECIFICATION Spec
CONSTANTS
    t1 = t1
    t2 = t2
    k1 = k1
    k2 = k2
    Threads <- MCThreads
    Keys <- MCKeys
    Blocks <- UpToTwoBlocks
    StackBytes <- ZeroedStack
    Capacity = 3
    MaxObjectBlocks = 12
INVARIANT
    HitIsServersResponse
CHECK_DEADLOCK FALSE
