SPECIFICATION FairSpec
CONSTANTS
    t1 = t1
    t2 = t2
    k1 = k1
    k2 = k2
    Threads <- MCThreads
    Keys <- MCKeys
    Blocks <- OneBlock
    StackBytes <- ZeroedStack
    Capacity = 1
    MaxObjectBlocks = 12
PROPERTY
    EvictionCompletes
CHECK_DEADLOCK FALSE
