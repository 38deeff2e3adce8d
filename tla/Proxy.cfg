SPECIFICATION Spec
CONSTANTS
    t1 = t1
    t2 = t2
    k1 = k1
    k2 = k2
    Threads <- MCThreads
    Keys <- MCKeys
    Blocks <- OneBlock
    StackBytes <- ZeroedStack
    Capacity = 3
    MaxObjectBlocks = 12
INVARIANTS
    ChainSound
    HitHasKey
PROPERTIES
    FullCacheStops
    ImplementsRecencyList
SYMMETRY Interchangeable
CHECK_DEADLOCK FALSE
