CONSTANTS
    s = 1
    E = 2
    b = 1
    TagBits = 4
    Addrs = {0, 2, 4, 8}
    MaxAccesses = 8
SPECIFICATION Spec
PROPERTY EvictsLeastRecent
CHECK_DEADLOCK FALSE
