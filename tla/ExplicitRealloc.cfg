CONSTANTS
    HeapWords = 28
    StaticWords = 4
    CHUNKSIZE = 8
    InitWords = 8
    Ids = {101, 102, 103}
    Requests = {2, 4, 8}
SPECIFICATION Spec
INVARIANTS ListedBlocksFree
CHECK_DEADLOCK FALSE
