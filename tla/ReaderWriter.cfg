SPECIFICATION FairLockSpec
CONSTANTS
    t1 = t1
    t2 = t2
    t3 = t3
    t4 = t4
    Threads <- MCThreads
INVARIANTS
    LockTypeOK
    Exclusive
    CountExact
    WOwned
PROPERTIES
    ReaderNotOvertakenForever
    SomebodyEnters
    ImplementsRWLock
