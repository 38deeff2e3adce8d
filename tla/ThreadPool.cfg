SPECIFICATION FairSpec
CONSTANTS
    w1 = w1
    w2 = w2
    w3 = w3
    Workers <- MCWorkers
    N = 2
    MaxConns = 4
    NTHREADS = 1
    THREAD_LIMIT = 2
INVARIANTS
    SlotsAccounted
    NoConnectionLost
    PoolSound
PROPERTIES
    ImplementsConnQueue
    CancelsLiveWorkers
    EveryConnectionServed
    CancelledWorkersEnd
