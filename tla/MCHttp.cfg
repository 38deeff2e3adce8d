CONSTANTS
    Proxied <- MCProxied
    Direct <- MCDirect
    Requests <- MCRequests
    LineStreams <- MCRequests
    Streams <- MCStreams
    ReplyTo <- MCReplyTo
    Scripts <- MCScripts
    RequestLines <- MCRequestLines
    Added <- MCAdded
    TinysAddresses <- MCAddresses
    AtStart <- MCAtStart
    MAXLINE = 4
    RIO_BUFSIZE = 4
SPECIFICATION FairSpec
INVARIANTS
    RequestForwarded
    ReplyRelayed
    FaultsContained
CHECK_DEADLOCK FALSE
PROPERTIES
    ReadsInOrder
    EveryoneServed
