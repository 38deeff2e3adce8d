------------------------------ MODULE LRUCache ------------------------------
(***************************************************************************)
(* The proxy's cache (lrucache.c): an array cachemap of at most            *)
(* total_capacity nodes, chained by recency between head and tail, used    *)
(* under the reader-writer lock of module ReaderWriter.                    *)
(*                                                                         *)
(* at[t] is the critical section thread t is in or heads for.  The body of *)
(* a section is one step with the first store of the unlock that ends it;  *)
(* the lock is taken and released in the steps of ReaderWriter.            *)
(*                                                                         *)
(* Time stamps are only ever compared with 0, which no stored one is, and  *)
(* are left out.                                                           *)
(***************************************************************************)
EXTENDS ReaderWriter, Sequences

CONSTANTS
    Keys,           \* (host, port, path) triples
    Capacity        \* total_capacity, MAX_CACHE_CAPACITY

ASSUME CacheAssumption == Capacity \in Nat \ {0}

NULL == 0
NoPos == -1
NoKey == "no key"
Positions == 0..Capacity-1
\* Nodes are numbered as they are allocated.  A node beyond the capacity is
\* the one whose insertion finds the cache full.
Nodes == 1..Capacity+1
HeadNode == -1
TailNode == -2
Links == Nodes \cup {HeadNode, TailNode}

VARIABLES
    cachemap,           \* cachemap[p]: the node at position p, or NULL
    next, prev,         \* the chain
    nodeKey, nodeValue, \* what a node holds
    current_capacity,
    at, op,             \* op[t]: in lRUCacheGet or in lRUCachePut
    key, value,         \* their arguments
    pos, node           \* their locals

cacheVars == <<cachemap, next, prev, nodeKey, nodeValue, current_capacity>>
callVars == <<at, op, key, value, pos, node>>
lruVars == <<lockVars, cacheVars, callVars>>

ReaderSections == {"scan", "fetch"}
WriterSections == {"stamp", "move", "insert"}
Sections == ReaderSections \cup WriterSections \cup {"seen", "evict"}

CacheInit ==                                            \* lRUCacheCreate
    /\ LockInit
    /\ cachemap = [p \in Positions |-> NULL]
    /\ next = [l \in Links |-> IF l = HeadNode THEN TailNode ELSE l]
    /\ prev = [l \in Links |-> IF l = TailNode THEN HeadNode ELSE l]
    /\ nodeKey = [n \in Nodes |-> NoKey]
    /\ nodeValue = [n \in Nodes |-> <<>>]
    /\ current_capacity = 0

-----------------------------------------------------------------------------
\* A call goes on to another section, or to a step outside the cache.
GoOn(t, s) == at' = [at EXCEPT ![t] = s]

EnterSection(t) ==
    /\ \/ at[t] \in ReaderSections /\ CallLockReader(t)
       \/ at[t] \in WriterSections /\ CallLockWriter(t)
    /\ UNCHANGED <<cacheVars, callVars>>

InsideLock(t) ==
    /\ LockStep(t)
    /\ UNCHANGED <<cacheVars, callVars>>

\* get_cache_pos: the first position that holds the key.
Matches(k) == {p \in Positions : cachemap[p] # NULL /\ nodeKey[cachemap[p]] = k}

FirstMatch(k) ==
    IF Matches(k) = {} THEN NoPos
    ELSE CHOOSE p \in Matches(k) : \A q \in Matches(k) : p <= q

Scan(t) ==
    LET p == FirstMatch(key[t])
    IN  /\ at[t] = "scan"
        /\ UnlockReader(t)
        /\ pos' = [pos EXCEPT ![t] = p]
        /\ GoOn(t, IF p # NoPos THEN "seen" ELSE IF op[t] = "get" THEN "miss" ELSE "insert")
        /\ UNCHANGED <<cacheVars, op, key, value, node>>

\* The test of the position found, made without the lock.
Recheck(t) ==
    /\ at[t] = "seen" /\ lk[t] = "idle"
    /\ GoOn(t, IF cachemap[pos[t]] # NULL THEN "stamp" ELSE "fetch")
    /\ UNCHANGED <<lockVars, cacheVars, op, key, value, pos, node>>

Stamp(t) ==                                             \* timestamp = now
    /\ at[t] = "stamp"
    /\ UnlockWriter(t)
    /\ GoOn(t, "fetch")
    /\ UNCHANGED <<cacheVars, op, key, value, pos, node>>

Fetch(t) ==                                             \* node = cachemap[pos]
    /\ at[t] = "fetch"
    /\ UnlockReader(t)
    /\ node' = [node EXCEPT ![t] = cachemap[pos[t]]]
    /\ GoOn(t, "move")
    /\ UNCHANGED <<cacheVars, op, key, value, pos>>

\* A slip: the node is linked in front without being unlinked first.
MoveToHeadLinked(n) ==
    /\ next' = [next EXCEPT ![n] = next[HeadNode], ![HeadNode] = n]
    /\ prev' = [prev EXCEPT ![n] = HeadNode, ![next[HeadNode]] = n]

\* MoveToHead, its six stores in order.  Links are read as the stores before
\* them left them.
Unlinked(n) ==
    <<[next EXCEPT ![prev[n]] = next[n]], [prev EXCEPT ![next[n]] = prev[n]]>>

MoveToHead(n) ==
    LET nx == Unlinked(n)[1]
        pv == Unlinked(n)[2]
    IN  /\ next' = [nx EXCEPT ![n] = nx[HeadNode], ![HeadNode] = n]
        /\ prev' = [pv EXCEPT ![n] = HeadNode, ![nx[HeadNode]] = n]

\* A hit: the node moves to the front.  lRUCachePut stores the new value only
\* in a node without one, and every node has one.
Move(t) ==
    /\ at[t] = "move"
    /\ UnlockWriter(t)
    /\ MoveToHead(node[t])
    /\ GoOn(t, IF op[t] = "get" THEN "hit" ELSE "done")
    /\ UNCHANGED <<cachemap, nodeKey, nodeValue, current_capacity,
                   op, key, value, pos, node>>

CreateAfterHead(n) ==
    /\ next' = [next EXCEPT ![n] = next[HeadNode], ![HeadNode] = n]
    /\ prev' = [prev EXCEPT ![n] = HeadNode, ![next[HeadNode]] = n]

Free == {p \in Positions : cachemap[p] = NULL}
\* A slip: the array is not searched.
PositionZero == 0

get_free_cache_pos == CHOOSE p \in Free : \A q \in Free : p <= q

\* lRUCachePut of a key that was not found, with room left.
Insert(t) ==
    LET n == current_capacity + 1
    IN  /\ at[t] = "insert"
        /\ current_capacity < Capacity
        /\ UnlockWriter(t)
        /\ nodeKey' = [nodeKey EXCEPT ![n] = key[t]]
        /\ nodeValue' = [nodeValue EXCEPT ![n] = value[t]]
        /\ current_capacity' = current_capacity + 1
        /\ CreateAfterHead(n)
        /\ cachemap' = [cachemap EXCEPT ![get_free_cache_pos] = n]
        /\ GoOn(t, "done")
        /\ UNCHANGED <<op, key, value, pos, node>>

\* With the cache full, DeleteFromTail comes first.  Its first statement calls
\* get_cache_pos, which calls lock_reader: P(&mutex), then P(&w), and w is the
\* caller's own since lock_writer.  What DeleteFromTail does after that call
\* is not modelled, for no thread ever gets there.
\* A slip in the other direction: the eviction gives the lock back first.
InsertIntoFullUnlocked(t) ==
    /\ at[t] = "insert"
    /\ current_capacity >= Capacity
    /\ UnlockWriter(t)
    /\ GoOn(t, "evict")
    /\ UNCHANGED <<cacheVars, op, key, value, pos, node>>

InsertIntoFull(t) ==
    LET n == current_capacity + 1
    IN  /\ at[t] = "insert"
        /\ current_capacity >= Capacity
        /\ GoTo(t, "writing", "rLock")
        /\ nodeKey' = [nodeKey EXCEPT ![n] = key[t]]
        /\ nodeValue' = [nodeValue EXCEPT ![n] = value[t]]
        /\ GoOn(t, "evict")
        /\ UNCHANGED <<mutex, w, readcnt, isPrevWrite, cachemap, next, prev,
                       current_capacity, op, key, value, pos, node>>

CacheStep(t) ==
    \/ EnterSection(t) \/ InsideLock(t)
    \/ Scan(t) \/ Recheck(t) \/ Stamp(t) \/ Fetch(t) \/ Move(t)
    \/ Insert(t) \/ InsertIntoFull(t)

-----------------------------------------------------------------------------
\* The links met on the way from head, one next after another.
Walk(nx) ==
    LET walk[k \in 0..Capacity] == IF k = 0 THEN nx[HeadNode] ELSE nx[walk[k-1]]
    IN  walk

\* The nodes between head and tail, in the order of the chain, read forwards.
ChainOf(nx) ==
    LET length == Cardinality({k \in 0..Capacity : \A j \in 0..k : Walk(nx)[j] \in Nodes})
    IN  [k \in 1..length |-> Walk(nx)[k-1]]

Chain == ChainOf(next)

Mapped == {cachemap[p] : p \in Positions} \ {NULL}

\* lRUCachePut looks the key up and inserts it in two critical sections, so
\* threads that miss together insert it more than once; but each thread adds
\* one node for a key at most, however long the proxy runs.
DuplicatesBounded ==
    \A k \in Keys : Cardinality(Matches(k)) <= Cardinality(Threads)

\* The chain and the array hold the same nodes, each once, current_capacity of
\* them; next and prev are inverse to one another along the chain; and the
\* duplicates of a key stay bounded.
ChainSound ==
    LET inChain == {Chain[k] : k \in 1..Len(Chain)}
    IN  /\ inChain = Mapped
        /\ Len(Chain) = current_capacity
        /\ Cardinality(Mapped) = current_capacity
        /\ \A l \in inChain \cup {HeadNode} : next[l] \in Links /\ prev[next[l]] = l
        /\ DuplicatesBounded

\* Between the lookup and the reply the lock is released five times; still the
\* node whose value a hit returns is linked and has the key that was asked for.
HitHasKey ==
    \A t \in Threads : at[t] = "hit" =>
        /\ node[t] \in Mapped
        /\ nodeKey[node[t]] = key[t]

\* Once an insertion has found the cache full no thread enters a critical
\* section again, not even the one that holds the lock.
FullCacheStops ==
    [][(\E t \in Threads : at[t] = "evict") =>
          \A t \in Threads : lk'[t] \in {"reading", "writing"} => lk'[t] = lk[t]]_lruVars

\* The README of the lab, on the cache: "When cache capacity is full, we will
\* automatically squeeze the end of the cache block chain ... out".  An
\* insertion that finds the cache full gets past the eviction.
EvictionCompletes ==
    \A t \in Threads : at[t] = "evict" ~> at[t] # "evict"

\* The chain is the list of blocks in order of their last use.
Recency == INSTANCE RecencyList WITH order <- Chain, Blocks <- Nodes
ImplementsRecencyList == Recency!Spec
=============================================================================
