-------------------------------- MODULE Proxy --------------------------------
(***************************************************************************)
(* process_request of the proxy (proxy.c) as the workers run it: look the  *)
(* request up in the cache, reply from it, or else fetch the response from *)
(* the server, pass it on and insert it into the cache.                    *)
(*                                                                         *)
(* A response is the sequence of blocks that Rio_readnb reads, MAXLINE     *)
(* bytes each but for the last.  They all go through one buffer,           *)
(* responseBuf; what is inserted is what the buffer holds in the end.      *)
(***************************************************************************)
EXTENDS LRUCache

CONSTANTS
    Blocks(_),          \* Blocks(k): the length in blocks of the response to k
    MaxObjectBlocks,    \* MAX_OBJECT_SIZE in blocks
    StackBytes          \* what may stand in responseBuf before it is filled

ASSUME ProxyAssumption == \A k \in Keys : Blocks(k) \in Nat \ {0}

VARIABLE running        \* the process has not exited

vars == <<lruVars, running>>

Response(k) == [b \in 1..Blocks(k) |-> <<k, b>>]

\* What strlen finds in responseBuf after the first m blocks of the response:
\* the last of them and, unless the byte after it is NUL, what was there before,
\* the tail of the previous block or the bytes the stack held.
BufferAfter(k, m) ==
    CASE m = 0 -> StackBytes
      [] m = 1 -> {<< <<k, 1>> >> \o junk : junk \in StackBytes}
      [] m > 1 -> {<< <<k, m>> >>, << <<k, m>>, <<k, m-1>> >>}

ProxyPC == Sections \cup {"idle", "miss", "hit", "done"}

TypeOK ==
    /\ LockTypeOK
    /\ cachemap \in [Positions -> Nodes \cup {NULL}]
    /\ next \in [Links -> Links] /\ prev \in [Links -> Links]
    /\ current_capacity \in 0..Capacity
    /\ at \in [Threads -> ProxyPC]
    /\ op \in [Threads -> {"get", "put"}]
    /\ key \in [Threads -> Keys \cup {NoKey}]
    /\ pos \in [Threads -> Positions \cup {NoPos}]
    /\ node \in [Threads -> Nodes \cup {NULL}]
    /\ running \in BOOLEAN

Init ==
    /\ CacheInit
    /\ at = [t \in Threads |-> "idle"]
    /\ op = [t \in Threads |-> "get"]
    /\ key = [t \in Threads |-> NoKey]
    /\ value = [t \in Threads |-> <<>>]
    /\ pos = [t \in Threads |-> NoPos]
    /\ node = [t \in Threads |-> NULL]
    /\ running = TRUE

-----------------------------------------------------------------------------
\* A well-formed GET arrives with its headers; read_cache is called.  Every
\* other request is answered or dropped and leaves no trace in shared state, or
\* ends the process, as ConnectFails does.
Request(t) ==
    /\ at[t] = "idle" /\ lk[t] = "idle"
    /\ \E k \in Keys : key' = [key EXCEPT ![t] = k]
    /\ op' = [op EXCEPT ![t] = "get"]
    /\ GoOn(t, "scan")
    /\ UNCHANGED <<lockVars, cacheVars, value, pos, node, running>>

\* The end of process_request; its locals are gone.
Return(t) ==
    /\ GoOn(t, "idle")
    /\ key' = [key EXCEPT ![t] = NoKey]
    /\ value' = [value EXCEPT ![t] = <<>>]
    /\ pos' = [pos EXCEPT ![t] = NoPos]
    /\ node' = [node EXCEPT ![t] = NULL]
    /\ UNCHANGED <<lockVars, cacheVars, op, running>>

ReplyFromCache(t) ==
    /\ at[t] = "hit" /\ lk[t] = "idle"
    /\ Return(t)

\* The server is asked and its m blocks are passed on, all of them or, when it
\* closes the connection early, fewer; then insert_cache is called.  A value
\* longer than MAX_OBJECT_SIZE is not cached.
Forward(t) ==
    /\ at[t] = "miss" /\ lk[t] = "idle"
    /\ \E m \in 0..Blocks(key[t]) : \E v \in BufferAfter(key[t], m) :
         IF Len(v) > MaxObjectBlocks
         THEN Return(t)
         ELSE /\ value' = [value EXCEPT ![t] = v]
              /\ op' = [op EXCEPT ![t] = "put"]
              /\ GoOn(t, "scan")
              /\ UNCHANGED <<lockVars, cacheVars, key, pos, node, running>>

\* The server cannot be reached: Open_clientfd reports the error and exits,
\* with every worker of the proxy.
ConnectFails(t) ==
    /\ at[t] = "miss" /\ lk[t] = "idle"
    /\ running' = FALSE
    /\ UNCHANGED lruVars

Finish(t) ==
    /\ at[t] = "done" /\ lk[t] = "idle"
    /\ Return(t)

Next ==
    /\ running
    /\ \E t \in Threads :
         \/ Request(t) \/ ReplyFromCache(t) \/ Forward(t) \/ ConnectFails(t)
         \/ Finish(t)
         \/ CacheStep(t) /\ UNCHANGED running

Spec == Init /\ [][Next]_vars

\* Every worker runs; the waits it is in the middle of are granted if they can
\* be granted again and again.
FairSpec ==
    Spec /\ \A t \in Threads : SF_vars(running /\ CacheStep(t) /\ UNCHANGED running)

-----------------------------------------------------------------------------
\* The README of the lab: "the proxy server will take the cache reponse and
\* reply to the client directly", the response being "the server's response".
\* A hit replies with what the server sent, all of it or, where the server
\* closed the connection early, as far as it got.
HitIsServersResponse ==
    \A t \in Threads : at[t] = "hit" =>
        \E m \in 0..Blocks(key[t]) :
            nodeValue[node[t]] = SubSeq(Response(key[t]), 1, m)
=============================================================================
