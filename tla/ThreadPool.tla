----------------------------- MODULE ThreadPool -----------------------------
(***************************************************************************)
(* The proxy's worker threads and the thread that adjusts their number     *)
(* (sbuf.c, proxy.c's accept loop).  adjust_thread watches the buffer:     *)
(* full, it doubles the pool; empty, it cancels the upper half.            *)
(*                                                                         *)
(* Cancellation is deferred: a worker whose cancellation was requested     *)
(* ends at its next cancellation point, a sem_wait or a system call, if    *)
(* cancellation is enabled there.  sbuf_remove disables it as soon as it   *)
(* has been granted an item, worker_thread enables it after the close.     *)
(***************************************************************************)
EXTENDS Sbuf

CONSTANTS
    NTHREADS,       \* the least size of the pool
    THREAD_LIMIT    \* the length of thread_pool_ids

NoThread == "no thread"

\* The sizes from NTHREADS to THREAD_LIMIT, each twice the one before.
IsDoubling(sizes) ==
    /\ NTHREADS \in sizes /\ THREAD_LIMIT \in sizes
    /\ \A n \in sizes : n # NTHREADS => n % 2 = 0 /\ n \div 2 \in sizes
    /\ \A n \in sizes : n # THREAD_LIMIT => 2 * n \in sizes

\* common.h has 4 and 4096: doubling reaches THREAD_LIMIT, where adjust_thread
\* tests for equality, and halving reaches NTHREADS.
ASSUME PoolAssumption ==
    /\ NTHREADS \in Nat \ {0}
    /\ THREAD_LIMIT \in Nat /\ THREAD_LIMIT >= NTHREADS
    /\ \E sizes \in SUBSET (NTHREADS..THREAD_LIMIT) : IsDoubling(sizes)
    /\ NoThread \notin Workers /\ Cardinality(Workers) >= NTHREADS

Slots == 0..THREAD_LIMIT-1

VARIABLES
    thread_pool_ids,    \* the array of thread identities
    current_nthreads,   \* the part of it in use, private to adjust_thread
    new_nthread, i,     \* locals of adjust_thread
    adjPC,              \* where adjust_thread stands
    enabled,            \* enabled[t]: cancellation is enabled
    cancelled,          \* cancelled[t]: pthread_cancel was called
    closed,             \* connections served and closed
    process             \* "up", or "ended" by a worker in process_request

poolVars == <<thread_pool_ids, current_nthreads, new_nthread, i, adjPC>>
cancelVars == <<enabled, cancelled>>
vars == <<sbufVars, poolVars, cancelVars, closed, process>>

AdjustPC == {"full", "readSlots", "empty", "readItems", "create", "cancel"}

TypeOK ==
    /\ SbufTypeOK
    /\ thread_pool_ids \in [Slots -> Workers \cup {NoThread}]
    /\ current_nthreads \in NTHREADS..THREAD_LIMIT
    /\ new_nthread \in Nat /\ i \in Nat
    /\ adjPC \in AdjustPC
    /\ enabled \in [Workers -> BOOLEAN] /\ cancelled \in [Workers -> BOOLEAN]
    /\ closed \subseteq Conns
    /\ process \in {"up", "ended"}

\* Identities are names: which NTHREADS of them the first workers get, and
\* which unused one a new worker gets, makes no difference.
FirstPool == CHOOSE ids \in [Slots -> Workers \cup {NoThread}] :
    /\ \A s \in Slots : ids[s] \in Workers <=> s < NTHREADS
    /\ \A s, u \in 0..NTHREADS-1 : ids[s] = ids[u] => s = u

Unused == {t \in Workers : pc[t] \in {"none", "dead"}}
NewThread == CHOOSE t \in Unused : TRUE

\* After init_thread: NTHREADS workers run, adjust_thread has been created.
Init ==
    /\ SbufInit
    /\ thread_pool_ids = FirstPool
    /\ current_nthreads = NTHREADS
    /\ new_nthread = NTHREADS /\ i = 0
    /\ adjPC = "full"
    /\ pc = [t \in Workers |->
                IF \E s \in Slots : thread_pool_ids[s] = t THEN "wait" ELSE "none"]
    /\ conn = [t \in Workers |-> NoConn]
    /\ enabled = [t \in Workers |-> TRUE]
    /\ cancelled = [t \in Workers |-> FALSE]
    /\ closed = {}
    /\ process = "up"

-----------------------------------------------------------------------------
\* main, and the workers in sbuf_remove.
MainStep ==
    /\ \/ Accept \/ WaitForSlot \/ MainLocks \/ Put \/ AnnounceItem
    /\ UNCHANGED <<poolVars, cancelVars, closed>>

\* A slip: no pthread_setcancelstate in sbuf_remove.
GetItemCancellable(t) ==
    /\ WaitForItem(t)
    /\ UNCHANGED <<poolVars, cancelVars, closed>>

\* P(&sp->items), then pthread_setcancelstate(DISABLE): no cancellation point
\* lies between the two.
GetItem(t) ==
    /\ WaitForItem(t)
    /\ enabled' = [enabled EXCEPT ![t] = FALSE]
    /\ UNCHANGED <<poolVars, cancelled, closed>>

RemoveItem(t) ==
    /\ \/ WorkerLocks(t) \/ Take(t) \/ AnnounceSlot(t)
    /\ UNCHANGED <<poolVars, cancelVars, closed>>

\* process_request returns; what it does is modelled in module Proxy.
Serve(t) ==
    /\ GoTo(t, "serve", "close")
    /\ UNCHANGED <<bufVars, mainVars, conn, poolVars, cancelVars, closed>>

\* A slip: cancellation stays disabled.
CloseAndGoOnDisabled(t) ==
    /\ closed' = closed \cup {conn[t]}
    /\ conn' = [conn EXCEPT ![t] = NoConn]
    /\ GoTo(t, "close", "wait")
    /\ UNCHANGED <<bufVars, mainVars, poolVars, cancelVars>>

\* Close(connfd), cancellation enabled again, and the entry of the next
\* sem_wait, where a request that came meanwhile takes effect.
CloseAndGoOn(t) ==
    /\ closed' = closed \cup {conn[t]}
    /\ conn' = [conn EXCEPT ![t] = NoConn]
    /\ enabled' = [enabled EXCEPT ![t] = TRUE]
    /\ GoTo(t, "close", IF cancelled[t] THEN "dead" ELSE "wait")
    /\ UNCHANGED <<bufVars, mainVars, poolVars, cancelled>>

\* A cancellation request ends a worker inside a cancellation point: the waits
\* of sbuf_remove, the system calls of process_request, the close.
ActOnCancel(t) ==
    /\ cancelled[t] /\ enabled[t]
    /\ \E from \in {"wait", "lock", "serve", "close"} : GoTo(t, from, "dead")
    /\ UNCHANGED <<bufVars, mainVars, conn, poolVars, cancelVars, closed>>

\* process_request ends the process, and every thread with it: a Rio wrapper
\* that meets a connection the client has reset exits.
EndProcess(t) ==
    /\ pc[t] = "serve"
    /\ process = "up" /\ process' = "ended"
    /\ UNCHANGED <<sbufVars, poolVars, cancelVars, closed>>

WorkerStep(t) == GetItem(t) \/ RemoveItem(t) \/ Serve(t) \/ CloseAndGoOn(t)

-----------------------------------------------------------------------------
\* adjust_thread.
AdjustLock(from, to) ==                                 \* P(&sp->mutex)
    /\ adjPC = from /\ adjPC' = to
    /\ bmutex > 0
    /\ bmutex' = bmutex - 1
    /\ UNCHANGED <<buf, front, rear, slots, items, mainVars, workerVars,
                   thread_pool_ids, current_nthreads, new_nthread, i,
                   cancelVars, closed>>

\* Reads a semaphore's value, gives bmutex back and starts a loop that runs i
\* from `from` up to `to`; or, with no loop to run, goes on to `next`.
AdjustLoop(loop, from, to) ==
    /\ adjPC' = loop /\ i' = from /\ new_nthread' = to
AdjustGoOn(next) ==
    /\ adjPC' = next /\ UNCHANGED <<i, new_nthread>>
AdjustUnlock ==
    /\ bmutex' = bmutex + 1
    /\ UNCHANGED <<buf, front, rear, slots, items, mainVars, workerVars,
                   thread_pool_ids, current_nthreads, cancelVars, closed>>

\* A slip: no test against THREAD_LIMIT.
CheckFullUnlimited ==
    /\ adjPC = "readSlots"
    /\ IF slots # 0 THEN AdjustGoOn("empty")
       ELSE AdjustLoop("create", current_nthreads, 2 * current_nthreads)
    /\ AdjustUnlock

CheckFull ==
    /\ adjPC = "readSlots"
    /\ IF slots # 0 THEN AdjustGoOn("empty")
       ELSE IF current_nthreads = THREAD_LIMIT THEN AdjustGoOn("full")
       ELSE AdjustLoop("create", current_nthreads, 2 * current_nthreads)
    /\ AdjustUnlock

CheckEmpty ==
    /\ adjPC = "readItems"
    /\ IF items # 0 \/ current_nthreads = NTHREADS THEN AdjustGoOn("full")
       ELSE AdjustLoop("cancel", current_nthreads \div 2, current_nthreads \div 2)
    /\ AdjustUnlock

\* One iteration of create_worker_thread.  The identity of a thread that has
\* ended may be given out again; Workers bounds how many live at a time.
CreateWorker ==
    /\ adjPC = "create"
    /\ Unused # {}
    /\ LET t == NewThread IN
        /\ thread_pool_ids' = [thread_pool_ids EXCEPT ![i] = t]
        /\ pc' = [pc EXCEPT ![t] = "wait"]
        /\ conn' = [conn EXCEPT ![t] = NoConn]
        /\ enabled' = [enabled EXCEPT ![t] = TRUE]
        /\ cancelled' = [cancelled EXCEPT ![t] = FALSE]
    /\ i' = i + 1
    /\ IF i + 1 < new_nthread
       THEN UNCHANGED <<adjPC, current_nthreads>>
       ELSE adjPC' = "full" /\ current_nthreads' = new_nthread
    /\ UNCHANGED <<bufVars, mainVars, new_nthread, closed>>

\* A slip: current_nthreads is not lowered after the loop.
CancelWorkerForgets ==
    /\ adjPC = "cancel"
    /\ cancelled' = [cancelled EXCEPT ![thread_pool_ids[i]] = TRUE]
    /\ i' = i + 1
    /\ adjPC' = IF i + 1 < current_nthreads THEN "cancel" ELSE "full"
    /\ UNCHANGED <<sbufVars, thread_pool_ids, current_nthreads, new_nthread,
                   enabled, closed>>

\* One iteration of the loop that cancels the upper half.
CancelWorker ==
    /\ adjPC = "cancel"
    /\ cancelled' = [cancelled EXCEPT ![thread_pool_ids[i]] = TRUE]
    /\ i' = i + 1
    /\ IF i + 1 < current_nthreads
       THEN UNCHANGED <<adjPC, current_nthreads>>
       ELSE adjPC' = "full" /\ current_nthreads' = new_nthread
    /\ UNCHANGED <<sbufVars, thread_pool_ids, new_nthread, enabled, closed>>

AdjustStep ==
    \/ AdjustLock("full", "readSlots") \/ CheckFull
    \/ AdjustLock("empty", "readItems") \/ CheckEmpty
    \/ CreateWorker \/ CancelWorker

\* A thread runs as long as the process does.
Running(A) == process = "up" /\ A /\ UNCHANGED process
NothingRuns == process = "ended" /\ UNCHANGED vars

Next ==
    \/ Running(MainStep)
    \/ Running(AdjustStep)
    \/ \E t \in Workers :
          Running(WorkerStep(t)) \/ Running(ActOnCancel(t)) \/ EndProcess(t)
    \/ NothingRuns

Spec == Init /\ [][Next]_vars

\* Every thread runs, and a thread that waits in a sem_wait which is granted
\* again and again gets through some time: adjust_thread polls the buffer
\* without pause, so its P(&sp->mutex) competes for ever with the others'.
\* Nothing says that process_request returns: it waits for ever for a client
\* that sends nothing, or in a cache that is full (module LRUCache).
Fairness ==
    /\ SF_vars(Running(MainStep) /\ mainPC # "accept")
    /\ WF_vars(Running(AdjustStep))
    /\ \A t \in Workers :
         /\ SF_vars(Running(WorkerStep(t)) /\ pc[t] # "serve")
         /\ WF_vars(Running(ActOnCancel(t)))

FairSpec == Spec /\ Fairness

-----------------------------------------------------------------------------
Alive == {t \in Workers : pc[t] \notin {"none", "dead"}}
Staying == {t \in Alive : ~cancelled[t]}

\* Wherever cancellation strikes, every accepted connection is in one place:
\* in main's hands, in the ring, with one worker that is alive, or closed.
InMain == IF mainPC \in {"slots", "lock", "put"} THEN {accepted} ELSE {}
InRing == {Queue[k] : k \in 1..(rear - front)}
InHand(t) == {conn[t]} \ {NoConn}

NoConnectionLost ==
    /\ 1..accepted = InMain \cup InRing \cup closed \cup UNION {InHand(t) : t \in Alive}
    /\ Cardinality(1..accepted) =
         Cardinality(InMain) + (rear - front) + Cardinality(closed)
         + Cardinality({t \in Alive : conn[t] # NoConn})

\* Between two rounds of adjust_thread the workers it has not cancelled are
\* exactly those in the used part of thread_pool_ids, one in each place; the
\* loops stay inside the array, and the pool keeps its least size.
PoolSound ==
    /\ current_nthreads \in NTHREADS..THREAD_LIMIT
    /\ adjPC \notin {"create", "cancel"} =>
         /\ Staying = {thread_pool_ids[s] : s \in 0..current_nthreads-1}
         /\ Cardinality(Staying) = current_nthreads
    /\ adjPC \in {"create", "cancel"} => i \in Slots

\* adjust_thread never cancels a thread it has cancelled before or that has
\* ended: the identity of a detached thread that is gone may be another's.
CancelsLiveWorkers ==
    [][CancelWorker => thread_pool_ids[i] \in Staying]_vars

\* Every connection that was accepted is served and closed in the end, however
\* the pool grows and shrinks meanwhile, unless the process ends, the call of
\* process_request for it never returns, or every worker that is not cancelled
\* is in such a call: then a ring that is not full gets no further worker.
EveryConnectionServed ==
    \A c \in Conns :
        \/ (accepted >= c) ~> (c \in closed \/ process = "ended")
        \/ \E t \in Workers : <>[](pc[t] = "serve" /\ conn[t] = c)
        \/ <>[](\A t \in Staying : pc[t] = "serve")

\* A cancelled worker finishes the connection it has and ends, unless the
\* process ends first or its process_request never returns.
CancelledWorkersEnd ==
    \A t \in Workers :
        \/ (cancelled[t] /\ pc[t] # "dead") ~>
              (pc[t] = "dead" \/ ~cancelled[t] \/ process = "ended")
        \/ <>[](pc[t] = "serve")
=============================================================================
