-------------------------------- MODULE Sbuf --------------------------------
(***************************************************************************)
(* The proxy's bounded buffer of accepted connections (sbuf.c): a ring     *)
(* under the binary semaphore bmutex, with the counting semaphores slots   *)
(* and items.  One producer, the accept loop of main; any number of        *)
(* workers remove.                                                         *)
(*                                                                         *)
(* A step is one P or V, together with the accesses it protects: between a *)
(* P(&sp->mutex) and its V nobody else touches front, rear or buf.         *)
(*                                                                         *)
(* A connection is the number of its accept call.  Connection MaxConns is  *)
(* the last one: beyond 2^31 - 1 of them rear and front, plain ints that   *)
(* only grow, would overflow.                                              *)
(***************************************************************************)
EXTENDS Integers, FiniteSets, Sequences

CONSTANTS
    N,              \* slots of the buffer (SBUFSIZE)
    MaxConns,       \* connections that arrive, at most
    Workers         \* identities of worker threads

ASSUME SbufAssumption ==
    /\ N \in Nat \ {0}
    /\ MaxConns \in Nat
    /\ IsFiniteSet(Workers)

Conns == 1..MaxConns
NoConn == 0

VARIABLES
    buf, front, rear,       \* the ring: item k (from 1) is in slot k % N
    bmutex, slots, items,   \* the semaphores
    accepted,               \* connections accepted so far
    mainPC,                 \* where the accept loop stands
    pc,                     \* pc[t]: where worker t stands
    conn                    \* conn[t]: the connection worker t has removed

bufVars == <<buf, front, rear, bmutex, slots, items>>
mainVars == <<accepted, mainPC>>
workerVars == <<pc, conn>>
sbufVars == <<bufVars, mainVars, workerVars>>

MainPC == {"accept", "slots", "lock", "put", "items"}
\* "none" and "dead": a thread not created yet, and one that has ended.
WorkerPC == {"none", "wait", "lock", "take", "slots", "serve", "close", "dead"}

SbufTypeOK ==
    /\ buf \in [0..N-1 -> Conns \cup {NoConn}]
    /\ front \in Nat /\ rear \in Nat
    /\ bmutex \in Nat /\ slots \in Nat /\ items \in Nat
    /\ accepted \in 0..MaxConns
    /\ mainPC \in MainPC
    /\ pc \in [Workers -> WorkerPC]
    /\ conn \in [Workers -> Conns \cup {NoConn}]

SbufInit ==                                             \* sbuf_init
    /\ buf = [i \in 0..N-1 |-> NoConn]
    /\ front = 0 /\ rear = 0
    /\ bmutex = 1 /\ slots = N /\ items = 0
    /\ accepted = 0
    /\ mainPC = "accept"

-----------------------------------------------------------------------------
\* The accept loop and sbuf_insert.
MainGoTo(from, to) == mainPC = from /\ mainPC' = to

Accept ==
    /\ accepted < MaxConns
    /\ accepted' = accepted + 1
    /\ MainGoTo("accept", "slots")
    /\ UNCHANGED <<bufVars, workerVars>>

\* A slip: the producer does not wait for a slot.
WaitForSlotNot ==
    /\ MainGoTo("slots", "lock")
    /\ UNCHANGED <<bufVars, accepted, workerVars>>

WaitForSlot ==                                          \* P(&sp->slots)
    /\ slots > 0
    /\ slots' = slots - 1
    /\ MainGoTo("slots", "lock")
    /\ UNCHANGED <<buf, front, rear, bmutex, items, accepted, workerVars>>

MainLocks ==                                            \* P(&sp->mutex)
    /\ bmutex > 0
    /\ bmutex' = bmutex - 1
    /\ MainGoTo("lock", "put")
    /\ UNCHANGED <<buf, front, rear, slots, items, accepted, workerVars>>

\* A slip: rear is raised after the store, so the slot is the one before.
PutPost ==
    /\ rear' = rear + 1
    /\ buf' = [buf EXCEPT ![rear % N] = accepted]
    /\ bmutex' = bmutex + 1
    /\ MainGoTo("put", "items")
    /\ UNCHANGED <<front, slots, items, accepted, workerVars>>

Put ==                                  \* buf[(++rear) % n] = item; V(&sp->mutex)
    /\ rear' = rear + 1
    /\ buf' = [buf EXCEPT ![(rear + 1) % N] = accepted]
    /\ bmutex' = bmutex + 1
    /\ MainGoTo("put", "items")
    /\ UNCHANGED <<front, slots, items, accepted, workerVars>>

AnnounceItem ==                                         \* V(&sp->items)
    /\ items' = items + 1
    /\ MainGoTo("items", "accept")
    /\ UNCHANGED <<buf, front, rear, bmutex, slots, accepted, workerVars>>

-----------------------------------------------------------------------------
\* sbuf_remove, by worker t.
GoTo(t, from, to) ==
    /\ pc[t] = from
    /\ pc' = [pc EXCEPT ![t] = to]

WaitForItem(t) ==                                       \* P(&sp->items)
    /\ items > 0
    /\ items' = items - 1
    /\ GoTo(t, "wait", "lock")
    /\ UNCHANGED <<buf, front, rear, bmutex, slots, mainVars, conn>>

WorkerLocks(t) ==                                       \* P(&sp->mutex)
    /\ bmutex > 0
    /\ bmutex' = bmutex - 1
    /\ GoTo(t, "lock", "take")
    /\ UNCHANGED <<buf, front, rear, slots, items, mainVars, conn>>

Take(t) ==                              \* item = buf[(++front) % n]; V(&sp->mutex)
    /\ front' = front + 1
    /\ conn' = [conn EXCEPT ![t] = buf[(front + 1) % N]]
    /\ bmutex' = bmutex + 1
    /\ GoTo(t, "take", "slots")
    /\ UNCHANGED <<buf, rear, slots, items, mainVars>>

\* A slip: the slot is not announced.
AnnounceSlotNot(t) ==
    /\ GoTo(t, "slots", "serve")
    /\ UNCHANGED <<bufVars, mainVars, conn>>

AnnounceSlot(t) ==                                      \* V(&sp->slots)
    /\ slots' = slots + 1
    /\ GoTo(t, "slots", "serve")
    /\ UNCHANGED <<buf, front, rear, bmutex, items, mainVars, conn>>

-----------------------------------------------------------------------------
\* Workers that have been granted an item and have not raised front yet, and
\* workers that have raised it and not announced the slot.
Taking == {t \in Workers : pc[t] \in {"lock", "take"}}
Freeing == {t \in Workers : pc[t] = "slots"}

\* The two counting semaphores account for every slot of the ring: each is
\* free, filled, or in the hands of main or of one worker.  So the ring never
\* holds more than N connections and none is overwritten or read twice.
SlotsAccounted ==
    LET filled == rear - front
    IN  /\ filled = items + Cardinality(Taking)
                    + (IF mainPC = "items" THEN 1 ELSE 0)
        /\ N = slots + filled + Cardinality(Freeing)
               + (IF mainPC \in {"lock", "put"} THEN 1 ELSE 0)
        /\ bmutex \in {0, 1}

\* The connections in the ring, oldest first: sbuf.h says buf[(front+1) % n] is
\* the first item and buf[rear % n] the last.
Queue == [k \in 1..(rear - front) |-> buf[(front + k) % N]]

\* The ring under its semaphores is a bounded FIFO queue.
FIFO == INSTANCE ConnQueue WITH queue <- Queue, Capacity <- N
ImplementsConnQueue == FIFO!Spec
=============================================================================
