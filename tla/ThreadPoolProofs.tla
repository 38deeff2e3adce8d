-------------------------- MODULE ThreadPoolProofs --------------------------
(***************************************************************************)
(* The connection buffer and the worker pool, for every size of the ring,  *)
(* every number of connections and every finite set of worker identities:  *)
(* the semaphores account for the ring's slots, the ring is a bounded FIFO *)
(* queue, no connection is lost wherever cancellation strikes, and         *)
(* adjust_thread's array names exactly the workers it has not cancelled.   *)
(*                                                                         *)
(* None of these is inductive.  PoolInv adds who holds bmutex, that a      *)
(* worker cannot be cancelled from the item it was granted to its close,   *)
(* that the connection numbered k is item k of the ring, which part of the *)
(* array a loop of adjust_thread has dealt with, and that the pool's sizes *)
(* are NTHREADS doubled.                                                   *)
(***************************************************************************)
EXTENDS ThreadPool, FiniteSetTheorems, FunctionTheorems, SequenceTheorems, TLAPS

\* Who is between a P and the V of bmutex.
Inside == {t \in Workers : pc[t] = "take"}
MainInside == mainPC = "put"
AdjustInside == adjPC \in {"readSlots", "readItems"}

\* bmutex is free exactly when nobody holds it, and has one holder at most.
MutexInv ==
    /\ bmutex \in {0, 1}
    /\ bmutex = 1 <=> (Inside = {} /\ ~MainInside /\ ~AdjustInside)
    /\ \A s, t \in Inside : s = t
    /\ Inside # {} => ~MainInside /\ ~AdjustInside
    /\ ~(MainInside /\ AdjustInside)

\* A worker that was granted an item cannot be cancelled before its close.
BusyInv ==
    \A t \in Workers :
        pc[t] \in {"lock", "take", "slots", "serve", "close"} => ~enabled[t]

\* Connection k is the k-th item; what main still holds is not in the ring yet.
MainHolds == IF mainPC \in {"slots", "lock", "put"} THEN 1 ELSE 0
RingInv ==
    /\ accepted = rear + MainHolds
    /\ \A k \in front+1..rear : buf[k % N] = k

\* The connections taken from the ring are closed or carried by one worker.
Carrying == {t \in Workers : pc[t] \in {"slots", "serve", "close"}}
HandsInv ==
    /\ \A t \in Workers \ Carrying : conn[t] = NoConn
    /\ 1..front = closed \cup {conn[t] : t \in Carrying}
    /\ \A t \in Carrying : conn[t] \notin closed
    /\ \A s, t \in Carrying : conn[s] = conn[t] => s = t

\* The places of the array whose thread runs and has not been cancelled: those
\* filled so far while the pool grows, those not reached yet while it shrinks.
Used ==
    CASE adjPC = "create" -> 0..i-1
      [] adjPC = "cancel" -> (0..new_nthread-1) \cup (i..current_nthreads-1)
      [] OTHER            -> 0..current_nthreads-1

PoolSizes == CHOOSE sizes \in SUBSET (NTHREADS..THREAD_LIMIT) : IsDoubling(sizes)

ArrayInv ==
    /\ current_nthreads \in PoolSizes
    /\ adjPC = "create" => /\ new_nthread = 2 * current_nthreads
                           /\ new_nthread \in PoolSizes
                           /\ i \in current_nthreads..new_nthread-1
    /\ adjPC = "cancel" => /\ new_nthread = current_nthreads \div 2
                           /\ new_nthread \in PoolSizes
                           /\ i \in new_nthread..current_nthreads-1
    /\ Staying = {thread_pool_ids[s] : s \in Used}
    /\ \A r, s \in Used : thread_pool_ids[r] = thread_pool_ids[s] => r = s

PoolInv ==
    /\ TypeOK /\ MutexInv /\ BusyInv /\ SlotsAccounted
    /\ RingInv /\ HandsInv /\ ArrayInv

\* A step of the process's threads; every other step of Next is one that ends
\* the process, or that of nothing once it has ended.
Threads ==
    \/ MainStep
    \/ AdjustStep
    \/ \E t \in Workers : WorkerStep(t) \/ ActOnCancel(t)

Idle ==
    /\ UNCHANGED <<sbufVars, poolVars, cancelVars, closed>>
    /\ process' \in {process, "ended"}

-----------------------------------------------------------------------------
\* Ending the process leaves all that is proved about here as it was.
LEMMA NextSplit == [Next]_vars => (Threads /\ UNCHANGED process) \/ Idle
<1>1. ASSUME Next PROVE (Threads /\ UNCHANGED process) \/ Idle
  <2>1. ASSUME NEW t \in Workers, EndProcess(t) PROVE Idle
    BY <2>1 DEF EndProcess, Idle
  <2>2. NothingRuns => Idle
    BY DEF NothingRuns, vars, Idle
  <2> QED
    BY <1>1, <2>1, <2>2 DEF Next, Running, Threads
<1>2. UNCHANGED vars => Idle
  BY DEF vars, Idle
<1> QED
  BY <1>1, <1>2

\* The sizes of the pool: at least NTHREADS, at most THREAD_LIMIT, and doubling
\* a smaller one or halving a larger one gives another.
LEMMA SizesDouble ==
    /\ PoolSizes \in SUBSET (NTHREADS..THREAD_LIMIT)
    /\ IsDoubling(PoolSizes)
BY PoolAssumption DEF PoolSizes

\* A new worker gets an identity nobody uses.
LEMMA NewThreadUnused == Unused # {} => NewThread \in Unused
BY DEF NewThread

\* Slots of the ring less than N apart are different.
LEMMA ModDistinct ==
    ASSUME NEW a \in Nat, NEW b \in Nat, a < b, b < a + N
    PROVE  a % N # b % N
<1> USE SbufAssumption
<1>1. a = N * (a \div N) + (a % N) /\ b = N * (b \div N) + (b % N)
  OBVIOUS
<1>2. SUFFICES ASSUME a % N = b % N PROVE FALSE
  OBVIOUS
<1> DEFINE d == (b \div N) - (a \div N)
<1>3. b - a = N * d
  BY <1>1, <1>2
<1>4. CASE d <= 0
  <2>1. N * d <= 0
    BY <1>4
  <2> QED
    BY <2>1, <1>3
<1>5. CASE d >= 1
  <2>1. N * d >= N
    BY <1>5
  <2> QED
    BY <2>1, <1>3
<1> QED
  BY <1>4, <1>5

\* There are slots 0 to N-1.
LEMMA ModRange == \A a \in Nat : a % N \in 0..N-1
BY SbufAssumption

-----------------------------------------------------------------------------
\* Type correctness.
LEMMA TypeStep ==
    ASSUME TypeOK, HandsInv, ArrayInv, Threads, UNCHANGED process
    PROVE  TypeOK'
<1> USE DEF TypeOK, SbufTypeOK, bufVars, mainVars, workerVars, sbufVars, poolVars, cancelVars
<1>1. CASE MainStep
  <2>1. CASE Accept
    <3>1. accepted' \in 0..MaxConns
      BY <2>1, SbufAssumption DEF Accept
    <3> QED
      BY <1>1, <2>1, <3>1 DEF MainStep, Accept, MainGoTo, MainPC
  <2>3. CASE WaitForSlot
    BY <1>1, <2>3 DEF MainStep, WaitForSlot, MainGoTo, MainPC
  <2>4. CASE MainLocks
    BY <1>1, <2>4 DEF MainStep, MainLocks, MainGoTo, MainPC
  <2>5. CASE AnnounceItem
    BY <1>1, <2>5 DEF MainStep, AnnounceItem, MainGoTo, MainPC
  <2>2. CASE Put
    <3>1. accepted \in Conns \cup {NoConn}
      BY DEF Conns, NoConn
    <3>2. (rear + 1) % N \in 0..N-1
      BY ModRange
    <3> QED
      BY <1>1, <2>2, <3>1, <3>2 DEF MainStep, Put, MainGoTo, MainPC
  <2> QED
    BY <1>1, <2>1, <2>2, <2>3, <2>4, <2>5 DEF MainStep
<1>2. CASE AdjustLock("full", "readSlots") \/ AdjustLock("empty", "readItems")
  BY <1>2 DEF AdjustLock, AdjustPC
<1>3. CASE CheckFull
  BY <1>3, PoolAssumption DEF CheckFull, AdjustGoOn, AdjustLoop, AdjustUnlock, AdjustPC
<1>4. CASE CheckEmpty
  <2>1. current_nthreads \div 2 \in Nat
    BY PoolAssumption
  <2> QED
    BY <1>4, <2>1, PoolAssumption DEF CheckEmpty, AdjustGoOn, AdjustLoop, AdjustUnlock, AdjustPC
<1>5. CASE CreateWorker
  <2>1. NewThread \in Workers
    BY <1>5, NewThreadUnused DEF CreateWorker, Unused
  <2>2. new_nthread \in NTHREADS..THREAD_LIMIT
    BY <1>5, SizesDouble DEF CreateWorker, ArrayInv
  <2> QED
    <3>1. enabled' \in [Workers -> BOOLEAN] /\ cancelled' \in [Workers -> BOOLEAN]
      BY <1>5 DEF CreateWorker
    <3>2. current_nthreads' \in NTHREADS..THREAD_LIMIT /\ adjPC' \in AdjustPC
      BY <1>5, <2>2 DEF CreateWorker, AdjustPC
    <3>3. pc' \in [Workers -> WorkerPC] /\ conn' \in [Workers -> Conns \cup {NoConn}]
      BY <1>5 DEF CreateWorker, WorkerPC
    <3>4. thread_pool_ids' \in [Slots -> Workers \cup {NoThread}]
      BY <1>5, <2>1 DEF CreateWorker
    <3> QED
      BY <1>5, <3>1, <3>2, <3>3, <3>4 DEF CreateWorker
<1>6. CASE CancelWorker
  <2>1. new_nthread \in NTHREADS..THREAD_LIMIT
    BY <1>6, SizesDouble DEF CancelWorker, ArrayInv
  <2> QED
    <3>1. cancelled' \in [Workers -> BOOLEAN]
      BY <1>6 DEF CancelWorker
    <3>2. current_nthreads' \in NTHREADS..THREAD_LIMIT /\ adjPC' \in AdjustPC
      BY <1>6, <2>1 DEF CancelWorker, AdjustPC
    <3> QED
      BY <1>6, <3>1, <3>2 DEF CancelWorker
<1>7. ASSUME NEW t \in Workers, WorkerStep(t) PROVE TypeOK'
  <2>1. CASE GetItem(t)
    BY <2>1 DEF GetItem, WaitForItem, GoTo, WorkerPC
  <2>2. CASE RemoveItem(t)
    <3>1. CASE WorkerLocks(t) \/ AnnounceSlot(t)
      BY <2>2, <3>1 DEF RemoveItem, WorkerLocks, AnnounceSlot, GoTo, WorkerPC
    <3>2. CASE Take(t)
      <4>1. buf[(front + 1) % N] \in Conns \cup {NoConn}
        BY ModRange
      <4> QED
        BY <2>2, <3>2, <4>1 DEF RemoveItem, Take, GoTo, WorkerPC
    <3> QED
      BY <2>2, <3>1, <3>2 DEF RemoveItem
  <2>3. CASE Serve(t)
    BY <2>3 DEF Serve, GoTo, WorkerPC
  <2>4. CASE CloseAndGoOn(t)
    <3>1. pc[t] = "close" /\ t \in Carrying
      BY <2>4 DEF CloseAndGoOn, GoTo, Carrying
    <3>2. conn[t] \in closed \cup {conn[s] : s \in Carrying}
      BY <3>1
    <3>3. conn[t] \in 1..front
      BY <3>2 DEF HandsInv
    <3>4. conn[t] \in Conns
      BY <3>3 DEF Conns, NoConn
    <3> QED
      BY <2>4, <3>4 DEF CloseAndGoOn, GoTo, WorkerPC
  <2> QED
    BY <1>7, <2>1, <2>2, <2>3, <2>4 DEF WorkerStep
<1>8. ASSUME NEW t \in Workers, ActOnCancel(t) PROVE TypeOK'
  BY <1>8 DEF ActOnCancel, GoTo, WorkerPC
<1> QED
  BY <1>1, <1>2, <1>3, <1>4, <1>5, <1>6, <1>7, <1>8 DEF Threads, AdjustStep

-----------------------------------------------------------------------------
\* bmutex is taken with a step into put, take or one of adjust_thread's reads,
\* and given back with the step out of it; nobody ends in between.
LEMMA MutexStep ==
    ASSUME TypeOK, BusyInv, MutexInv, Threads
    PROVE  MutexInv'
<1> USE DEF TypeOK, SbufTypeOK, MutexInv, Inside, MainInside, AdjustInside,
            bufVars, mainVars, workerVars, sbufVars, poolVars, cancelVars
<1>1. CASE MainStep
  <2>1. CASE Accept \/ WaitForSlot \/ AnnounceItem
    BY <1>1, <2>1 DEF MainStep, Accept, WaitForSlot, AnnounceItem, MainGoTo
  <2>2. CASE MainLocks \/ Put
    BY <1>1, <2>2 DEF MainStep, MainLocks, Put, MainGoTo
  <2> QED
    BY <1>1, <2>1, <2>2 DEF MainStep
<1>2. CASE AdjustLock("full", "readSlots") \/ AdjustLock("empty", "readItems")
  BY <1>2 DEF AdjustLock
<1>3. CASE CheckFull \/ CheckEmpty
  BY <1>3 DEF CheckFull, CheckEmpty, AdjustGoOn, AdjustLoop, AdjustUnlock
<1>4. CASE CreateWorker
  <2>1. Inside' = Inside
    BY <1>4, NewThreadUnused DEF CreateWorker, Unused
  <2>2. ~AdjustInside /\ ~AdjustInside'
    BY <1>4 DEF CreateWorker
  <2> QED
    BY <1>4, <2>1, <2>2 DEF CreateWorker
<1>5. CASE CancelWorker
  BY <1>5 DEF CancelWorker
<1>6. ASSUME NEW t \in Workers, WorkerStep(t) PROVE MutexInv'
  <2>1. CASE GetItem(t)
    BY <2>1 DEF GetItem, WaitForItem, GoTo
  <2>2. CASE RemoveItem(t)
    BY <2>2 DEF RemoveItem, WorkerLocks, Take, AnnounceSlot, GoTo
  <2>3. CASE Serve(t)
    BY <2>3 DEF Serve, GoTo
  <2>4. CASE CloseAndGoOn(t)
    BY <2>4 DEF CloseAndGoOn, GoTo
  <2> QED
    BY <1>6, <2>1, <2>2, <2>3, <2>4 DEF WorkerStep
<1>7. ASSUME NEW t \in Workers, ActOnCancel(t) PROVE MutexInv'
  BY <1>7 DEF ActOnCancel, GoTo
<1> QED
  BY <1>1, <1>2, <1>3, <1>4, <1>5, <1>6, <1>7 DEF Threads, AdjustStep

\* GetItem disables cancellation, CloseAndGoOn enables it, nobody else does
\* either to a worker that lives.
LEMMA BusyStep ==
    ASSUME TypeOK, BusyInv, Threads
    PROVE  BusyInv'
<1> USE DEF TypeOK, SbufTypeOK, BusyInv,
            bufVars, mainVars, workerVars, sbufVars, poolVars, cancelVars
<1>1. CASE MainStep
  BY <1>1 DEF MainStep, Accept, WaitForSlot, MainLocks, Put, AnnounceItem
<1>2. CASE AdjustLock("full", "readSlots") \/ AdjustLock("empty", "readItems")
  BY <1>2 DEF AdjustLock
<1>3. CASE CheckFull \/ CheckEmpty
  BY <1>3 DEF CheckFull, CheckEmpty, AdjustUnlock
<1>4. CASE CreateWorker
  BY <1>4, NewThreadUnused DEF CreateWorker, Unused
<1>5. CASE CancelWorker
  BY <1>5 DEF CancelWorker
<1>6. ASSUME NEW t \in Workers, WorkerStep(t) PROVE BusyInv'
  <2>1. CASE GetItem(t)
    BY <2>1 DEF GetItem, WaitForItem, GoTo
  <2>2. CASE RemoveItem(t)
    BY <2>2 DEF RemoveItem, WorkerLocks, Take, AnnounceSlot, GoTo
  <2>3. CASE Serve(t)
    BY <2>3 DEF Serve, GoTo
  <2>4. CASE CloseAndGoOn(t)
    BY <2>4 DEF CloseAndGoOn, GoTo
  <2> QED
    BY <1>6, <2>1, <2>2, <2>3, <2>4 DEF WorkerStep
<1>7. ASSUME NEW t \in Workers, ActOnCancel(t) PROVE BusyInv'
  BY <1>7 DEF ActOnCancel, GoTo
<1> QED
  BY <1>1, <1>2, <1>3, <1>4, <1>5, <1>6, <1>7 DEF Threads, AdjustStep

-----------------------------------------------------------------------------
\* The two counted sets of workers are finite, and so are all sets of workers.
LEMMA WorkersFinite ==
    \A S \in SUBSET Workers : IsFiniteSet(S) /\ Cardinality(S) \in Nat
BY SbufAssumption, FS_Subset, FS_CardinalityType

\* A worker more, a worker less.
LEMMA CountWorkers ==
    ASSUME NEW S \in SUBSET Workers, NEW t \in Workers
    PROVE  /\ t \notin S => Cardinality(S \cup {t}) = Cardinality(S) + 1
           /\ t \in S => Cardinality(S \ {t}) = Cardinality(S) - 1
<1>1. IsFiniteSet(S)
  BY WorkersFinite
<1>2. CASE t \in S
  BY <1>1, <1>2, FS_RemoveElement
<1>3. CASE t \notin S
  BY <1>1, <1>3, FS_AddElement
<1> QED
  BY <1>2, <1>3

\* What main holds: a filled slot that is not announced, a slot to fill.
Filled == IF mainPC = "items" THEN 1 ELSE 0
ToFill == IF mainPC \in {"lock", "put"} THEN 1 ELSE 0

SlotSums ==
    /\ rear - front = items + Cardinality(Taking) + Filled
    /\ N = slots + (rear - front) + Cardinality(Freeing) + ToFill

\* An item granted to a worker leaves items and enters Taking; Take moves it,
\* as a slot, to Freeing; AnnounceSlot gives the slot back.  main's step from
\* slots to lock takes a slot, its Put fills it, AnnounceItem announces it.
LEMMA SlotsStep ==
    ASSUME TypeOK, BusyInv, MutexInv', SlotsAccounted, Threads
    PROVE  SlotsAccounted'
<1> USE SbufAssumption
<1> USE DEF TypeOK, SbufTypeOK,
            bufVars, mainVars, workerVars, sbufVars, poolVars, cancelVars
<1>1. SlotSums
  BY DEF SlotsAccounted, SlotSums, Filled, ToFill
<1>2. SUFFICES SlotSums'
  BY DEF MutexInv, SlotsAccounted, SlotSums, Filled, ToFill
<1>3. Cardinality(Taking) \in Nat /\ Cardinality(Freeing) \in Nat
  BY WorkersFinite DEF Taking, Freeing
<1>4. Filled \in {0, 1} /\ ToFill \in {0, 1}
  BY DEF Filled, ToFill
<1>5. ASSUME Taking' = Taking, Freeing' = Freeing,
             UNCHANGED <<front, rear, slots, items, mainPC>>
      PROVE  SlotSums'
  BY <1>1, <1>5 DEF SlotSums, Filled, ToFill
<1>6. CASE MainStep
  <2>1. Taking' = Taking /\ Freeing' = Freeing
    BY <1>6 DEF MainStep, Accept, WaitForSlot, MainLocks, Put, AnnounceItem, Taking, Freeing
  <2>2. CASE Accept
    <3>1. Filled' = Filled /\ ToFill' = ToFill
      BY <2>2 DEF Accept, MainGoTo, Filled, ToFill
    <3> QED
      BY <1>1, <2>1, <2>2, <3>1 DEF Accept, SlotSums
  <2>3. CASE WaitForSlot
    <3>1. Filled' = Filled /\ ToFill = 0 /\ ToFill' = 1
      BY <2>3 DEF WaitForSlot, MainGoTo, Filled, ToFill
    <3> QED
      BY <1>1, <1>3, <1>4, <2>1, <2>3, <3>1 DEF WaitForSlot, SlotSums
  <2>4. CASE MainLocks
    <3>1. Filled' = Filled /\ ToFill' = ToFill
      BY <2>4 DEF MainLocks, MainGoTo, Filled, ToFill
    <3> QED
      BY <1>1, <2>1, <2>4, <3>1 DEF MainLocks, SlotSums
  <2>5. CASE Put
    <3>1. Filled = 0 /\ Filled' = 1 /\ ToFill = 1 /\ ToFill' = 0
      BY <2>5 DEF Put, MainGoTo, Filled, ToFill
    <3> QED
      BY <1>1, <1>3, <2>1, <2>5, <3>1 DEF Put, SlotSums
  <2>6. CASE AnnounceItem
    <3>1. Filled = 1 /\ Filled' = 0 /\ ToFill' = ToFill
      BY <2>6 DEF AnnounceItem, MainGoTo, Filled, ToFill
    <3> QED
      BY <1>1, <1>3, <1>4, <2>1, <2>6, <3>1 DEF AnnounceItem, SlotSums
  <2> QED
    BY <1>6, <2>2, <2>3, <2>4, <2>5, <2>6 DEF MainStep
<1>7. CASE AdjustLock("full", "readSlots") \/ AdjustLock("empty", "readItems")
  BY <1>5, <1>7 DEF AdjustLock, Taking, Freeing
<1>8. CASE CheckFull \/ CheckEmpty
  BY <1>5, <1>8 DEF CheckFull, CheckEmpty, AdjustUnlock, Taking, Freeing
<1>9. CASE CreateWorker
  <2>1. Taking' = Taking /\ Freeing' = Freeing
    BY <1>9, NewThreadUnused DEF CreateWorker, Unused, Taking, Freeing
  <2> QED
    BY <1>5, <1>9, <2>1 DEF CreateWorker
<1>10. CASE CancelWorker
  BY <1>5, <1>10 DEF CancelWorker, Taking, Freeing
<1>11. ASSUME NEW t \in Workers, WorkerStep(t) PROVE SlotSums'
  <2>1. Taking \in SUBSET Workers /\ Freeing \in SUBSET Workers
    BY DEF Taking, Freeing
  <2>2. CASE GetItem(t)
    <3>1. t \notin Taking /\ Taking' = Taking \cup {t} /\ Freeing' = Freeing
      BY <2>2 DEF GetItem, WaitForItem, GoTo, Taking, Freeing
    <3>2. Cardinality(Taking') = Cardinality(Taking) + 1
      BY <2>1, <3>1, CountWorkers
    <3>3. Filled' = Filled /\ ToFill' = ToFill
      BY <2>2 DEF GetItem, WaitForItem, Filled, ToFill
    <3> QED
      BY <1>1, <1>3, <1>4, <2>2, <3>1, <3>2, <3>3 DEF GetItem, WaitForItem, SlotSums
  <2>3. CASE WorkerLocks(t)
    BY <1>5, <2>3 DEF WorkerLocks, GoTo, Taking, Freeing
  <2>4. CASE Take(t)
    <3>1. /\ t \in Taking /\ Taking' = Taking \ {t}
          /\ t \notin Freeing /\ Freeing' = Freeing \cup {t}
      BY <2>4 DEF Take, GoTo, Taking, Freeing
    <3>2. Cardinality(Taking') = Cardinality(Taking) - 1 /\ Cardinality(Freeing') = Cardinality(Freeing) + 1
      BY <2>1, <3>1, CountWorkers
    <3>3. Filled' = Filled /\ ToFill' = ToFill
      BY <2>4 DEF Take, Filled, ToFill
    <3>4. front' = front + 1 /\ UNCHANGED <<rear, slots, items>>
      BY <2>4 DEF Take
    <3> QED
      <4>1. rear' - front' = items' + Cardinality(Taking') + Filled'
        <5>1. rear - front = items + Cardinality(Taking) + Filled
          BY <1>1 DEF SlotSums
        <5>2. rear \in Int /\ front \in Int /\ items \in Int
          OBVIOUS
        <5>3. rear - (front + 1) = items + (Cardinality(Taking) - 1) + Filled
          BY <1>3, <1>4, <5>1, <5>2
        <5> QED
          BY <3>2, <3>3, <3>4, <5>3
      <4>2. N = slots' + (rear' - front') + Cardinality(Freeing') + ToFill'
        BY <1>1, <1>3, <1>4, <3>2, <3>3, <3>4 DEF SlotSums
      <4> QED
        BY <4>1, <4>2 DEF SlotSums
  <2>5. CASE AnnounceSlot(t)
    <3>1. Taking' = Taking /\ t \in Freeing /\ Freeing' = Freeing \ {t}
      BY <2>5 DEF AnnounceSlot, GoTo, Taking, Freeing
    <3>2. Cardinality(Freeing') = Cardinality(Freeing) - 1
      BY <2>1, <3>1, CountWorkers
    <3>3. Filled' = Filled /\ ToFill' = ToFill
      BY <2>5 DEF AnnounceSlot, Filled, ToFill
    <3> QED
      BY <1>1, <1>3, <1>4, <2>5, <3>1, <3>2, <3>3 DEF AnnounceSlot, SlotSums
  <2>6. CASE Serve(t) \/ CloseAndGoOn(t)
    BY <1>5, <2>6 DEF Serve, CloseAndGoOn, GoTo, Taking, Freeing
  <2> QED
    BY <1>11, <2>2, <2>3, <2>4, <2>5, <2>6 DEF WorkerStep, RemoveItem
<1>12. ASSUME NEW t \in Workers, ActOnCancel(t) PROVE SlotSums'
  <2>1. pc[t] = "wait" /\ pc' = [pc EXCEPT ![t] = "dead"]
    BY <1>12 DEF ActOnCancel, GoTo, BusyInv
  <2>2. Taking' = Taking /\ Freeing' = Freeing
    BY <2>1 DEF Taking, Freeing
  <2> QED
    BY <1>5, <1>12, <2>2 DEF ActOnCancel
<1> QED
  BY <1>6, <1>7, <1>8, <1>9, <1>10, <1>11, <1>12 DEF Threads, AdjustStep

-----------------------------------------------------------------------------
\* What SlotsAccounted says of the ring: it never holds more than N items, one
\* slot is free for main while it puts, one is filled for a worker that takes.
LEMMA RingBounds ==
    ASSUME TypeOK, SlotsAccounted
    PROVE  /\ rear - front \in 0..N
           /\ mainPC = "put" => rear - front < N
           /\ \A t \in Workers : pc[t] = "take" => rear - front > 0
<1> USE SbufAssumption DEF TypeOK, SbufTypeOK
<1>1. SlotSums
  BY DEF SlotsAccounted, SlotSums, Filled, ToFill
<1>2. Cardinality(Taking) \in Nat /\ Cardinality(Freeing) \in Nat
  BY WorkersFinite DEF Taking, Freeing
<1>3. Filled \in {0, 1} /\ ToFill \in {0, 1} /\ (mainPC = "put" => ToFill = 1)
  BY DEF Filled, ToFill
<1>4. ASSUME NEW t \in Workers, pc[t] = "take" PROVE Cardinality(Taking) # 0
  <2>1. Taking \in SUBSET Workers /\ Taking # {}
    BY <1>4 DEF Taking
  <2>2. IsFiniteSet(Taking)
    BY <2>1, WorkersFinite
  <2> QED
    BY <2>1, <2>2, FS_EmptySet
<1>5a. PICK d \in Int : d = rear - front
  OBVIOUS
<1>5b. PICK a \in Nat, b \in Nat : a = Cardinality(Taking) /\ b = Cardinality(Freeing)
  BY <1>2
<1>5. PICK e \in {0, 1}, g \in {0, 1} : e = Filled /\ g = ToFill
  BY <1>3
<1>6. d = items + a + e /\ N = slots + d + b + g
  BY <1>1, <1>5a, <1>5b, <1>5, Zenon DEF SlotSums
<1>7. N \in Nat /\ items \in Nat /\ slots \in Nat
  OBVIOUS
<1> HIDE DEF TypeOK, SbufTypeOK
<1>8. d \in 0..N /\ (g = 1 => d < N) /\ (a # 0 => d > 0)
  BY <1>6, <1>7
<1>9. \A t \in Workers : pc[t] = "take" => d > 0
  BY <1>4, <1>5b, <1>8
<1> QED
  BY <1>3, <1>5a, <1>5, <1>8, <1>9

\* main numbers the connections as it puts them; Put fills the slot of item
\* rear + 1, which is no slot of an item that is still in the ring.
LEMMA RingStep ==
    ASSUME TypeOK, SlotsAccounted, RingInv, Threads
    PROVE  RingInv'
<1> USE SbufAssumption
<1> USE DEF TypeOK, SbufTypeOK, RingInv,
            bufVars, mainVars, workerVars, sbufVars, poolVars, cancelVars
<1>1. ASSUME UNCHANGED <<buf, front, rear, accepted, mainPC>> PROVE RingInv'
  BY <1>1 DEF MainHolds
<1>2. CASE MainStep
  <2>1. CASE Accept
    <3>1. MainHolds = 0 /\ MainHolds' = 1
      BY <2>1 DEF Accept, MainGoTo, MainHolds
    <3> QED
      BY <2>1, <3>1 DEF Accept
  <2>2. CASE WaitForSlot \/ MainLocks \/ AnnounceItem
    <3>1. MainHolds' = MainHolds /\ UNCHANGED <<buf, front, rear, accepted>>
      BY <2>2 DEF WaitForSlot, MainLocks, AnnounceItem, MainGoTo, MainHolds
    <3> QED
      BY <3>1
  <2>3. CASE Put
    <3>1. MainHolds = 1 /\ MainHolds' = 0
      BY <2>3 DEF Put, MainGoTo, MainHolds
    <3>2. accepted = rear + 1 /\ rear' = rear + 1 /\ UNCHANGED <<front, accepted>>
      BY <2>3, <3>1 DEF Put
    <3>3. buf' = [buf EXCEPT ![(rear + 1) % N] = rear + 1]
      BY <2>3, <3>2 DEF Put
    <3>4. ASSUME NEW k \in front+1..rear PROVE buf'[k % N] = k
      <4>1. k \in Nat /\ rear + 1 \in Nat /\ k < rear + 1 /\ rear + 1 < k + N
        BY <2>3, RingBounds DEF Put, MainGoTo
      <4>2. k % N # (rear + 1) % N
        BY <4>1, ModDistinct
      <4> QED
        BY <3>3, <4>1, <4>2, ModRange
    <3>5. buf'[(rear + 1) % N] = rear + 1
      BY <3>3, ModRange
    <3>6. \A k \in front+1..rear+1 : k \in front+1..rear \/ k = rear + 1
      OBVIOUS
    <3>7. \A k \in front+1..rear+1 : buf'[k % N] = k
      BY <3>4, <3>5, <3>6
    <3>8. accepted' = rear' + MainHolds'
      BY <3>1, <3>2
    <3> QED
      BY <3>2, <3>7, <3>8
  <2> QED
    BY <1>2, <2>1, <2>2, <2>3 DEF MainStep
<1>3. CASE AdjustStep
  BY <1>1, <1>3 DEF AdjustStep, AdjustLock, CheckFull, CheckEmpty, AdjustUnlock, CreateWorker, CancelWorker
<1>4. ASSUME NEW t \in Workers, WorkerStep(t) \/ ActOnCancel(t) PROVE RingInv'
  <2>1. CASE Take(t)
    <3>1. MainHolds' = MainHolds /\ front' = front + 1 /\ UNCHANGED <<buf, rear, accepted>>
      BY <2>1 DEF Take, MainHolds
    <3>2. \A k \in (front+1)+1..rear : buf[k % N] = k
      <4>1. \A k \in (front+1)+1..rear : k \in front+1..rear
        OBVIOUS
      <4> QED
        BY <4>1
    <3>3. \A k \in front'+1..rear' : buf'[k % N] = k
      BY <3>1, <3>2
    <3> QED
      BY <3>1, <3>3
  <2>2. CASE ~Take(t)
    BY <1>1, <1>4, <2>2 DEF WorkerStep, RemoveItem, GetItem, WaitForItem, WorkerLocks,
       AnnounceSlot, Serve, CloseAndGoOn, ActOnCancel
  <2> QED
    BY <2>1, <2>2
<1> QED
  BY <1>2, <1>3, <1>4 DEF Threads

-----------------------------------------------------------------------------
\* Take hands connection front + 1, which nobody had, to one worker; the close
\* moves the connection a worker carries to closed.
LEMMA HandsStep ==
    ASSUME TypeOK, BusyInv, SlotsAccounted, RingInv, HandsInv, Threads
    PROVE  HandsInv'
<1> USE DEF TypeOK, SbufTypeOK, HandsInv,
            bufVars, mainVars, workerVars, sbufVars, poolVars, cancelVars
<1>1. ASSUME Carrying' = Carrying, UNCHANGED <<front, conn, closed>>
      PROVE  HandsInv'
  BY <1>1
<1>2. CASE MainStep
  BY <1>1, <1>2 DEF MainStep, Accept, WaitForSlot, MainLocks, Put, AnnounceItem, Carrying
<1>3. CASE AdjustLock("full", "readSlots") \/ AdjustLock("empty", "readItems")
  BY <1>1, <1>3 DEF AdjustLock, Carrying
<1>4. CASE CheckFull \/ CheckEmpty
  BY <1>1, <1>4 DEF CheckFull, CheckEmpty, AdjustUnlock, Carrying
<1>5. CASE CreateWorker
  <2>1. NewThread \in Workers \ Carrying
    BY <1>5, NewThreadUnused DEF CreateWorker, Unused, Carrying
  <2>2. Carrying' = Carrying
    BY <1>5, <2>1 DEF CreateWorker, Carrying
  <2>3. conn' = conn
    BY <1>5, <2>1 DEF CreateWorker
  <2> QED
    BY <1>1, <1>5, <2>2, <2>3 DEF CreateWorker
<1>6. CASE CancelWorker
  BY <1>1, <1>6 DEF CancelWorker, Carrying
<1>7. ASSUME NEW t \in Workers, WorkerStep(t) PROVE HandsInv'
  <2>1. CASE GetItem(t)
    BY <1>1, <2>1 DEF GetItem, WaitForItem, GoTo, Carrying
  <2>2. CASE WorkerLocks(t) \/ AnnounceSlot(t)
    <3>1. UNCHANGED closed
      BY <1>7, <2>2 DEF WorkerStep, RemoveItem, GetItem, Serve, CloseAndGoOn, WorkerLocks,
         AnnounceSlot, GoTo
    <3> QED
      BY <1>1, <2>2, <3>1 DEF WorkerLocks, AnnounceSlot, GoTo, Carrying
  <2>3. CASE RemoveItem(t) /\ Take(t)
    <3>1. front + 1 \in front+1..rear
      BY <2>3, RingBounds DEF Take, GoTo
    <3>2. buf[(front + 1) % N] = front + 1
      BY <3>1 DEF RingInv
    <3>3. t \in Workers \ Carrying /\ Carrying' = Carrying \cup {t}
      BY <2>3 DEF Take, GoTo, Carrying
    <3>4. conn' = [conn EXCEPT ![t] = front + 1] /\ front' = front + 1 /\ closed' = closed
      BY <2>3, <3>2 DEF RemoveItem, Take
    <3>5. conn'[t] = front + 1 /\ \A s \in Workers \ {t} : conn'[s] = conn[s]
      BY <3>4
    <3>6. \A s \in Carrying : s # t /\ conn'[s] = conn[s] /\ conn[s] \in 1..front
      BY <3>3, <3>5 DEF Carrying
    <3>7. 1..front+1 = (1..front) \cup {front + 1}
      OBVIOUS
    <3>8. {conn'[s] : s \in Carrying'} = {conn[s] : s \in Carrying} \cup {front + 1}
      BY <3>3, <3>5, <3>6
    <3>9. front + 1 \notin 1..front /\ closed \subseteq 1..front
      OBVIOUS
    <3>10. 1..front' = closed' \cup {conn'[s] : s \in Carrying'}
      BY <3>4, <3>7, <3>8
    <3>11. \A s \in Carrying' : conn'[s] \notin closed'
      BY <3>3, <3>4, <3>5, <3>6, <3>9
    <3>12. \A r, s \in Carrying' : conn'[r] = conn'[s] => r = s
      BY <3>3, <3>5, <3>6, <3>9
    <3>13. \A s \in Workers \ Carrying' : conn'[s] = NoConn
      BY <3>3, <3>5
    <3> QED
      BY <3>10, <3>11, <3>12, <3>13
  <2>4. CASE Serve(t)
    BY <1>1, <2>4 DEF Serve, GoTo, Carrying
  <2>5. CASE CloseAndGoOn(t)
    <3>1. t \in Carrying /\ Carrying' = Carrying \ {t}
      BY <2>5 DEF CloseAndGoOn, GoTo, Carrying
    <3>2. conn'[t] = NoConn /\ \A s \in Workers \ {t} : conn'[s] = conn[s]
      BY <2>5 DEF CloseAndGoOn
    <3>3. front' = front /\ closed' = closed \cup {conn[t]}
      BY <2>5 DEF CloseAndGoOn
    <3>4. Carrying \subseteq Workers
      BY DEF Carrying
    <3>5. {conn[s] : s \in Carrying} = {conn'[s] : s \in Carrying'} \cup {conn[t]}
      BY <3>1, <3>2, <3>4
    <3>6. 1..front' = closed' \cup {conn'[s] : s \in Carrying'}
      BY <3>3, <3>5
    <3>7. \A s \in Carrying' : conn'[s] \notin closed'
      BY <3>1, <3>2, <3>3, <3>4
    <3>8. \A r, s \in Carrying' : conn'[r] = conn'[s] => r = s
      BY <3>1, <3>2, <3>4
    <3>9. \A s \in Workers \ Carrying' : conn'[s] = NoConn
      BY <3>1, <3>2
    <3> QED
      BY <3>6, <3>7, <3>8, <3>9
  <2> QED
    BY <1>7, <2>1, <2>2, <2>3, <2>4, <2>5 DEF WorkerStep, RemoveItem
<1>8. ASSUME NEW t \in Workers, ActOnCancel(t) PROVE HandsInv'
  <2>1. pc[t] = "wait" /\ pc' = [pc EXCEPT ![t] = "dead"]
    BY <1>8 DEF ActOnCancel, GoTo, BusyInv
  <2>2. Carrying' = Carrying
    BY <2>1 DEF Carrying
  <2> QED
    BY <1>1, <1>8, <2>2 DEF ActOnCancel
<1> QED
  BY <1>2, <1>3, <1>4, <1>5, <1>6, <1>7, <1>8 DEF Threads, AdjustStep

-----------------------------------------------------------------------------
\* The places in use are places of the array.
LEMMA UsedInSlots ==
    ASSUME TypeOK, ArrayInv
    PROVE  /\ Used \subseteq Slots
           /\ adjPC \in {"create", "cancel"} => i \in Slots
BY SizesDouble, PoolAssumption DEF TypeOK, ArrayInv, Used, Slots

\* A new worker is put in the first place the loop has not filled, a worker is
\* cancelled in the first place it has not dealt with; who ends otherwise had
\* been cancelled.
LEMMA ArrayStep ==
    ASSUME TypeOK, BusyInv, ArrayInv, Threads
    PROVE  ArrayInv'
<1> USE PoolAssumption, SizesDouble
<1> USE DEF TypeOK, bufVars, mainVars, workerVars, sbufVars, poolVars, cancelVars
<1>1. ASSUME Staying' = Staying, UNCHANGED poolVars PROVE ArrayInv'
  BY <1>1 DEF ArrayInv, Used
<1>2. CASE MainStep
  <2>1. Staying' = Staying
    BY <1>2 DEF MainStep, Accept, WaitForSlot, MainLocks, Put, AnnounceItem, Staying, Alive
  <2> QED
    BY <1>1, <1>2, <2>1 DEF MainStep
<1>3. CASE AdjustLock("full", "readSlots") \/ AdjustLock("empty", "readItems")
  <2>1. Staying' = Staying
    BY <1>3 DEF AdjustLock, Staying, Alive
  <2>2. Used' = Used
    BY <1>3 DEF AdjustLock, Used
  <2> QED
    BY <1>3, <2>1, <2>2 DEF AdjustLock, ArrayInv
<1>4. CASE CheckFull
  <2>1. Staying' = Staying /\ UNCHANGED <<thread_pool_ids, current_nthreads>>
    BY <1>4 DEF CheckFull, AdjustUnlock, Staying, Alive
  <2>2. CASE AdjustGoOn("empty") \/ AdjustGoOn("full")
    <3>1. Used' = Used
      BY <1>4, <2>1, <2>2 DEF CheckFull, AdjustGoOn, Used
    <3> QED
      BY <2>1, <2>2, <3>1 DEF AdjustGoOn, ArrayInv
  <2>3. CASE current_nthreads # THREAD_LIMIT /\ AdjustLoop("create", current_nthreads, 2 * current_nthreads)
    <3>1. Used' = Used
      BY <1>4, <2>1, <2>3 DEF CheckFull, AdjustLoop, Used
    <3>2. 2 * current_nthreads \in PoolSizes
      BY <2>3 DEF ArrayInv, IsDoubling
    <3>3. current_nthreads \in current_nthreads..(2 * current_nthreads - 1)
      OBVIOUS
    <3> QED
      BY <2>1, <2>3, <3>1, <3>2, <3>3 DEF AdjustLoop, ArrayInv
  <2> QED
    BY <1>4, <2>2, <2>3 DEF CheckFull
<1>5. CASE CheckEmpty
  <2>1. Staying' = Staying /\ UNCHANGED <<thread_pool_ids, current_nthreads>>
    BY <1>5 DEF CheckEmpty, AdjustUnlock, Staying, Alive
  <2>2. CASE AdjustGoOn("full")
    <3>1. Used' = Used
      BY <1>5, <2>1, <2>2 DEF CheckEmpty, AdjustGoOn, Used
    <3> QED
      BY <2>1, <2>2, <3>1 DEF AdjustGoOn, ArrayInv
  <2>3. CASE /\ current_nthreads # NTHREADS
             /\ AdjustLoop("cancel", current_nthreads \div 2, current_nthreads \div 2)
    <3> DEFINE half == current_nthreads \div 2
    <3>1. half \in PoolSizes
      BY <2>3 DEF ArrayInv, IsDoubling
    <3>2. half \in Nat /\ half < current_nthreads
      OBVIOUS
    <3>3. Used = 0..current_nthreads-1
      BY <1>5 DEF CheckEmpty, Used
    <3>4. Used' = (0..half-1) \cup (half..current_nthreads-1)
      BY <2>1, <2>3 DEF AdjustLoop, Used
    <3>5. Used' = Used
      BY <3>2, <3>3, <3>4
    <3>6. half \in half..(current_nthreads - 1)
      BY <3>2
    <3> QED
      BY <2>1, <2>3, <3>1, <3>5, <3>6 DEF AdjustLoop, ArrayInv
  <2> QED
    BY <1>5, <2>2, <2>3 DEF CheckEmpty
<1>6. CASE CreateWorker
  <2> DEFINE t == NewThread
  <2>1. t \in Workers /\ t \notin Alive
    BY <1>6, NewThreadUnused DEF CreateWorker, Unused, Alive
  <2>2. pc' = [pc EXCEPT ![t] = "wait"] /\ cancelled' = [cancelled EXCEPT ![t] = FALSE]
    BY <1>6 DEF CreateWorker
  <2>3. Staying' = Staying \cup {t} /\ t \notin Staying
    BY <2>1, <2>2 DEF SbufTypeOK, Staying, Alive
  <2>4. /\ new_nthread = 2 * current_nthreads /\ new_nthread \in PoolSizes
        /\ i \in current_nthreads..new_nthread-1
    BY <1>6 DEF CreateWorker, ArrayInv
  <2>5. Used = 0..i-1
    BY <1>6 DEF CreateWorker, Used
  <2>6. i' = i + 1 /\ new_nthread' = new_nthread
    BY <1>6 DEF CreateWorker
  <2>7. i \in Slots /\ thread_pool_ids' = [thread_pool_ids EXCEPT ![i] = t]
    BY <1>6, UsedInSlots DEF CreateWorker
  <2>8. thread_pool_ids'[i] = t /\ \A s \in 0..i-1 : thread_pool_ids'[s] = thread_pool_ids[s]
    <3>1. \A s \in 0..i-1 : s \in Slots /\ s # i
      BY <2>7 DEF Slots
    <3> QED
      BY <2>7, <3>1
  <2>9. 0..i = (0..i-1) \cup {i} /\ i \notin 0..i-1
    BY <2>4
  <2>10. /\ Staying' = {thread_pool_ids'[s] : s \in 0..i}
         /\ \A r, s \in 0..i : thread_pool_ids'[r] = thread_pool_ids'[s] => r = s
    <3>1. Staying = {thread_pool_ids[s] : s \in 0..i-1}
      BY <2>5 DEF ArrayInv
    <3>2. \A r, s \in 0..i-1 : thread_pool_ids[r] = thread_pool_ids[s] => r = s
      BY <2>5 DEF ArrayInv
    <3>3. \A s \in 0..i-1 : thread_pool_ids'[s] # t
      BY <2>3, <2>8, <3>1
    <3> QED
      BY <2>3, <2>8, <2>9, <3>1, <3>2, <3>3
  <2>11. CASE i + 1 < new_nthread
    <3>1. UNCHANGED <<adjPC, current_nthreads>> /\ adjPC = "create"
      BY <1>6, <2>11 DEF CreateWorker
    <3>2. Used' = 0..i'-1
      BY <3>1 DEF Used
    <3>3. i + 1 \in current_nthreads..new_nthread-1
      BY <2>4, <2>11
    <3>4. /\ current_nthreads' \in PoolSizes
          /\ Used' = 0..i
          /\ adjPC' = "create" /\ new_nthread' = 2 * current_nthreads'
          /\ new_nthread' \in PoolSizes /\ i' \in current_nthreads'..new_nthread'-1
      BY <2>4, <2>6, <3>1, <3>2, <3>3 DEF ArrayInv
    <3> QED
      BY <2>10, <3>4 DEF ArrayInv
  <2>12. CASE ~(i + 1 < new_nthread)
    <3>1. adjPC' = "full" /\ current_nthreads' = new_nthread /\ i + 1 = new_nthread
      BY <1>6, <2>4, <2>12 DEF CreateWorker
    <3>2. Used' = 0..i
      BY <3>1 DEF Used
    <3> QED
      BY <2>4, <2>10, <3>1, <3>2 DEF ArrayInv
  <2> QED
    BY <2>11, <2>12
<1>7. CASE CancelWorker
  <2>1. /\ new_nthread = current_nthreads \div 2 /\ new_nthread \in PoolSizes
        /\ i \in new_nthread..current_nthreads-1
    BY <1>7 DEF CancelWorker, ArrayInv
  <2>2. Used = (0..new_nthread-1) \cup (i..current_nthreads-1)
    BY <1>7 DEF CancelWorker, Used
  <2> DEFINE t == thread_pool_ids[i]
             rest == (0..new_nthread-1) \cup (i+1..current_nthreads-1)
  <2>3. i \in Used /\ rest = Used \ {i}
    BY <2>1, <2>2
  <2>4. t \in Staying
    BY <2>3 DEF ArrayInv
  <2>5. pc' = pc /\ cancelled' = [cancelled EXCEPT ![t] = TRUE]
    BY <1>7 DEF CancelWorker
  <2>6. Staying' = Staying \ {t}
    BY <2>4, <2>5 DEF SbufTypeOK, Staying, Alive
  <2>7. thread_pool_ids' = thread_pool_ids /\ i' = i + 1 /\ new_nthread' = new_nthread
    BY <1>7 DEF CancelWorker
  <2>8. /\ Staying' = {thread_pool_ids'[s] : s \in rest}
        /\ \A r, s \in rest : thread_pool_ids'[r] = thread_pool_ids'[s] => r = s
    BY <2>3, <2>6, <2>7 DEF ArrayInv
  <2>9. CASE i + 1 < current_nthreads
    <3>1. UNCHANGED <<adjPC, current_nthreads>> /\ adjPC = "cancel"
      BY <1>7, <2>9 DEF CancelWorker
    <3>2. Used' = (0..new_nthread'-1) \cup (i'..current_nthreads'-1)
      BY <3>1 DEF Used
    <3>3. i + 1 \in new_nthread..current_nthreads-1
      BY <2>1, <2>9
    <3>4. Used' = rest
      BY <2>7, <3>1, <3>2
    <3> QED
      BY <2>1, <2>7, <2>8, <3>1, <3>3, <3>4 DEF ArrayInv
  <2>10. CASE ~(i + 1 < current_nthreads)
    <3>1. adjPC' = "full" /\ current_nthreads' = new_nthread /\ i + 1 = current_nthreads
      BY <1>7, <2>1, <2>10 DEF CancelWorker
    <3>2. Used' = 0..new_nthread-1
      BY <3>1 DEF Used
    <3>3. Used' = rest
      BY <2>1, <3>1, <3>2
    <3> QED
      BY <2>1, <2>8, <3>1, <3>3 DEF ArrayInv
  <2> QED
    BY <2>9, <2>10
<1>8. ASSUME NEW t \in Workers, WorkerStep(t) PROVE ArrayInv'
  <2>1. CASE GetItem(t)
    <3>1. Staying' = Staying
      BY <2>1 DEF GetItem, WaitForItem, GoTo, SbufTypeOK, Staying, Alive
    <3> QED
      BY <1>1, <2>1, <3>1 DEF GetItem
  <2>2. CASE RemoveItem(t)
    <3>1. Staying' = Staying
      BY <2>2 DEF RemoveItem, WorkerLocks, Take, AnnounceSlot, GoTo, SbufTypeOK, Staying, Alive
    <3> QED
      BY <1>1, <2>2, <3>1 DEF RemoveItem
  <2>3. CASE Serve(t)
    <3>1. Staying' = Staying
      BY <2>3 DEF Serve, GoTo, SbufTypeOK, Staying, Alive
    <3> QED
      BY <1>1, <2>3, <3>1 DEF Serve
  <2>4. CASE CloseAndGoOn(t)
    <3>1. Staying' = Staying
      BY <2>4 DEF CloseAndGoOn, GoTo, SbufTypeOK, Staying, Alive
    <3> QED
      BY <1>1, <2>4, <3>1 DEF CloseAndGoOn
  <2> QED
    BY <1>8, <2>1, <2>2, <2>3, <2>4 DEF WorkerStep
<1>9. ASSUME NEW t \in Workers, ActOnCancel(t) PROVE ArrayInv'
  <2>1. Staying' = Staying
    BY <1>9 DEF ActOnCancel, GoTo, SbufTypeOK, Staying, Alive
  <2> QED
    BY <1>1, <1>9, <2>1 DEF ActOnCancel
<1> QED
  BY <1>2, <1>3, <1>4, <1>5, <1>6, <1>7, <1>8, <1>9 DEF Threads, AdjustStep

-----------------------------------------------------------------------------
\* There are identities enough for the first workers.
LEMMA FirstPoolExists ==
    /\ FirstPool \in [Slots -> Workers \cup {NoThread}]
    /\ \A s \in Slots : FirstPool[s] \in Workers <=> s < NTHREADS
    /\ \A s, u \in 0..NTHREADS-1 : FirstPool[s] = FirstPool[u] => s = u
<1>1. PICK f : f \in Bijection(1..Cardinality(Workers), Workers)
  BY SbufAssumption, FS_CardinalityType DEF ExistsBijection
<1>2. /\ f \in [1..Cardinality(Workers) -> Workers]
      /\ \A r, s \in 1..Cardinality(Workers) : f[r] = f[s] => r = s
  BY <1>1, Fun_BijectionProperties
<1>3. Cardinality(Workers) \in Nat
  BY WorkersFinite
<1> DEFINE ids == [s \in Slots |-> IF s < NTHREADS THEN f[s + 1] ELSE NoThread]
<1>4. \A s \in Slots : s < NTHREADS => s + 1 \in 1..Cardinality(Workers)
  BY <1>3, PoolAssumption DEF Slots
<1>5. /\ ids \in [Slots -> Workers \cup {NoThread}]
      /\ \A s \in Slots : ids[s] \in Workers <=> s < NTHREADS
  BY <1>2, <1>4, PoolAssumption
<1>6. ASSUME NEW s \in 0..NTHREADS-1, NEW u \in 0..NTHREADS-1, ids[s] = ids[u]
      PROVE  s = u
  <2>1. s \in Slots /\ u \in Slots /\ s < NTHREADS /\ u < NTHREADS
    BY PoolAssumption DEF Slots
  <2>2. f[s + 1] = f[u + 1]
    BY <1>6, <2>1
  <2> QED
    BY <1>2, <1>4, <2>1, <2>2
<1> HIDE DEF ids
<1>7. \E g \in [Slots -> Workers \cup {NoThread}] :
        /\ \A s \in Slots : g[s] \in Workers <=> s < NTHREADS
        /\ \A s, u \in 0..NTHREADS-1 : g[s] = g[u] => s = u
  BY <1>5, <1>6
<1> QED
  BY <1>7 DEF FirstPool

\* NTHREADS workers wait, the ring is empty and its semaphores say so.
LEMMA PoolInitInv == Init => PoolInv
<1> SUFFICES ASSUME Init PROVE PoolInv
  OBVIOUS
<1> USE SbufAssumption, PoolAssumption, SizesDouble DEF Init, SbufInit
<1>1. \A t \in Workers : pc[t] \in {"wait", "none"}
  OBVIOUS
<1>2. Inside = {} /\ Taking = {} /\ Freeing = {} /\ Carrying = {} /\ Cardinality({}) = 0
  BY <1>1, FS_EmptySet DEF Inside, Taking, Freeing, Carrying
<1>3. TypeOK
  <2>1. NTHREADS \in NTHREADS..THREAD_LIMIT
    OBVIOUS
  <2>2. buf \in [0..N-1 -> Conns \cup {NoConn}] /\ pc \in [Workers -> WorkerPC]
    BY DEF WorkerPC
  <2>3. conn \in [Workers -> Conns \cup {NoConn}]
    OBVIOUS
  <2>4. enabled \in [Workers -> BOOLEAN] /\ cancelled \in [Workers -> BOOLEAN]
    OBVIOUS
  <2>5. thread_pool_ids \in [Slots -> Workers \cup {NoThread}]
    BY FirstPoolExists
  <2>6. accepted \in 0..MaxConns /\ mainPC \in MainPC /\ adjPC \in AdjustPC
    BY DEF MainPC, AdjustPC
  <2> QED
    BY <2>1, <2>2, <2>3, <2>4, <2>5, <2>6 DEF TypeOK, SbufTypeOK
<1>4. MutexInv
  BY <1>2 DEF MutexInv, MainInside, AdjustInside
<1>5. BusyInv
  BY <1>1 DEF BusyInv
<1>6. SlotsAccounted
  BY <1>2 DEF SlotsAccounted
<1>7. RingInv
  BY DEF RingInv, MainHolds
<1>8. HandsInv
  BY <1>2 DEF HandsInv
<1>9. ArrayInv
  <2>1. Used = 0..NTHREADS-1
    BY DEF Used
  <2>2. 0..NTHREADS-1 \subseteq Slots
    BY DEF Slots
  <2>3. ASSUME NEW t \in Workers
        PROVE  t \in Staying <=> \E s \in 0..NTHREADS-1 : thread_pool_ids[s] = t
    <3>1. t \in Staying <=> \E s \in Slots : thread_pool_ids[s] = t
      BY DEF Staying, Alive
    <3>2. \A s \in Slots : thread_pool_ids[s] = t => s \in 0..NTHREADS-1
      BY FirstPoolExists DEF Slots
    <3> QED
      BY <2>2, <3>1, <3>2
  <2>4. \A s \in 0..NTHREADS-1 : thread_pool_ids[s] \in Workers
    BY <2>2, FirstPoolExists
  <2>5. Staying = {thread_pool_ids[s] : s \in 0..NTHREADS-1}
    <3>1. Staying \subseteq Workers
      BY DEF Staying, Alive
    <3> QED
      BY <2>3, <2>4, <3>1
  <2>6. NTHREADS \in PoolSizes
    BY DEF IsDoubling
  <2> QED
    BY <2>1, <2>5, <2>6, FirstPoolExists DEF ArrayInv
<1> QED
  BY <1>3, <1>4, <1>5, <1>6, <1>7, <1>8, <1>9 DEF PoolInv

\* Every step keeps PoolInv.
LEMMA PoolStepInv == PoolInv /\ [Next]_vars => PoolInv'
<1> SUFFICES ASSUME PoolInv, [Next]_vars PROVE PoolInv'
  OBVIOUS
<1>1. CASE Threads /\ UNCHANGED process
  <2>1. MutexInv'
    BY <1>1, MutexStep DEF PoolInv
  <2>2. TypeOK' /\ BusyInv' /\ RingInv' /\ HandsInv' /\ ArrayInv'
    BY <1>1, TypeStep, BusyStep, RingStep, HandsStep, ArrayStep DEF PoolInv
  <2>3. SlotsAccounted'
    BY <1>1, <2>1, SlotsStep DEF PoolInv
  <2> QED
    BY <2>1, <2>2, <2>3 DEF PoolInv
<1>2. CASE Idle
  <2> USE <1>2 DEF Idle, bufVars, mainVars, workerVars, sbufVars, poolVars, cancelVars
  <2>1. TypeOK' /\ BusyInv'
    BY DEF PoolInv, TypeOK, SbufTypeOK, BusyInv
  <2>2. MutexInv'
    BY DEF PoolInv, MutexInv, Inside, MainInside, AdjustInside
  <2>3. SlotsAccounted'
    BY DEF PoolInv, SlotsAccounted, Taking, Freeing
  <2>4. RingInv' /\ HandsInv'
    BY DEF PoolInv, RingInv, MainHolds, HandsInv, Carrying
  <2>5. ArrayInv'
    BY DEF PoolInv, ArrayInv, Used, Staying, Alive
  <2> QED
    BY <2>1, <2>2, <2>3, <2>4, <2>5 DEF PoolInv
<1> QED
  BY <1>1, <1>2, NextSplit

\* The strengthened invariant holds whatever the size of the ring and of the
\* pool, in whatever order main, the workers and adjust_thread run.
THEOREM PoolInvariant == Spec => []PoolInv
<1>1. Init => PoolInv
  BY PoolInitInv
<1>2. PoolInv /\ [Next]_vars => PoolInv'
  BY PoolStepInv
<1> QED
  BY <1>1, <1>2, PTL DEF Spec

\* The semaphores slots and items account for every slot of the ring, and
\* bmutex is binary (SlotsAccounted): the ring never holds more than n items.
THEOREM SlotsAreAccounted == Spec => []SlotsAccounted
<1>1. PoolInv => SlotsAccounted
  BY DEF PoolInv
<1> QED
  BY <1>1, PoolInvariant, PTL

-----------------------------------------------------------------------------
\* As many elements as names, when the naming is one to one.
LEMMA OneToOneCount ==
    ASSUME NEW S, IsFiniteSet(S), NEW f,
           \A r, s \in S : f[r] = f[s] => r = s
    PROVE  /\ IsFiniteSet({f[s] : s \in S})
           /\ Cardinality({f[s] : s \in S}) = Cardinality(S)
<1> DEFINE T == {f[s] : s \in S}
           g == [s \in S |-> f[s]]
<1>1. g \in [S -> T] /\ \A r, s \in S : g[r] = g[s] => r = s
  OBVIOUS
<1>2. \A u \in T : \E s \in S : g[s] = u
  OBVIOUS
<1>3. g \in Bijection(S, T)
  BY <1>1, <1>2, Fun_IsBij
<1>4. ExistsBijection(S, T)
  BY <1>3 DEF ExistsBijection
<1> QED
  BY <1>4, FS_Bijection

\* The k-th number after a, up to b.
LEMMA IntervalShift ==
    ASSUME NEW a \in Nat, NEW b \in Nat
    PROVE  \A k \in 1..(b - a) : a + k \in a+1..b
OBVIOUS

\* The ring holds the connections front + 1 to rear, in this order.
LEMMA QueueContents ==
    ASSUME TypeOK, SlotsAccounted, RingInv
    PROVE  /\ rear - front \in Nat
           /\ Queue = [k \in 1..(rear - front) |-> front + k]
<1>1. rear - front \in 0..N /\ N \in Nat /\ front \in Nat /\ rear \in Nat
  BY RingBounds, SbufAssumption DEF TypeOK, SbufTypeOK
<1>2. \A k \in 1..(rear - front) : front + k \in front+1..rear
  BY <1>1, IntervalShift
<1>3. \A k \in 1..(rear - front) : buf[(front + k) % N] = front + k
  BY <1>2 DEF RingInv
<1> QED
  BY <1>1, <1>3 DEF Queue

\* Every accepted connection is in one place, because the places are intervals:
\* the taken ones 1..front, the ring front+1..rear, main's the one after.
LEMMA PlacesDisjoint == PoolInv => NoConnectionLost
<1> SUFFICES ASSUME PoolInv PROVE NoConnectionLost
  OBVIOUS
<1> USE DEF PoolInv, TypeOK, SbufTypeOK
<1>1. rear - front \in Nat /\ front \in Nat /\ rear \in Nat /\ accepted \in Nat
  BY QueueContents
<1>2. InRing = front+1..rear
  <2>1. InRing = {front + k : k \in 1..(rear - front)}
    BY QueueContents DEF InRing
  <2>2. \A c \in front+1..rear : c - front \in 1..(rear - front) /\ c = front + (c - front)
    BY <1>1
  <2>3. \A k \in 1..(rear - front) : front + k \in front+1..rear
    BY <1>1
  <2> QED
    BY <2>1, <2>2, <2>3
<1>3. accepted = rear + MainHolds /\ MainHolds \in {0, 1}
  BY DEF RingInv, MainHolds
<1>4. InMain = IF MainHolds = 1 THEN {accepted} ELSE {}
  BY DEF InMain, MainHolds
<1> DEFINE hands == {conn[t] : t \in Carrying}
<1>5. \A t \in Workers : t \in Carrying <=> t \in Alive /\ conn[t] # NoConn
  <2>1. \A t \in Carrying : conn[t] \in 1..front
    BY DEF HandsInv
  <2>2. Carrying \subseteq Alive
    BY DEF Carrying, Alive
  <2> QED
    BY <2>1, <2>2 DEF HandsInv, NoConn
<1>6. {t \in Alive : conn[t] # NoConn} = Carrying
  BY <1>5 DEF Alive, Carrying
<1>7. UNION {InHand(t) : t \in Alive} = hands
  BY <1>5 DEF InHand, Alive, Carrying
<1>8. 1..front = closed \cup hands
  BY DEF HandsInv
<1>9. 1..accepted = InMain \cup InRing \cup closed \cup UNION {InHand(t) : t \in Alive}
  <2>1. 1..accepted = (1..front) \cup (front+1..rear) \cup (IF MainHolds = 1 THEN {accepted} ELSE {})
    BY <1>1, <1>3
  <2> QED
    BY <1>2, <1>4, <1>7, <1>8, <2>1
<1>10. Cardinality(1..accepted) = accepted /\ Cardinality(1..front) = front
  <2>1. ASSUME NEW k \in Nat PROVE Cardinality(1..k) = k
    BY FS_Interval
  <2> QED
    BY <1>1, <2>1
<1>11. Cardinality(InMain) = MainHolds
  BY <1>3, <1>4, FS_EmptySet, FS_Singleton
<1>12. IsFiniteSet(Carrying) /\ Cardinality(Carrying) \in Nat
  BY WorkersFinite DEF Carrying
<1>13. IsFiniteSet(hands) /\ Cardinality(hands) = Cardinality(Carrying)
  <2>1. \A r, s \in Carrying : conn[r] = conn[s] => r = s
    BY DEF HandsInv
  <2> QED
    BY <1>12, <2>1, OneToOneCount
<1>14. IsFiniteSet(closed) /\ Cardinality(closed) \in Nat /\ closed \cap hands = {}
  <2>1. IsFiniteSet(1..front) /\ closed \subseteq 1..front
    <3>1. IsFiniteSet(1..front)
      BY <1>1, FS_Interval
    <3>2. closed \subseteq 1..front
      BY <1>8
    <3> QED
      BY <3>1, <3>2
  <2>2. closed \cap hands = {}
    BY DEF HandsInv
  <2> QED
    BY <2>1, <2>2, FS_Subset, FS_CardinalityType
<1> HIDE DEF hands
<1>15. Cardinality(closed \cup hands) = Cardinality(closed) + Cardinality(hands)
  <2>1. Cardinality(closed \cup hands) = Cardinality(closed) + Cardinality(hands) - Cardinality({})
    BY <1>13, <1>14, FS_Union
  <2>2. Cardinality({}) = 0
    BY FS_EmptySet
  <2> QED
    BY <1>12, <1>13, <1>14, <2>1, <2>2
<1>16. front = Cardinality(closed) + Cardinality(Carrying)
  BY <1>8, <1>10, <1>13, <1>15
<1>17. accepted = MainHolds + (rear - front) + Cardinality(closed) + Cardinality(Carrying)
  <2>1. rear = (rear - front) + (Cardinality(closed) + Cardinality(Carrying))
    BY <1>1, <1>16
  <2> QED
    BY <1>1, <1>3, <1>12, <1>14, <2>1
<1> QED
  BY <1>6, <1>9, <1>10, <1>11, <1>17 DEF NoConnectionLost

\* Wherever cancellation strikes, every accepted connection is with main, in the
\* ring, with one living worker, or closed (NoConnectionLost).
THEOREM ConnectionsKept == Spec => []NoConnectionLost
<1> QED
  BY PlacesDisjoint, PoolInvariant, PTL

\* Between two rounds of adjust_thread the workers it has not cancelled are those
\* in the used part of thread_pool_ids, and its loops stay in it (PoolSound).
THEOREM PoolIsSound == Spec => []PoolSound
<1>1. PoolInv => PoolSound
  <2> SUFFICES ASSUME PoolInv PROVE PoolSound
    OBVIOUS
  <2> DEFINE used == 0..current_nthreads-1
  <2>1. current_nthreads \in NTHREADS..THREAD_LIMIT /\ current_nthreads \in Nat
    BY PoolAssumption DEF PoolInv, TypeOK
  <2>2. adjPC \in {"create", "cancel"} => i \in Slots
    BY UsedInSlots DEF PoolInv
  <2>3. ASSUME adjPC \notin {"create", "cancel"}
        PROVE  /\ Staying = {thread_pool_ids[s] : s \in used}
               /\ Cardinality(Staying) = current_nthreads
    <3>1. Used = used
      BY <2>3 DEF Used
    <3>2. Staying = {thread_pool_ids[s] : s \in used}
      BY <3>1 DEF PoolInv, ArrayInv
    <3>3. \A r, s \in used : thread_pool_ids[r] = thread_pool_ids[s] => r = s
      BY <3>1 DEF PoolInv, ArrayInv
    <3>4. IsFiniteSet(used) /\ Cardinality(used) = current_nthreads
      BY <2>1, FS_Interval
    <3> HIDE DEF used
    <3>5. Cardinality({thread_pool_ids[s] : s \in used}) = Cardinality(used)
      BY <3>3, <3>4, OneToOneCount
    <3> QED
      BY <3>2, <3>4, <3>5
  <2> QED
    BY <2>1, <2>2, <2>3 DEF PoolSound
<1> QED
  BY <1>1, PoolInvariant, PTL

\* adjust_thread cancels only workers that live and that it has not cancelled
\* (CancelsLiveWorkers).
THEOREM CancelsOnlyLive == Spec => CancelsLiveWorkers
<1>1. PoolInv /\ CancelWorker => thread_pool_ids[i] \in Staying
  <2> SUFFICES ASSUME PoolInv, CancelWorker PROVE thread_pool_ids[i] \in Staying
    OBVIOUS
  <2>1. Used = (0..new_nthread-1) \cup (i..current_nthreads-1)
    BY DEF CancelWorker, Used
  <2>2. i \in Used
    BY <2>1, PoolAssumption DEF PoolInv, TypeOK, ArrayInv, CancelWorker
  <2> QED
    BY <2>2 DEF PoolInv, ArrayInv
<1> QED
  BY <1>1, PoolInvariant, PTL DEF Spec, CancelsLiveWorkers

-----------------------------------------------------------------------------
\* The empty ring is the empty queue.
LEMMA QueueInit == Init => FIFO!Init
<1> SUFFICES ASSUME Init PROVE Queue = <<>>
  BY DEF FIFO!Init
<1>1. rear - front = 0
  BY DEF Init, SbufInit
<1>2. Queue = [k \in 1..0 |-> buf[(front + k) % N]]
  BY <1>1 DEF Queue
<1> QED
  BY <1>2

\* Put appends to the queue while it is shorter than N; Take removes its first;
\* no other step of main, a worker or adjust_thread touches it.
LEMMA QueueStep ==
    PoolInv /\ PoolInv' /\ [Next]_vars => [FIFO!Next]_Queue
<1> SUFFICES ASSUME PoolInv, PoolInv', [Next]_vars PROVE [FIFO!Next]_Queue
  OBVIOUS
<1> USE DEF TypeOK, SbufTypeOK,
            bufVars, mainVars, workerVars, sbufVars, poolVars, cancelVars
<1>1. /\ front \in Nat /\ rear \in Nat /\ rear - front \in Nat /\ N \in Nat
      /\ front' \in Nat /\ rear' \in Nat /\ rear' - front' \in Nat
  <2>1. rear - front \in Nat /\ N \in Nat
    BY QueueContents, SbufAssumption DEF PoolInv
  <2>2. front' \in Nat /\ rear' \in Nat /\ items' \in Nat
    BY DEF PoolInv
  <2>3. Cardinality(Taking') \in Nat /\ Filled' \in {0, 1}
    BY WorkersFinite DEF Taking, Filled
  <2>4. rear' - front' = items' + Cardinality(Taking') + Filled'
    BY DEF PoolInv, SlotsAccounted, Filled
  <2>5. front \in Nat /\ rear \in Nat
    BY DEF PoolInv
  <2>6. items' + Cardinality(Taking') + Filled' \in Nat
    BY <2>2, <2>3
  <2>7. rear' - front' \in Nat
    BY <2>4, <2>6
  <2> QED
    BY <2>1, <2>2, <2>5, <2>7
<1>2. Queue = [k \in 1..(rear - front) |-> front + k]
  BY QueueContents DEF PoolInv
<1>3. Queue' = [k \in 1..(rear' - front') |-> front' + k]
  <2>1. ASSUME NEW k \in 1..(rear' - front')
        PROVE  buf'[(front' + k) % N] = front' + k
    <3>1. front' + k \in front'+1..rear'
      BY <1>1, IntervalShift
    <3> QED
      BY <3>1 DEF PoolInv, RingInv
  <2> QED
    BY <2>1 DEF Queue
<1>4. Queue \in Seq(Nat) /\ Len(Queue) = rear - front
  BY <1>1, <1>2
<1>5. ASSUME UNCHANGED <<front, rear>> PROVE UNCHANGED Queue
  BY <1>2, <1>3, <1>5
<1>6. CASE MainStep /\ Put
  <2>1. rear' = rear + 1 /\ front' = front
    BY <1>6 DEF Put
  <2>2. rear - front < N
    BY <1>6, RingBounds DEF PoolInv, Put, MainGoTo
  <2>3. accepted = rear + 1 /\ accepted \in Conns
    BY <1>1, <1>6 DEF PoolInv, RingInv, MainHolds, Put, MainGoTo, Conns
  <2>4. Queue' = Append(Queue, accepted)
    <3>1. Queue' = [k \in 1..(rear - front) + 1 |-> front + k]
      BY <1>1, <1>3, <2>1
    <3>2. front + ((rear - front) + 1) = accepted
      BY <1>1, <2>3
    <3> QED
      BY <1>1, <1>2, <1>4, <3>1, <3>2
  <2>5. FIFO!Insert(accepted)
    BY <1>4, <2>2, <2>4 DEF FIFO!Insert
  <2> QED
    BY <2>3, <2>5 DEF FIFO!Next
<1>7. ASSUME NEW t \in Workers, RemoveItem(t), Take(t) PROVE [FIFO!Next]_Queue
  <2>1. front' = front + 1 /\ rear' = rear
    BY <1>7 DEF Take
  <2>2. rear - front > 0
    BY <1>7, RingBounds DEF PoolInv, Take, GoTo
  <2>3. Queue # <<>>
    BY <1>4, <2>2
  <2>4. Queue' = Tail(Queue)
    <3>1. Queue' = [k \in 1..(rear - front) - 1 |-> (front + 1) + k]
      BY <1>1, <1>3, <2>1
    <3>2. Tail(Queue) = [k \in 1..(rear - front) - 1 |-> Queue[k + 1]]
      <4>1. /\ Tail(Queue) \in Seq(Nat) /\ Len(Tail(Queue)) = (rear - front) - 1
            /\ \A k \in 1..Len(Tail(Queue)) : Tail(Queue)[k] = Queue[k + 1]
        BY <1>4, <2>3, HeadTailProperties
      <4>2. Tail(Queue) \in [1..(rear - front) - 1 -> Nat]
        BY <4>1, LenProperties
      <4> QED
        BY <4>1, <4>2
    <3>3. \A k \in 1..(rear - front) - 1 : Queue[k + 1] = (front + 1) + k
      BY <1>1, <1>2
    <3> QED
      BY <3>1, <3>2, <3>3
  <2> QED
    BY <2>3, <2>4 DEF FIFO!Next, FIFO!Remove
<1>8. CASE MainStep /\ ~Put
  BY <1>5, <1>8 DEF MainStep, Accept, WaitForSlot, MainLocks, AnnounceItem
<1>9. CASE AdjustStep
  BY <1>5, <1>9 DEF AdjustStep, AdjustLock, CheckFull, CheckEmpty, AdjustUnlock,
     CreateWorker, CancelWorker
<1>10. ASSUME NEW t \in Workers, WorkerStep(t) \/ ActOnCancel(t), ~Take(t)
       PROVE  UNCHANGED Queue
  BY <1>5, <1>10 DEF WorkerStep, RemoveItem, GetItem, WaitForItem, WorkerLocks,
     AnnounceSlot, Serve, CloseAndGoOn, ActOnCancel
<1>11. ASSUME NEW t \in Workers, WorkerStep(t) \/ ActOnCancel(t), Take(t)
       PROVE  [FIFO!Next]_Queue
  <2>1. pc[t] = "take" /\ pc'[t] = "slots"
    BY <1>11 DEF PoolInv, Take, GoTo
  <2>2. RemoveItem(t)
    BY <1>11, <2>1 DEF WorkerStep, GetItem, WaitForItem, Serve, CloseAndGoOn, ActOnCancel, GoTo
  <2> QED
    BY <1>7, <1>11, <2>2
<1>12. CASE Idle
  BY <1>5, <1>12 DEF Idle
<1> QED
  BY <1>6, <1>8, <1>9, <1>10, <1>11, <1>12, NextSplit DEF Threads

\* The ring under its semaphores is a bounded first-in first-out queue
\* (ImplementsConnQueue).
THEOREM RingImplementsConnQueue == Spec => ImplementsConnQueue
<1> QED
  BY QueueInit, QueueStep, PoolInvariant, PTL DEF Spec, ImplementsConnQueue, FIFO!Spec
=============================================================================
