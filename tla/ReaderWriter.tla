---------------------------- MODULE ReaderWriter ----------------------------
(***************************************************************************)
(* The proxy's reader-writer lock (7.Proxy_lab/proxylab-handout,           *)
(* reader-writer.c): two binary semaphores, a counter of readers and the   *)
(* flag is_prev_write that makes writers wait for readers that are already *)
(* counted.  Any worker thread takes it now as a reader, now as a writer.  *)
(*                                                                         *)
(* lk[t] is where thread t stands in the four lock functions.  A step is   *)
(* one access to shared state: a P or a V, one load or one store.          *)
(***************************************************************************)
EXTENDS Integers, FiniteSets

CONSTANT Threads

ASSUME ThreadsAssumption == IsFiniteSet(Threads)

VARIABLES
    mutex,          \* the semaphore that protects readcnt
    w,              \* the semaphore of the writer, or of all readers together
    readcnt,        \* readers counted in
    isPrevWrite,    \* is_prev_write: the last to leave was a writer
    lk              \* lk[t]: where t stands

lockVars == <<mutex, w, readcnt, isPrevWrite, lk>>

ReaderPC == {"rLock", "rCount", "rGate", "rUnlock", "rRelock", "reading",
             "rOpen", "rClear", "rExit"}
WriterPC == {"wFlag", "wCount", "wGate", "writing", "wExit"}
LockPC == {"idle"} \cup ReaderPC \cup WriterPC

LockTypeOK ==
    /\ mutex \in Nat
    /\ w \in Nat
    /\ readcnt \in Nat
    /\ isPrevWrite \in BOOLEAN
    /\ lk \in [Threads -> LockPC]

LockInit ==
    /\ mutex = 1
    /\ w = 1
    /\ readcnt = 0
    /\ isPrevWrite = FALSE
    /\ lk = [t \in Threads |-> "idle"]

-----------------------------------------------------------------------------
GoTo(t, from, to) ==
    /\ lk[t] = from
    /\ lk' = [lk EXCEPT ![t] = to]

\* lock_reader ------------------------------------------------------------
CallLockReader(t) ==
    /\ GoTo(t, "idle", "rLock")
    /\ UNCHANGED <<mutex, w, readcnt, isPrevWrite>>

LockMutex(t) ==                             \* P(&mutex)
    /\ mutex > 0
    /\ mutex' = mutex - 1
    /\ GoTo(t, "rLock", "rCount")
    /\ UNCHANGED <<w, readcnt, isPrevWrite>>

\* A slip the runs must notice: the post-increment, readcnt++ == 1.
CountInPost(t) ==
    /\ readcnt' = readcnt + 1
    /\ GoTo(t, "rCount", IF readcnt = 1 THEN "rGate" ELSE "rUnlock")
    /\ UNCHANGED <<mutex, w, isPrevWrite>>

\* A slip: the count is tested and never raised.
CountInLost(t) ==
    /\ GoTo(t, "rCount", IF readcnt = 0 THEN "rGate" ELSE "rUnlock")
    /\ UNCHANGED <<mutex, w, readcnt, isPrevWrite>>

CountIn(t) ==                               \* ++readcnt; the first one takes w
    /\ readcnt' = readcnt + 1
    /\ GoTo(t, "rCount", IF readcnt + 1 = 1 THEN "rGate" ELSE "rUnlock")
    /\ UNCHANGED <<mutex, w, isPrevWrite>>

FirstReaderTakesW(t) ==                     \* P(&w), with mutex held
    /\ w > 0
    /\ w' = w - 1
    /\ GoTo(t, "rGate", "rUnlock")
    /\ UNCHANGED <<mutex, readcnt, isPrevWrite>>

ReleaseMutex(t) ==                          \* V(&mutex)
    /\ mutex' = mutex + 1
    /\ GoTo(t, "rUnlock", "rRelock")
    /\ UNCHANGED <<w, readcnt, isPrevWrite>>

\* A slip: lock_reader of the book, which returns without mutex.
RelockMutexNot(t) ==
    /\ GoTo(t, "rRelock", "reading")
    /\ UNCHANGED <<mutex, w, readcnt, isPrevWrite>>

RelockMutex(t) ==                           \* the second P(&mutex)
    /\ mutex > 0
    /\ mutex' = mutex - 1
    /\ GoTo(t, "rRelock", "reading")
    /\ UNCHANGED <<w, readcnt, isPrevWrite>>

\* unlock_reader ----------------------------------------------------------
\* A slip: the post-decrement, readcnt-- == 0.
UnlockReaderPost(t) ==
    /\ readcnt' = readcnt - 1
    /\ GoTo(t, "reading", IF readcnt = 0 THEN "rOpen" ELSE "rClear")
    /\ UNCHANGED <<mutex, w, isPrevWrite>>

UnlockReader(t) ==                          \* --readcnt; the last one frees w
    /\ readcnt' = readcnt - 1
    /\ GoTo(t, "reading", IF readcnt - 1 = 0 THEN "rOpen" ELSE "rClear")
    /\ UNCHANGED <<mutex, w, isPrevWrite>>

LastReaderFreesW(t) ==                      \* V(&w)
    /\ w' = w + 1
    /\ GoTo(t, "rOpen", "rClear")
    /\ UNCHANGED <<mutex, readcnt, isPrevWrite>>

ClearPrevWrite(t) ==                        \* is_prev_write = 0
    /\ isPrevWrite' = FALSE
    /\ GoTo(t, "rClear", "rExit")
    /\ UNCHANGED <<mutex, w, readcnt>>

LeaveReader(t) ==                           \* V(&mutex)
    /\ mutex' = mutex + 1
    /\ GoTo(t, "rExit", "idle")
    /\ UNCHANGED <<w, readcnt, isPrevWrite>>

\* lock_writer: while (is_prev_write && readcnt) ; P(&w) ------------------
CallLockWriter(t) ==
    /\ GoTo(t, "idle", "wFlag")
    /\ UNCHANGED <<mutex, w, readcnt, isPrevWrite>>

ReadPrevWrite(t) ==                         \* loads is_prev_write
    /\ GoTo(t, "wFlag", IF isPrevWrite THEN "wCount" ELSE "wGate")
    /\ UNCHANGED <<mutex, w, readcnt, isPrevWrite>>

ReadReadcnt(t) ==                           \* loads readcnt
    /\ GoTo(t, "wCount", IF readcnt # 0 THEN "wFlag" ELSE "wGate")
    /\ UNCHANGED <<mutex, w, readcnt, isPrevWrite>>

WriterTakesW(t) ==                          \* P(&w)
    /\ w > 0
    /\ w' = w - 1
    /\ GoTo(t, "wGate", "writing")
    /\ UNCHANGED <<mutex, readcnt, isPrevWrite>>

\* unlock_writer ----------------------------------------------------------
\* A slip: the writer leaves no mark.
UnlockWriterUnmarked(t) ==
    /\ GoTo(t, "writing", "wExit")
    /\ UNCHANGED <<mutex, w, readcnt, isPrevWrite>>

UnlockWriter(t) ==                          \* is_prev_write = 1
    /\ isPrevWrite' = TRUE
    /\ GoTo(t, "writing", "wExit")
    /\ UNCHANGED <<mutex, w, readcnt>>

LeaveWriter(t) ==                           \* V(&w)
    /\ w' = w + 1
    /\ GoTo(t, "wExit", "idle")
    /\ UNCHANGED <<mutex, readcnt, isPrevWrite>>

-----------------------------------------------------------------------------
\* What a thread inside one of the four functions does next; a caller of the
\* lock adds its own steps at "idle", "reading" and "writing".
LockStep(t) ==
    \/ LockMutex(t) \/ CountIn(t) \/ FirstReaderTakesW(t)
    \/ ReleaseMutex(t) \/ RelockMutex(t)
    \/ LastReaderFreesW(t) \/ ClearPrevWrite(t) \/ LeaveReader(t)
    \/ ReadPrevWrite(t) \/ ReadReadcnt(t) \/ WriterTakesW(t)
    \/ LeaveWriter(t)

Unlock(t) == UnlockReader(t) \/ UnlockWriter(t)

LockNext ==
    \E t \in Threads : \/ CallLockReader(t) \/ CallLockWriter(t)
                       \/ LockStep(t) \/ Unlock(t)

LockSpec == LockInit /\ [][LockNext]_lockVars

\* Every thread runs (the kernel schedules it) and leaves the lock it holds;
\* no thread has to ask for it.  A P need not be granted to any given waiter
\* when several wait: sem_wait promises no order.
LockFairness == \A t \in Threads : WF_lockVars(LockStep(t) \/ Unlock(t))

FairLockSpec == LockSpec /\ LockFairness

-----------------------------------------------------------------------------
Readers == {t \in Threads : lk[t] = "reading"}
Writers == {t \in Threads : lk[t] = "writing"}

\* Threads that hold mutex, that readcnt counts, and that hold w as readers.
MutexHolders == {t \in Threads :
    lk[t] \in {"rCount", "rGate", "rUnlock", "reading", "rOpen", "rClear", "rExit"}}
Counted == {t \in Threads :
    lk[t] \in {"rGate", "rUnlock", "rRelock", "reading"}}
GroupMembers == {t \in Threads :
    lk[t] \in {"rUnlock", "rRelock", "reading", "rOpen"}}
WHolders == {t \in Threads : lk[t] \in {"writing", "wExit"}}

\* A thread between lock and unlock is alone, whatever it came for: a writer
\* excludes everybody, and since lock_reader takes mutex again before it
\* returns (line 18), readers exclude one another too.
Exclusive ==
    \A s, t \in Readers \cup Writers : s = t

\* readcnt is the number of readers between the ++ and the --, so w is freed by
\* the last of them; neither semaphore is ever raised above 1.
CountExact ==
    /\ readcnt = Cardinality(Counted)
    /\ mutex \in {0, 1}
    /\ w \in {0, 1}

\* While a reader is counted and past the gate no writer holds w, and the
\* other way round: w always has the owner its value says.
WOwned ==
    /\ w = 1 <=> (GroupMembers = {} /\ WHolders = {})
    /\ GroupMembers # {} => WHolders = {}
    /\ \A s, t \in WHolders : s = t

\* Writers cannot keep out a reader that waits for w with readcnt = 1: each
\* writer leaves is_prev_write = 1 behind and the next one waits in
\* lock_writer while readcnt is not 0.
ReaderNotOvertakenForever ==
    \A t \in Threads : lk[t] = "rGate" ~> lk[t] # "rGate"

\* Whenever somebody waits for the lock somebody gets in: the two semaphores
\* and the spinning of lock_writer neither deadlock nor livelock.
Waiting(t) == lk[t] \in {"rLock", "rGate", "rRelock", "wFlag", "wCount", "wGate"}
SomebodyEnters ==
    (\E t \in Threads : Waiting(t)) ~> (Readers \cup Writers # {})

\* The lock implements the abstract reader-writer lock.
RW == INSTANCE RWLock WITH readers <- Readers, writers <- Writers
ImplementsRWLock == RW!Spec
=============================================================================
