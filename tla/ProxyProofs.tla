----------------------------- MODULE ProxyProofs -----------------------------
(***************************************************************************)
(* The reader-writer lock, for every finite set of threads: mutual         *)
(* exclusion, and that it implements RWLock.                               *)
(*                                                                         *)
(* Then the cache behind it under concurrent requests, for every number of *)
(* workers, set of keys and capacity: its chain and its array agree and    *)
(* the chain is a recency list, a hit returns a node of the key asked for, *)
(* duplicates stay bounded, and once the cache is full no thread enters a  *)
(* section.                                                                *)
(***************************************************************************)
EXTENDS Proxy, FiniteSetTheorems, NatInduction, SequenceTheorems

(***************************************************************************)
(* The lock.  Exclusive is not inductive: that a reader holds w follows    *)
(* from the count, the count is only protected by mutex, and w changes     *)
(* hands between readers without being released.  LockInv says who holds   *)
(* each semaphore and whom readcnt counts.                                 *)
(***************************************************************************)

\* mutex is free exactly when nobody holds it, and has one holder at most.
MutexInv ==
    /\ mutex \in {0, 1}
    /\ mutex = 1 <=> MutexHolders = {}
    /\ \A s, t \in MutexHolders : s = t

\* readcnt counts the counted; the thread at the gate is the only one, and the
\* thread that frees w leaves nobody counted behind.
CountInv ==
    /\ readcnt = Cardinality(Counted)
    /\ \A t \in Threads : lk[t] = "rGate" => Counted = {t}
    /\ \A t \in Threads : lk[t] = "rOpen" => Counted = {}

WInv ==
    /\ w \in {0, 1}
    /\ WOwned

LockInv == LockTypeOK /\ MutexInv /\ CountInv /\ WInv

-----------------------------------------------------------------------------
\* LockInv gives the invariants the runs check.
LEMMA LockInvImplies == LockInv => Exclusive /\ CountExact /\ WOwned
<1>1. SUFFICES ASSUME LockInv PROVE Exclusive
  BY DEF LockInv, MutexInv, CountInv, WInv, CountExact
<1>2. Readers \subseteq MutexHolders /\ Readers \subseteq GroupMembers /\ Writers \subseteq WHolders
  BY DEF Readers, Writers, MutexHolders, GroupMembers, WHolders
<1> QED
  BY <1>1, <1>2 DEF LockInv, MutexInv, WInv, WOwned, Exclusive

\* The counted threads are finitely many.
LEMMA CountedFinite == IsFiniteSet(Counted) /\ Cardinality(Counted) \in Nat
BY ThreadsAssumption, FS_Subset, FS_CardinalityType DEF Counted

\* Nobody is inside and both semaphores are free to begin with.
LEMMA LockInitInv == LockInit => LockInv
<1> SUFFICES ASSUME LockInit PROVE LockInv
  OBVIOUS
<1>1. Counted = {} /\ MutexHolders = {} /\ GroupMembers = {} /\ WHolders = {}
  BY DEF LockInit, Counted, MutexHolders, GroupMembers, WHolders
<1>2. Cardinality({}) = 0
  BY FS_EmptySet
<1> QED
  BY <1>1, <1>2
  DEF LockInit, LockInv, LockTypeOK, MutexInv, CountInv, WInv, WOwned, LockPC

-----------------------------------------------------------------------------
\* A step of one thread moves that thread only: the sets LockInv speaks of
\* change by that thread at most.
LEMMA TypeStep ==
    ASSUME LockTypeOK, CountInv, NEW t \in Threads,
           \/ CallLockReader(t) \/ CallLockWriter(t) \/ LockStep(t) \/ Unlock(t)
    PROVE  LockTypeOK'
<1>1. t \in Counted => readcnt \in Nat \ {0}
  <2> SUFFICES ASSUME t \in Counted PROVE Cardinality(Counted) # 0
    BY DEF CountInv, LockTypeOK
  <2> QED
    BY CountedFinite, FS_EmptySet
<1>2. CASE UnlockReader(t)
  BY <1>1, <1>2 DEF UnlockReader, LockTypeOK, GoTo, LockPC, ReaderPC, WriterPC, Counted
<1>3. CASE CallLockReader(t) \/ CallLockWriter(t) \/ UnlockWriter(t)
  BY <1>3 DEF CallLockReader, CallLockWriter, UnlockWriter, LockTypeOK, GoTo, LockPC, ReaderPC, WriterPC
<1>4. CASE LockMutex(t) \/ CountIn(t) \/ FirstReaderTakesW(t) \/ ReleaseMutex(t)
  BY <1>4 DEF LockMutex, CountIn, FirstReaderTakesW, ReleaseMutex,
     LockTypeOK, GoTo, LockPC, ReaderPC, WriterPC
<1>5. CASE RelockMutex(t)
  BY <1>5 DEF RelockMutex, LockTypeOK, GoTo, LockPC, ReaderPC, WriterPC
<1>6. CASE ClearPrevWrite(t)
  <2>1. isPrevWrite' \in BOOLEAN
    BY <1>6 DEF ClearPrevWrite
  <2> QED
    BY <1>6, <2>1 DEF ClearPrevWrite, LockTypeOK, GoTo, LockPC, ReaderPC, WriterPC
<1>7. CASE LastReaderFreesW(t) \/ LeaveReader(t)
  BY <1>7 DEF LastReaderFreesW, LeaveReader, LockTypeOK, GoTo, LockPC, ReaderPC, WriterPC
<1>8. CASE ReadPrevWrite(t) \/ ReadReadcnt(t)
  BY <1>8 DEF ReadPrevWrite, ReadReadcnt, LockTypeOK, GoTo, LockPC, ReaderPC, WriterPC
<1>9. CASE WriterTakesW(t) \/ LeaveWriter(t)
  BY <1>9 DEF WriterTakesW, LeaveWriter, LockTypeOK, GoTo, LockPC, ReaderPC, WriterPC
<1> QED
  BY <1>2, <1>3, <1>4, <1>5, <1>6, <1>7, <1>8, <1>9 DEF Unlock, LockStep

\* mutex is taken at rLock and rRelock and given back at rUnlock and rExit.
LEMMA MutexStep ==
    ASSUME LockTypeOK, MutexInv, NEW t \in Threads,
           \/ CallLockReader(t) \/ CallLockWriter(t) \/ LockStep(t) \/ Unlock(t)
    PROVE  MutexInv'
<1>1. CASE CallLockReader(t)
  BY <1>1 DEF CallLockReader, GoTo, LockTypeOK, MutexInv, MutexHolders
<1>2. CASE LockMutex(t)
  BY <1>2 DEF LockMutex, GoTo, LockTypeOK, MutexInv, MutexHolders
<1>3. CASE CountIn(t)
  BY <1>3 DEF CountIn, GoTo, LockTypeOK, MutexInv, MutexHolders
<1>4. CASE FirstReaderTakesW(t)
  BY <1>4 DEF FirstReaderTakesW, GoTo, LockTypeOK, MutexInv, MutexHolders
<1>5. CASE ReleaseMutex(t)
  BY <1>5 DEF ReleaseMutex, GoTo, LockTypeOK, MutexInv, MutexHolders
<1>6. CASE RelockMutex(t)
  BY <1>6 DEF RelockMutex, GoTo, LockTypeOK, MutexInv, MutexHolders
<1>7. CASE UnlockReader(t)
  BY <1>7 DEF UnlockReader, GoTo, LockTypeOK, MutexInv, MutexHolders
<1>8. CASE LastReaderFreesW(t)
  BY <1>8 DEF LastReaderFreesW, GoTo, LockTypeOK, MutexInv, MutexHolders
<1>9. CASE ClearPrevWrite(t)
  BY <1>9 DEF ClearPrevWrite, GoTo, LockTypeOK, MutexInv, MutexHolders
<1>10. CASE LeaveReader(t)
  BY <1>10 DEF LeaveReader, GoTo, LockTypeOK, MutexInv, MutexHolders
<1>11. CASE CallLockWriter(t)
  BY <1>11 DEF CallLockWriter, GoTo, LockTypeOK, MutexInv, MutexHolders
<1>12. CASE ReadPrevWrite(t)
  BY <1>12 DEF ReadPrevWrite, GoTo, LockTypeOK, MutexInv, MutexHolders
<1>13. CASE ReadReadcnt(t)
  BY <1>13 DEF ReadReadcnt, GoTo, LockTypeOK, MutexInv, MutexHolders
<1>14. CASE WriterTakesW(t)
  BY <1>14 DEF WriterTakesW, GoTo, LockTypeOK, MutexInv, MutexHolders
<1>15. CASE UnlockWriter(t)
  BY <1>15 DEF UnlockWriter, GoTo, LockTypeOK, MutexInv, MutexHolders
<1>16. CASE LeaveWriter(t)
  BY <1>16 DEF LeaveWriter, GoTo, LockTypeOK, MutexInv, MutexHolders
<1> QED
  BY <1>1, <1>2, <1>3, <1>4, <1>5, <1>6, <1>7, <1>8, <1>9, <1>10, <1>11, <1>12, <1>13, <1>14, <1>15, <1>16 DEF LockStep, Unlock

\* Only CountIn and UnlockReader change whom readcnt counts, and only by t.
LEMMA CountStep ==
    ASSUME LockTypeOK, MutexInv, CountInv, NEW t \in Threads,
           \/ CallLockReader(t) \/ CallLockWriter(t) \/ LockStep(t) \/ Unlock(t)
    PROVE  CountInv'
<1> USE DEF GoTo, LockTypeOK
<1>1. CASE CountIn(t)
  <2>1. t \notin Counted /\ Counted' = Counted \cup {t}
    BY <1>1 DEF CountIn, Counted
  <2>2. readcnt' = Cardinality(Counted')
    BY <1>1, <2>1, CountedFinite, FS_AddElement DEF CountInv, CountIn
  <2>3. lk'[t] = "rGate" => Counted = {}
    BY <1>1, CountedFinite, FS_EmptySet DEF CountInv, CountIn
  <2>4. \A u \in Threads \ {t} : lk'[u] \notin {"rGate", "rOpen"}
    BY <1>1 DEF CountIn, MutexInv, MutexHolders
  <2> QED
    BY <1>1, <2>1, <2>2, <2>3, <2>4 DEF CountInv, CountIn
<1>2. CASE UnlockReader(t)
  <2>1. t \in Counted /\ Counted' = Counted \ {t}
    BY <1>2 DEF UnlockReader, Counted
  <2>2. readcnt' = Cardinality(Counted')
    BY <1>2, <2>1, CountedFinite, FS_RemoveElement DEF CountInv, UnlockReader
  <2>3. IsFiniteSet(Counted')
    BY <2>1, CountedFinite, FS_Subset
  <2>4. lk'[t] = "rOpen" => Counted' = {}
    BY <1>2, <2>2, <2>3, FS_EmptySet DEF UnlockReader
  <2>5. \A u \in Threads \ {t} : lk'[u] \notin {"rGate", "rOpen"}
    BY <1>2 DEF UnlockReader, MutexInv, MutexHolders
  <2> QED
    BY <1>2, <2>2, <2>4, <2>5 DEF CountInv, UnlockReader
<1>3. ASSUME Counted' = Counted, readcnt' = readcnt,
             \A u \in Threads : lk'[u] \in {"rGate", "rOpen"} => lk'[u] = lk[u]
      PROVE  CountInv'
  BY <1>3 DEF CountInv
<1>4. CASE CallLockReader(t) \/ CallLockWriter(t) \/ UnlockWriter(t)
  BY <1>3, <1>4 DEF CallLockReader, CallLockWriter, UnlockWriter, Counted
<1>5. CASE LockMutex(t) \/ FirstReaderTakesW(t) \/ ReleaseMutex(t) \/ RelockMutex(t)
  BY <1>3, <1>5 DEF LockMutex, FirstReaderTakesW, ReleaseMutex, RelockMutex, Counted
<1>6. CASE LastReaderFreesW(t) \/ ClearPrevWrite(t) \/ LeaveReader(t)
  BY <1>3, <1>6 DEF LastReaderFreesW, ClearPrevWrite, LeaveReader, Counted
<1>7. CASE ReadPrevWrite(t) \/ ReadReadcnt(t) \/ WriterTakesW(t) \/ LeaveWriter(t)
  BY <1>3, <1>7 DEF ReadPrevWrite, ReadReadcnt, WriterTakesW, LeaveWriter, Counted
<1> QED
  BY <1>1, <1>2, <1>4, <1>5, <1>6, <1>7 DEF Unlock, LockStep

\* w is taken at the gates only, and freed by the reader that leaves nobody
\* counted behind or by the writer.
LEMMA WStep ==
    ASSUME LockTypeOK, MutexInv, CountInv, WInv, NEW t \in Threads,
           \/ CallLockReader(t) \/ CallLockWriter(t) \/ LockStep(t) \/ Unlock(t)
    PROVE  WInv'
<1> USE DEF GoTo, LockTypeOK
<1>1. CASE FirstReaderTakesW(t)
  <2>1. GroupMembers' = GroupMembers \cup {t} /\ WHolders' = WHolders
    BY <1>1 DEF FirstReaderTakesW, GroupMembers, WHolders
  <2> QED
    BY <1>1, <2>1 DEF FirstReaderTakesW, WInv, WOwned
<1>2. CASE WriterTakesW(t)
  <2>1. GroupMembers' = GroupMembers /\ WHolders' = WHolders \cup {t}
    BY <1>2 DEF WriterTakesW, GroupMembers, WHolders
  <2> QED
    BY <1>2, <2>1 DEF WriterTakesW, WInv, WOwned
<1>3. CASE CountIn(t)
  <2>1. WHolders' = WHolders
    BY <1>3 DEF CountIn, WHolders
  <2>2. CASE readcnt + 1 = 1
    <3>1. GroupMembers' = GroupMembers
      BY <1>3, <2>2 DEF CountIn, GroupMembers
    <3> QED
      BY <1>3, <2>1, <3>1 DEF CountIn, WInv, WOwned
  <2>3. CASE readcnt + 1 # 1
    <3>1. PICK u \in Counted : TRUE
      BY <2>3, CountedFinite, FS_EmptySet DEF CountInv
    <3>2. u # t /\ lk[u] = "rRelock"
      BY <1>3, <3>1 DEF CountIn, Counted, MutexInv, MutexHolders
    <3>3. u \in GroupMembers
      BY <3>1, <3>2 DEF Counted, GroupMembers
    <3>4. GroupMembers' = GroupMembers \cup {t}
      BY <1>3, <2>3 DEF CountIn, GroupMembers
    <3> QED
      BY <1>3, <2>1, <3>3, <3>4 DEF CountIn, WInv, WOwned
  <2> QED
    BY <2>2, <2>3
<1>4. CASE UnlockReader(t)
  <2>1. t \in GroupMembers /\ WHolders' = WHolders
    BY <1>4 DEF UnlockReader, GroupMembers, WHolders
  <2>2. CASE readcnt - 1 = 0
    <3>1. GroupMembers' = GroupMembers
      BY <1>4, <2>2 DEF UnlockReader, GroupMembers
    <3> QED
      BY <1>4, <2>1, <3>1 DEF UnlockReader, WInv, WOwned
  <2>3. CASE readcnt - 1 # 0
    <3>1. PICK u \in Counted : u # t
      <4>1. t \in Counted
        BY <1>4 DEF UnlockReader, Counted
      <4>2. Cardinality({t}) = 1
        BY FS_Singleton
      <4> QED
        BY <2>3, <4>1, <4>2 DEF CountInv
    <3>2. lk[u] = "rRelock"
      BY <1>4, <3>1 DEF UnlockReader, Counted, MutexInv, MutexHolders
    <3>3. GroupMembers' = GroupMembers \ {t} /\ u \in GroupMembers'
      BY <1>4, <2>3, <3>1, <3>2 DEF UnlockReader, Counted, GroupMembers
    <3> QED
      BY <1>4, <2>1, <3>3 DEF UnlockReader, WInv, WOwned
  <2> QED
    BY <2>2, <2>3
<1>5. CASE LastReaderFreesW(t)
  <2>1. GroupMembers = {t}
    <3> SUFFICES ASSUME NEW u \in GroupMembers, u # t PROVE FALSE
      BY <1>5 DEF LastReaderFreesW, GroupMembers
    <3>1. u \notin Counted
      BY <1>5 DEF LastReaderFreesW, CountInv
    <3>2. lk[u] = "rOpen"
      BY <3>1 DEF GroupMembers, Counted
    <3> QED
      BY <1>5, <3>2 DEF LastReaderFreesW, MutexInv, MutexHolders, GroupMembers
  <2>2. GroupMembers' = {} /\ WHolders' = WHolders
    BY <1>5, <2>1 DEF LastReaderFreesW, GroupMembers, WHolders
  <2> QED
    BY <1>5, <2>1, <2>2 DEF LastReaderFreesW, WInv, WOwned
<1>6. CASE LeaveWriter(t)
  <2>1. t \in WHolders /\ WHolders' = WHolders \ {t} /\ GroupMembers' = GroupMembers
    BY <1>6 DEF LeaveWriter, GroupMembers, WHolders
  <2> QED
    BY <1>6, <2>1 DEF LeaveWriter, WInv, WOwned
<1>7. ASSUME w' = w, GroupMembers' = GroupMembers, WHolders' = WHolders
      PROVE  WInv'
  BY <1>7 DEF WInv, WOwned
<1>8. CASE CallLockReader(t) \/ CallLockWriter(t) \/ UnlockWriter(t)
  BY <1>7, <1>8 DEF CallLockReader, CallLockWriter, UnlockWriter, GroupMembers, WHolders
<1>9. CASE LockMutex(t) \/ ReleaseMutex(t) \/ RelockMutex(t)
  BY <1>7, <1>9 DEF LockMutex, ReleaseMutex, RelockMutex, GroupMembers, WHolders
<1>10. CASE ClearPrevWrite(t) \/ LeaveReader(t) \/ ReadPrevWrite(t) \/ ReadReadcnt(t)
  BY <1>7, <1>10 DEF ClearPrevWrite, LeaveReader, ReadPrevWrite, ReadReadcnt, GroupMembers, WHolders
<1> QED
  BY <1>1, <1>2, <1>3, <1>4, <1>5, <1>6, <1>8, <1>9, <1>10 DEF Unlock, LockStep

-----------------------------------------------------------------------------
\* LockInv is an invariant of the lock.
THEOREM LockInvariant == LockSpec => []LockInv
<1>1. LockInv /\ [LockNext]_lockVars => LockInv'
  <2> SUFFICES ASSUME LockInv, [LockNext]_lockVars PROVE LockInv'
    OBVIOUS
  <2>1. CASE LockNext
    BY <2>1, TypeStep, MutexStep, CountStep, WStep DEF LockNext, LockInv
  <2>2. CASE UNCHANGED lockVars
    BY <2>2 DEF lockVars, LockInv, LockTypeOK, MutexInv, CountInv, WInv, WOwned,
       MutexHolders, Counted, GroupMembers, WHolders
  <2> QED
    BY <2>1, <2>2
<1> QED
  BY LockInitInv, <1>1, PTL DEF LockSpec

\* The variables keep their types.
THEOREM TypeCorrect == LockSpec => []LockTypeOK
BY LockInvariant, PTL DEF LockInv

\* A writer is alone in its critical section, and so is a reader: lock_reader
\* returns with mutex held (reader-writer.c:18).
THEOREM MutualExclusion == LockSpec => []Exclusive
BY LockInvariant, LockInvImplies, PTL

\* readcnt never lies, and the semaphores stay binary.
THEOREM ReadersCounted == LockSpec => []CountExact
BY LockInvariant, LockInvImplies, PTL

\* w is free exactly when neither the readers nor a writer own it.
THEOREM WHasOneOwner == LockSpec => []WOwned
BY LockInvariant, LockInvImplies, PTL

-----------------------------------------------------------------------------
\* A step of the lock is a step of the abstract lock or leaves it alone.
LEMMA LockStepRefines ==
    ASSUME LockInv, LockInv', NEW t \in Threads,
           \/ CallLockReader(t) \/ CallLockWriter(t) \/ LockStep(t) \/ Unlock(t)
    PROVE  RW!Next \/ UNCHANGED <<Readers, Writers>>
<1> USE DEF GoTo, LockTypeOK, LockInv
<1>1. CASE RelockMutex(t)
  <2>1. Readers' = Readers \cup {t} /\ Writers' = Writers /\ t \notin Readers
    BY <1>1 DEF RelockMutex, Readers, Writers
  <2>2. Writers = {}
    <3>1. t \in GroupMembers
      BY <1>1 DEF RelockMutex, GroupMembers
    <3> QED
      BY <3>1 DEF WInv, WOwned, WHolders, Writers
  <2> QED
    BY <2>1, <2>2 DEF RW!Next, RW!EnterReader
<1>2. CASE UnlockReader(t)
  <2>1. Readers' = Readers \ {t} /\ Writers' = Writers /\ t \in Readers
    BY <1>2 DEF UnlockReader, Readers, Writers
  <2> QED
    BY <2>1 DEF RW!Next, RW!LeaveReader
<1>3. CASE WriterTakesW(t)
  <2>1. GroupMembers = {} /\ WHolders = {}
    BY <1>3 DEF WriterTakesW, WInv, WOwned
  <2>2. Readers = {} /\ Writers = {}
    BY <2>1 DEF Readers, Writers, GroupMembers, WHolders
  <2>3. Readers' = Readers /\ Writers' = {t}
    BY <1>3, <2>2 DEF WriterTakesW, Readers, Writers
  <2> QED
    BY <2>2, <2>3 DEF RW!Next, RW!EnterWriter
<1>4. CASE UnlockWriter(t)
  <2>1. Readers' = Readers /\ Writers' = Writers \ {t} /\ t \in Writers
    BY <1>4 DEF UnlockWriter, Readers, Writers
  <2> QED
    BY <2>1 DEF RW!Next, RW!LeaveWriter
<1>5. CASE CallLockReader(t) \/ CallLockWriter(t) \/ LockMutex(t) \/ CountIn(t)
  BY <1>5 DEF CallLockReader, CallLockWriter, LockMutex, CountIn, Readers, Writers
<1>6. CASE FirstReaderTakesW(t) \/ ReleaseMutex(t) \/ LastReaderFreesW(t) \/ ClearPrevWrite(t)
  BY <1>6 DEF FirstReaderTakesW, ReleaseMutex, LastReaderFreesW, ClearPrevWrite, Readers, Writers
<1>7. CASE LeaveReader(t) \/ ReadPrevWrite(t) \/ ReadReadcnt(t) \/ LeaveWriter(t)
  BY <1>7 DEF LeaveReader, ReadPrevWrite, ReadReadcnt, LeaveWriter, Readers, Writers
<1> QED
  BY <1>1, <1>2, <1>3, <1>4, <1>5, <1>6, <1>7 DEF Unlock, LockStep

\* The semaphores, the counter and the flag together implement a reader-writer
\* lock.
THEOREM LockImplementsRWLock == LockSpec => ImplementsRWLock
<1>1. LockInit => RW!Init
  BY DEF LockInit, RW!Init, Readers, Writers
<1>2. LockInv /\ LockInv' /\ [LockNext]_lockVars => [RW!Next]_(RW!vars)
  <2> SUFFICES ASSUME LockInv, LockInv', [LockNext]_lockVars
               PROVE  [RW!Next]_(RW!vars)
    OBVIOUS
  <2>1. CASE LockNext
    BY <2>1, LockStepRefines DEF LockNext, RW!vars
  <2>2. CASE UNCHANGED lockVars
    BY <2>2 DEF lockVars, RW!vars, Readers, Writers
  <2> QED
    BY <2>1, <2>2
<1> QED
  BY LockInvariant, <1>1, <1>2, PTL DEF LockSpec, ImplementsRWLock, RW!Spec

-----------------------------------------------------------------------------
\* The cache.  A thread caught in the eviction keeps w while it asks for the lock again,
\* as a reader: what LockInv says of w holds with it as a third kind of owner.
Evicting == {t \in Threads : at[t] = "evict"}

WOwnedOrStuck ==
    /\ w \in {0, 1}
    /\ w = 1 <=> (GroupMembers = {} /\ WHolders = {} /\ Evicting = {})
    /\ GroupMembers # {} => WHolders = {} /\ Evicting = {}
    /\ \A s, t \in WHolders \cup Evicting : s = t
    /\ \A t \in Evicting : lk[t] \in {"rLock", "rCount", "rGate"}

SectionInv == LockTypeOK /\ MutexInv /\ CountInv /\ WOwnedOrStuck

\* Positions are given out in order, and so are nodes.
MapInv ==
    /\ current_capacity \in 0..Capacity
    /\ cachemap = [p \in Positions |-> IF p < current_capacity THEN p + 1 ELSE NULL]

\* What a thread found in one section still stands when it comes to the next.
CallInv ==
    /\ at \in [Threads -> ProxyPC]
    /\ pos \in [Threads -> Positions \cup {NoPos}]
    /\ node \in [Threads -> Nodes \cup {NULL}]
    /\ key \in [Threads -> Keys \cup {NoKey}]
    /\ nodeKey \in [Nodes -> Keys \cup {NoKey}]
    /\ \A t \in Threads :
          /\ at[t] \in {"seen", "stamp", "fetch"} =>
                /\ pos[t] \in 0..current_capacity-1
                /\ nodeKey[pos[t] + 1] = key[t]
          /\ at[t] \in {"move", "hit"} =>
                /\ node[t] \in 1..current_capacity
                /\ nodeKey[node[t]] = key[t]

\* The nodes of a key and the threads that are about to add one.
Inserting(k) == {t \in Threads : at[t] = "insert" /\ key[t] = k}

CopiesInv ==
    \A k \in Keys : Cardinality(Matches(k)) + Cardinality(Inserting(k)) <= Cardinality(Threads)

\* o lists head, the c nodes in use in the order of the chain, and tail.
Linked(o, c, nx, pv) ==
    /\ o \in [0..c+1 -> Links]
    /\ o[0] = HeadNode /\ o[c+1] = TailNode
    /\ \A i \in 1..c : o[i] \in 1..c
    /\ \A i, j \in 1..c : o[i] = o[j] => i = j
    /\ \A n \in 1..c : \E i \in 1..c : o[i] = n
    /\ \A i \in 0..c : nx[o[i]] = o[i+1] /\ pv[o[i+1]] = o[i]

LinksInv ==
    /\ next \in [Links -> Links] /\ prev \in [Links -> Links]
    /\ next[TailNode] = TailNode
    /\ \E o \in [0..current_capacity+1 -> Links] : Linked(o, current_capacity, next, prev)

CacheInv == MapInv /\ CallInv /\ LinksInv

-----------------------------------------------------------------------------
\* The lock's part.  Every step is a step of the lock, leaves the lock alone,
\* or starts an eviction.
LockMoves(t) == CallLockReader(t) \/ CallLockWriter(t) \/ LockStep(t) \/ Unlock(t)

\* While somebody is evicting w stays taken, and nobody gets past a gate.
LEMMA StuckLockStep ==
    ASSUME SectionInv, NEW t \in Threads, LockMoves(t), NEW e \in Evicting
    PROVE  /\ w' = w /\ GroupMembers' = {} /\ WHolders' = {}
           /\ lk'[e] \in {"rLock", "rCount", "rGate"}
<1> USE DEF GoTo, LockTypeOK
<1>1. /\ w = 0 /\ GroupMembers = {} /\ WHolders = {}
      /\ e \in Threads /\ lk[e] \in {"rLock", "rCount", "rGate"}
  <2>1. e \in Threads /\ lk[e] \in {"rLock", "rCount", "rGate"}
    BY DEF SectionInv, WOwnedOrStuck, Evicting
  <2>2. w = 0 /\ GroupMembers = {}
    BY DEF SectionInv, WOwnedOrStuck
  <2>3. e \notin WHolders
    BY <2>1 DEF WHolders
  <2> QED
    BY <2>1, <2>2, <2>3 DEF SectionInv, WOwnedOrStuck
<1>2. lk[t] \notin {"rUnlock", "rRelock", "reading", "rOpen", "writing", "wExit"}
  BY <1>1 DEF GroupMembers, WHolders
<1>3. ASSUME w' = w, lk' = [lk EXCEPT ![t] = lk'[t]], lk'[t] \in LockPC,
             lk'[t] \notin {"rUnlock", "rRelock", "reading", "rOpen", "writing", "wExit"},
             t = e => lk'[t] \in {"rLock", "rCount", "rGate"}
      PROVE  /\ w' = w /\ GroupMembers' = {} /\ WHolders' = {}
             /\ lk'[e] \in {"rLock", "rCount", "rGate"}
  BY <1>1, <1>3 DEF SectionInv, GroupMembers, WHolders
<1>4. CASE CountIn(t)
  <2>1. Counted = {}
    <3> SUFFICES ASSUME NEW u \in Counted PROVE FALSE
      OBVIOUS
    <3>1. lk[u] = "rGate" /\ u \in Threads
      BY <1>1 DEF Counted, GroupMembers
    <3>2. u \in MutexHolders /\ t \in MutexHolders /\ u # t
      BY <1>4, <3>1 DEF CountIn, MutexHolders
    <3> QED
      BY <3>2 DEF SectionInv, MutexInv
  <2>2. readcnt = 0
    BY <2>1, FS_EmptySet DEF SectionInv, CountInv
  <2> QED
    BY <1>3, <1>4, <2>2 DEF CountIn, LockPC, ReaderPC, SectionInv
<1>5. CASE LockMutex(t)
  BY <1>3, <1>5 DEF LockMutex, LockPC, ReaderPC, SectionInv
<1>6. CASE ClearPrevWrite(t) \/ LeaveReader(t)
  BY <1>1, <1>3, <1>6 DEF ClearPrevWrite, LeaveReader, LockPC, ReaderPC, SectionInv
<1>7. CASE ReadPrevWrite(t) \/ ReadReadcnt(t)
  BY <1>1, <1>3, <1>7 DEF ReadPrevWrite, ReadReadcnt, LockPC, WriterPC, SectionInv
<1>8. CASE CallLockReader(t) \/ CallLockWriter(t)
  BY <1>1, <1>3, <1>8 DEF CallLockReader, CallLockWriter, LockPC, ReaderPC, WriterPC, SectionInv
<1>9. ~(FirstReaderTakesW(t) \/ WriterTakesW(t))
  BY <1>1 DEF FirstReaderTakesW, WriterTakesW
<1>10. ~(ReleaseMutex(t) \/ RelockMutex(t) \/ LastReaderFreesW(t) \/ LeaveWriter(t) \/ Unlock(t))
  BY <1>2 DEF ReleaseMutex, RelockMutex, LastReaderFreesW, LeaveWriter, Unlock, UnlockReader, UnlockWriter
<1> QED
  BY <1>4, <1>5, <1>6, <1>7, <1>8, <1>9, <1>10 DEF LockMoves, LockStep

\* A step of the lock keeps its owners, with or without a thread stuck.
LEMMA LockMoveKeeps ==
    ASSUME SectionInv, NEW t \in Threads, LockMoves(t), Evicting' = Evicting
    PROVE  SectionInv'
<1>1. LockTypeOK' /\ MutexInv' /\ CountInv'
  BY TypeStep, MutexStep, CountStep DEF LockMoves, SectionInv
<1>2. CASE Evicting = {}
  <2>1. WInv
    BY <1>2 DEF SectionInv, WOwnedOrStuck, WInv, WOwned
  <2>2. WInv'
    BY <2>1, WStep DEF LockMoves, SectionInv
  <2> QED
    BY <1>1, <1>2, <2>2 DEF SectionInv, WOwnedOrStuck, WInv, WOwned
<1>3. CASE Evicting # {}
  <2>1. PICK e \in Evicting : TRUE
    BY <1>3
  <2>2. Evicting = {e} /\ w = 0
    BY <2>1 DEF SectionInv, WOwnedOrStuck
  <2>3. /\ w' = 0 /\ GroupMembers' = {} /\ WHolders' = {}
        /\ lk'[e] \in {"rLock", "rCount", "rGate"}
    BY <2>1, <2>2, StuckLockStep
  <2> QED
    BY <1>1, <2>2, <2>3 DEF SectionInv, WOwnedOrStuck
<1> QED
  BY <1>2, <1>3

\* An insertion that finds the cache full turns the writer into a stuck owner.
LEMMA EvictionStarts ==
    ASSUME SectionInv, CallInv, NEW t \in Threads, InsertIntoFull(t)
    PROVE  SectionInv'
<1> USE DEF InsertIntoFull, GoTo, GoOn, LockTypeOK
<1>1. LockTypeOK'
  BY DEF SectionInv, LockPC, ReaderPC
<1>2. MutexInv'
  BY DEF SectionInv, MutexInv, MutexHolders
<1>3. Counted' = Counted
  BY DEF SectionInv, Counted
<1>4. CountInv'
  BY <1>3 DEF SectionInv, CountInv
<1>5. WHolders' = WHolders \ {t} /\ t \in WHolders /\ GroupMembers' = GroupMembers
  BY DEF SectionInv, WHolders, GroupMembers
<1>6. Evicting' = Evicting \cup {t}
  BY DEF CallInv, Evicting
<1>7. WHolders = {t} /\ Evicting \subseteq {t} /\ GroupMembers = {} /\ w = 0
  BY <1>5 DEF SectionInv, WOwnedOrStuck
<1>8. lk'[t] = "rLock"
  BY DEF SectionInv
<1>9. WOwnedOrStuck'
  BY <1>5, <1>6, <1>7, <1>8 DEF WOwnedOrStuck
<1> QED
  BY <1>1, <1>2, <1>4, <1>9 DEF SectionInv

\* Every step of the proxy keeps the lock's part.
LEMMA SectionStep ==
    ASSUME SectionInv, CallInv, [Next]_vars
    PROVE  SectionInv'
<1>1. ASSUME UNCHANGED lockVars, Evicting' = Evicting PROVE SectionInv'
  BY <1>1 DEF lockVars, SectionInv, LockTypeOK, MutexInv, CountInv, WOwnedOrStuck,
     MutexHolders, Counted, GroupMembers, WHolders
<1>2. CASE UNCHANGED vars
  BY <1>1, <1>2 DEF vars, lruVars, callVars, Evicting, lockVars
<1>3. ASSUME NEW t \in Threads, at[t] # "evict", NEW s, s # "evict", GoOn(t, s)
      PROVE  Evicting' = Evicting
  BY <1>3 DEF GoOn, CallInv, Evicting
<1>4. ASSUME NEW t \in Threads, CacheStep(t) PROVE SectionInv'
  <2>1. CASE InsertIntoFull(t)
    BY <2>1, EvictionStarts
  <2>2. CASE EnterSection(t) \/ InsideLock(t)
    <3>1. Evicting' = Evicting
      BY <2>2 DEF EnterSection, InsideLock, callVars, Evicting
    <3> QED
      BY <2>2, <3>1, LockMoveKeeps DEF EnterSection, InsideLock, LockMoves
  <2>3. CASE Scan(t)
    <3>1. Evicting' = Evicting
      BY <1>3, <2>3 DEF Scan
    <3> QED
      BY <2>3, <3>1, LockMoveKeeps DEF Scan, LockMoves, Unlock
  <2>4. CASE Recheck(t)
    BY <1>1, <1>3, <2>4 DEF Recheck
  <2>5. CASE Stamp(t) \/ Insert(t)
    <3>1. Evicting' = Evicting
      BY <1>3, <2>5 DEF Stamp, Insert
    <3> QED
      BY <2>5, <3>1, LockMoveKeeps DEF Stamp, Insert, LockMoves, Unlock
  <2>6. CASE Fetch(t) \/ Move(t)
    <3>1. Evicting' = Evicting
      BY <1>3, <2>6 DEF Fetch, Move
    <3> QED
      BY <2>6, <3>1, LockMoveKeeps DEF Fetch, Move, LockMoves, Unlock
  <2> QED
    BY <1>4, <2>1, <2>2, <2>3, <2>4, <2>5, <2>6 DEF CacheStep
<1>5. ASSUME NEW t \in Threads,
             Request(t) \/ ReplyFromCache(t) \/ Forward(t) \/ ConnectFails(t) \/ Finish(t)
      PROVE  SectionInv'
  <2>1. UNCHANGED lockVars
    BY <1>5 DEF Request, ReplyFromCache, Forward, ConnectFails, Finish, Return, lruVars
  <2>2. CASE ConnectFails(t)
    BY <1>1, <2>1, <2>2 DEF ConnectFails, lruVars, callVars, Evicting
  <2>3. CASE Request(t) \/ ReplyFromCache(t) \/ Finish(t)
    BY <1>1, <1>3, <2>1, <2>3 DEF Request, ReplyFromCache, Finish, Return
  <2>4. CASE Forward(t)
    <3>1. at[t] = "miss" /\ (GoOn(t, "idle") \/ GoOn(t, "scan"))
      BY <2>4 DEF Forward, Return
    <3> QED
      BY <1>1, <1>3, <2>1, <3>1
  <2> QED
    BY <1>5, <2>2, <2>3, <2>4
<1> QED
  BY <1>2, <1>4, <1>5 DEF Next

-----------------------------------------------------------------------------
\* The array: positions are given out from 0 on, and the nodes with them.
LEMMA FreePosition ==
    ASSUME MapInv, current_capacity < Capacity
    PROVE  get_free_cache_pos = current_capacity
<1>1. Free = current_capacity..Capacity-1
  BY CacheAssumption DEF MapInv, Free, Positions, NULL
<1>2. current_capacity \in Free /\ \A q \in Free : current_capacity <= q
  BY <1>1, CacheAssumption DEF MapInv
<1>3. \A p \in Free : (\A q \in Free : p <= q) => p = current_capacity
  BY <1>1, <1>2, CacheAssumption DEF MapInv
<1> QED
  BY <1>2, <1>3, Zenon DEF get_free_cache_pos

\* Only Insert gives out a position and a node.
LEMMA MapStep ==
    ASSUME MapInv, [Next]_vars
    PROVE  MapInv'
<1>1. ASSUME NEW t \in Threads, Insert(t) PROVE MapInv'
  <2>1. get_free_cache_pos = current_capacity /\ current_capacity \in Positions
    BY <1>1, FreePosition, CacheAssumption DEF Insert, MapInv, Positions
  <2>2. cachemap' = [cachemap EXCEPT ![current_capacity] = current_capacity + 1]
    BY <1>1, <2>1 DEF Insert
  <2>3. current_capacity' = current_capacity + 1 /\ current_capacity' \in 0..Capacity
    BY <1>1, CacheAssumption DEF Insert, MapInv
  <2>4. \A p \in Positions : p < current_capacity + 1 <=> p < current_capacity \/ p = current_capacity
    BY CacheAssumption DEF MapInv, Positions
  <2>5. cachemap' = [p \in Positions |-> IF p < current_capacity + 1 THEN p + 1 ELSE NULL]
    BY <2>1, <2>2, <2>4 DEF MapInv
  <2> QED
    BY <2>3, <2>5 DEF MapInv
<1>2. ASSUME UNCHANGED <<cachemap, current_capacity>> PROVE MapInv'
  BY <1>2 DEF MapInv
<1>3. ASSUME NEW t \in Threads, CacheStep(t), ~Insert(t) PROVE MapInv'
  BY <1>2, <1>3 DEF CacheStep, EnterSection, InsideLock, Scan, Recheck, Stamp, Fetch, Move,
     InsertIntoFull, cacheVars
<1>4. ASSUME NEW t \in Threads,
             Request(t) \/ ReplyFromCache(t) \/ Forward(t) \/ ConnectFails(t) \/ Finish(t)
      PROVE  MapInv'
  BY <1>2, <1>4 DEF Request, ReplyFromCache, Forward, ConnectFails, Finish, Return, lruVars, cacheVars
<1> QED
  BY <1>1, <1>2, <1>3, <1>4 DEF Next, vars, lruVars, cacheVars

\* The nodes of a key are those whose key it is, at the position before them.
LEMMA MatchesAre ==
    ASSUME MapInv, NEW k
    PROVE  Matches(k) = {p \in 0..current_capacity-1 : nodeKey[p + 1] = k}
BY CacheAssumption DEF MapInv, Matches, Positions, NULL

\* get_cache_pos finds a position with the key, or none has it.
LEMMA FirstMatchIs ==
    ASSUME MapInv, NEW k
    PROVE  /\ FirstMatch(k) = NoPos <=> Matches(k) = {}
           /\ FirstMatch(k) # NoPos => FirstMatch(k) \in Matches(k)
<1>1. Matches(k) \in SUBSET Nat
  BY DEF Matches, Positions
<1>2. CASE Matches(k) = {}
  BY <1>2 DEF FirstMatch
<1>3. CASE Matches(k) # {}
  <2>1. \E p \in Matches(k) : \A q \in Matches(k) : p <= q
    BY <1>1, <1>3, LeastElement
  <2>2. FirstMatch(k) \in Matches(k)
    BY <1>3, <2>1, Zenon DEF FirstMatch
  <2> QED
    BY <1>1, <1>3, <2>2 DEF NoPos
<1> QED
  BY <1>2, <1>3

-----------------------------------------------------------------------------
\* The nodes in use are one more than their positions.
LEMMA InRange ==
    ASSUME NEW c \in Nat, NEW d \in Int, c <= d, NEW q \in 0..c-1
    PROVE  q + 1 \in 1..c /\ q \in 0..d-1
OBVIOUS

\* The calls: a node never loses its key, and a position never its node.
LEMMA CallStep ==
    ASSUME MapInv, CallInv, [Next]_vars
    PROVE  CallInv'
<1> USE DEF GoOn
<1>1. /\ current_capacity \in 0..Capacity /\ Capacity \in Nat
      /\ current_capacity' \in 0..Capacity /\ current_capacity <= current_capacity'
  <2>1. ASSUME NEW t \in Threads, CacheStep(t)
        PROVE  current_capacity' = current_capacity \/ Insert(t)
    BY <2>1 DEF CacheStep, EnterSection, InsideLock, Scan, Recheck, Stamp, Fetch, Move,
       InsertIntoFull, cacheVars
  <2>2. ASSUME NEW t \in Threads,
               Request(t) \/ ReplyFromCache(t) \/ Forward(t) \/ ConnectFails(t) \/ Finish(t)
        PROVE  current_capacity' = current_capacity
    BY <2>2 DEF Request, ReplyFromCache, Forward, ConnectFails, Finish, Return, lruVars, cacheVars
  <2> QED
    BY <2>1, <2>2, CacheAssumption DEF MapInv, Insert, Next, vars, lruVars, cacheVars
<1>2. /\ nodeKey' \in [Nodes -> Keys \cup {NoKey}]
      /\ \A n \in 1..current_capacity : nodeKey'[n] = nodeKey[n]
  <2>1. ASSUME NEW t \in Threads, Insert(t) \/ InsertIntoFull(t)
        PROVE  nodeKey' = [nodeKey EXCEPT ![current_capacity + 1] = key[t]]
    BY <2>1 DEF Insert, InsertIntoFull
  <2>2. ASSUME NEW t \in Threads, CacheStep(t)
        PROVE  nodeKey' = nodeKey \/ nodeKey' = [nodeKey EXCEPT ![current_capacity + 1] = key[t]]
    BY <2>1, <2>2 DEF CacheStep, EnterSection, InsideLock, Scan, Recheck, Stamp, Fetch, Move, cacheVars
  <2>3. ASSUME NEW t \in Threads,
               Request(t) \/ ReplyFromCache(t) \/ Forward(t) \/ ConnectFails(t) \/ Finish(t)
        PROVE  nodeKey' = nodeKey
    BY <2>3 DEF Request, ReplyFromCache, Forward, ConnectFails, Finish, Return, lruVars, cacheVars
  <2>4. \/ nodeKey' = nodeKey
        \/ \E t \in Threads : nodeKey' = [nodeKey EXCEPT ![current_capacity + 1] = key[t]]
    BY <2>2, <2>3 DEF Next, vars, lruVars, cacheVars
  <2> QED
    BY <1>1, <2>4 DEF CallInv, Nodes
<1>3. ASSUME UNCHANGED <<at, pos, node, key>> PROVE CallInv'
  BY <1>1, <1>2, <1>3 DEF CallInv
\* The other threads' calls are where they were.
<1>4. ASSUME NEW t \in Threads, NEW a \in ProxyPC, NEW p \in Positions \cup {NoPos},
             NEW n \in Nodes \cup {NULL}, NEW k \in Keys \cup {NoKey},
             at' = [at EXCEPT ![t] = a], pos' = [pos EXCEPT ![t] = p],
             node' = [node EXCEPT ![t] = n], key' = [key EXCEPT ![t] = k],
             a \in {"seen", "stamp", "fetch"} =>
                p \in 0..current_capacity-1 /\ nodeKey[p + 1] = k,
             a \in {"move", "hit"} => n \in 1..current_capacity /\ nodeKey[n] = k
      PROVE  CallInv'
  <2>1. at' \in [Threads -> ProxyPC] /\ pos' \in [Threads -> Positions \cup {NoPos}]
    BY <1>4 DEF CallInv
  <2>2. node' \in [Threads -> Nodes \cup {NULL}] /\ key' \in [Threads -> Keys \cup {NoKey}]
    BY <1>4 DEF CallInv
  <2>3. at'[t] = a /\ pos'[t] = p /\ node'[t] = n /\ key'[t] = k
    BY <1>4 DEF CallInv
  <2>4. \A u \in Threads \ {t} :
          at'[u] = at[u] /\ pos'[u] = pos[u] /\ node'[u] = node[u] /\ key'[u] = key[u]
    BY <1>4 DEF CallInv
  <2>5. \A q \in 0..current_capacity-1 :
          q \in 0..current_capacity'-1 /\ nodeKey'[q + 1] = nodeKey[q + 1]
    <3> SUFFICES ASSUME NEW q \in 0..current_capacity-1
                 PROVE  q \in 0..current_capacity'-1 /\ nodeKey'[q + 1] = nodeKey[q + 1]
      OBVIOUS
    <3>1. current_capacity \in Nat /\ current_capacity' \in Int
      BY <1>1
    <3>2. q + 1 \in 1..current_capacity /\ q \in 0..current_capacity'-1
      BY <1>1, <3>1, InRange
    <3> QED
      BY <1>2, <3>2
  <2>6. \A q \in 1..current_capacity : q \in 1..current_capacity' /\ nodeKey'[q] = nodeKey[q]
    BY <1>1, <1>2
  <2>7. ASSUME NEW u \in Threads, at'[u] \in {"seen", "stamp", "fetch"}
        PROVE  pos'[u] \in 0..current_capacity'-1 /\ nodeKey'[pos'[u] + 1] = key'[u]
    <3>1. pos'[u] \in 0..current_capacity-1 /\ nodeKey[pos'[u] + 1] = key'[u]
      BY <1>4, <2>3, <2>4, <2>7 DEF CallInv
    <3> QED
      BY <2>5, <3>1
  <2>8. ASSUME NEW u \in Threads, at'[u] \in {"move", "hit"}
        PROVE  node'[u] \in 1..current_capacity' /\ nodeKey'[node'[u]] = key'[u]
    <3>1. node'[u] \in 1..current_capacity /\ nodeKey[node'[u]] = key'[u]
      BY <1>4, <2>3, <2>4, <2>8 DEF CallInv
    <3> QED
      BY <2>6, <3>1
  <2> QED
    BY <1>2, <2>1, <2>2, <2>7, <2>8 DEF CallInv
\* The clauses of <1>4 for a call that keeps its locals.
<1>5. ASSUME NEW t \in Threads, NEW a \in ProxyPC, GoOn(t, a), UNCHANGED <<pos, node, key>>,
             a \in {"seen", "stamp", "fetch"} => at[t] \in {"seen", "stamp", "fetch"},
             a \in {"move", "hit"} => at[t] \in {"move", "hit"}
      PROVE  CallInv'
  <2>1. pos' = [pos EXCEPT ![t] = pos[t]] /\ pos[t] \in Positions \cup {NoPos}
    BY <1>5 DEF CallInv
  <2>2. node' = [node EXCEPT ![t] = node[t]] /\ node[t] \in Nodes \cup {NULL}
    BY <1>5 DEF CallInv
  <2>3. key' = [key EXCEPT ![t] = key[t]] /\ key[t] \in Keys \cup {NoKey}
    BY <1>5 DEF CallInv
  <2>4. at[t] \in {"seen", "stamp", "fetch"} =>
           pos[t] \in 0..current_capacity-1 /\ nodeKey[pos[t] + 1] = key[t]
    BY DEF CallInv
  <2>5. at[t] \in {"move", "hit"} =>
           node[t] \in 1..current_capacity /\ nodeKey[node[t]] = key[t]
    BY DEF CallInv
  <2>6. a \in {"seen", "stamp", "fetch"} =>
           pos[t] \in 0..current_capacity-1 /\ nodeKey[pos[t] + 1] = key[t]
    BY <1>5, <2>4
  <2>7. a \in {"move", "hit"} =>
           node[t] \in 1..current_capacity /\ nodeKey[node[t]] = key[t]
    BY <1>5, <2>5
  <2>8. at' = [at EXCEPT ![t] = a]
    BY <1>5
  <2> QED
    BY <1>4, <2>1, <2>2, <2>3, <2>6, <2>7, <2>8
<1> USE DEF ProxyPC, Sections, ReaderSections, WriterSections
<1>6. ASSUME NEW t \in Threads, Scan(t) PROVE CallInv'
  <2> DEFINE p == FirstMatch(key[t])
  <2>1. p # NoPos => p \in 0..current_capacity-1 /\ nodeKey[p + 1] = key[t]
    BY FirstMatchIs, MatchesAre
  <2>2. p \in Positions \cup {NoPos}
    BY <1>1, <2>1 DEF Positions
  <2>3. PICK a \in {"seen", "miss", "insert"} : GoOn(t, a) /\ (a = "seen" => p # NoPos)
    BY <1>6 DEF Scan
  <2>4. node' = [node EXCEPT ![t] = node[t]] /\ node[t] \in Nodes \cup {NULL}
    BY <1>6 DEF CallInv, Scan
  <2>5. key' = [key EXCEPT ![t] = key[t]] /\ key[t] \in Keys \cup {NoKey}
    BY <1>6 DEF CallInv, Scan
  <2>6. pos' = [pos EXCEPT ![t] = p]
    BY <1>6 DEF Scan
  <2> HIDE DEF p
  <2> QED
    BY <1>4, <2>1, <2>2, <2>3, <2>4, <2>5, <2>6
<1>7. ASSUME NEW t \in Threads, Fetch(t) PROVE CallInv'
  <2>1. pos[t] \in 0..current_capacity-1 /\ nodeKey[pos[t] + 1] = key[t]
    BY <1>7 DEF CallInv, Fetch
  <2>2. cachemap[pos[t]] = pos[t] + 1
    BY <1>1, <2>1 DEF MapInv, Positions
  <2>3. pos' = [pos EXCEPT ![t] = pos[t]] /\ pos[t] \in Positions \cup {NoPos}
    BY <1>7 DEF CallInv, Fetch
  <2>4. key' = [key EXCEPT ![t] = key[t]] /\ key[t] \in Keys \cup {NoKey}
    BY <1>7 DEF CallInv, Fetch
  <2>5. node' = [node EXCEPT ![t] = pos[t] + 1]
    BY <1>7, <2>2 DEF Fetch
  <2>6. pos[t] + 1 \in 1..current_capacity /\ pos[t] + 1 \in Nodes \cup {NULL}
    BY <1>1, <2>1 DEF Nodes
  <2>7. GoOn(t, "move")
    BY <1>7 DEF Fetch
  <2> QED
    BY <1>4, <2>1, <2>3, <2>4, <2>5, <2>6, <2>7
<1>8. ASSUME NEW t \in Threads, CacheStep(t) PROVE CallInv'
  <2>1. CASE EnterSection(t) \/ InsideLock(t)
    BY <1>3, <2>1 DEF EnterSection, InsideLock, callVars
  <2>2. CASE Recheck(t)
    <3>1. PICK a \in {"stamp", "fetch"} : GoOn(t, a)
      BY <2>2 DEF Recheck
    <3> QED
      BY <1>5, <2>2, <3>1 DEF Recheck
  <2>3. CASE Stamp(t)
    BY <1>5, <2>3 DEF Stamp
  <2>4. CASE Move(t)
    <3>1. PICK a \in {"hit", "done"} : GoOn(t, a)
      BY <2>4 DEF Move
    <3> QED
      BY <1>5, <2>4, <3>1 DEF Move
  <2>5. CASE Insert(t)
    BY <1>5, <2>5 DEF Insert
  <2>6. CASE InsertIntoFull(t)
    BY <1>5, <2>6 DEF InsertIntoFull
  <2> QED
    BY <1>6, <1>7, <1>8, <2>1, <2>2, <2>3, <2>4, <2>5, <2>6 DEF CacheStep
<1>9. ASSUME NEW t \in Threads, Return(t) PROVE CallInv'
  <2>1. at' = [at EXCEPT ![t] = "idle"] /\ pos' = [pos EXCEPT ![t] = NoPos]
    BY <1>9 DEF Return
  <2>2. node' = [node EXCEPT ![t] = NULL] /\ key' = [key EXCEPT ![t] = NoKey]
    BY <1>9 DEF Return
  <2> QED
    BY <1>4, <2>1, <2>2
<1>10. ASSUME NEW t \in Threads, Request(t) PROVE CallInv'
  <2>1. PICK k \in Keys : key' = [key EXCEPT ![t] = k]
    BY <1>10 DEF Request
  <2>2. pos' = [pos EXCEPT ![t] = pos[t]] /\ pos[t] \in Positions \cup {NoPos}
    BY <1>10 DEF CallInv, Request
  <2>3. node' = [node EXCEPT ![t] = node[t]] /\ node[t] \in Nodes \cup {NULL}
    BY <1>10 DEF CallInv, Request
  <2>4. at' = [at EXCEPT ![t] = "scan"]
    BY <1>10 DEF Request
  <2> QED
    BY <1>4, <2>1, <2>2, <2>3, <2>4
<1>11. ASSUME NEW t \in Threads, Forward(t) PROVE CallInv'
  <2>1. Return(t) \/ (GoOn(t, "scan") /\ UNCHANGED <<key, pos, node>>)
    BY <1>11 DEF Forward
  <2> QED
    BY <1>5, <1>9, <2>1
<1>12. CASE UNCHANGED vars
  BY <1>3, <1>12 DEF vars, lruVars, callVars
<1>13. ASSUME NEW t \in Threads, ReplyFromCache(t) \/ ConnectFails(t) \/ Finish(t) PROVE CallInv'
  BY <1>3, <1>9, <1>13 DEF ReplyFromCache, ConnectFails, Finish, lruVars, callVars
<1> QED
  BY <1>8, <1>10, <1>11, <1>12, <1>13 DEF Next

-----------------------------------------------------------------------------
\* The copies of a key: a thread comes to add one only when there is none, and
\* then it is one of the threads that may.
LEMMA CopiesFinite ==
    ASSUME MapInv, NEW k
    PROVE  /\ IsFiniteSet(Matches(k)) /\ Cardinality(Matches(k)) \in Nat
           /\ IsFiniteSet(Inserting(k)) /\ Cardinality(Inserting(k)) \in Nat
           /\ Cardinality(Inserting(k)) <= Cardinality(Threads)
           /\ Cardinality(Threads) \in Nat
<1>1. Matches(k) \subseteq 0..Capacity-1 /\ Inserting(k) \subseteq Threads
  BY DEF Matches, Positions, Inserting
<1>2. IsFiniteSet(0..Capacity-1)
  BY CacheAssumption, FS_Interval
<1> QED
  BY <1>1, <1>2, ThreadsAssumption, FS_Subset, FS_CardinalityType

\* Every step keeps the copies and the threads about to add one bounded.
LEMMA CopiesStep ==
    ASSUME MapInv, CallInv, CopiesInv, MapInv', [Next]_vars
    PROVE  CopiesInv'
<1> SUFFICES ASSUME NEW k \in Keys
             PROVE  Cardinality(Matches(k)') + Cardinality(Inserting(k)') <= Cardinality(Threads)
  BY DEF CopiesInv
<1>0. current_capacity \in 0..Capacity /\ Capacity \in Nat
  BY CacheAssumption DEF MapInv
<1>1. ASSUME Matches(k)' = Matches(k), Inserting(k)' = Inserting(k)
      PROVE  Cardinality(Matches(k)') + Cardinality(Inserting(k)') <= Cardinality(Threads)
  BY <1>1 DEF CopiesInv
<1>2. ASSUME UNCHANGED <<cachemap, nodeKey>> PROVE Matches(k)' = Matches(k)
  BY <1>2 DEF Matches
<1>3. ASSUME NEW t \in Threads, at[t] # "insert" \/ key[t] # k, NEW a, GoOn(t, a),
             \A u \in Threads \ {t} : key'[u] = key[u], a # "insert" \/ key'[t] # k
      PROVE  Inserting(k)' = Inserting(k)
  BY <1>3 DEF GoOn, CallInv, Inserting
<1>4. ASSUME NEW t \in Threads, Scan(t)
      PROVE  Cardinality(Matches(k)') + Cardinality(Inserting(k)') <= Cardinality(Threads)
  <2>1. Matches(k)' = Matches(k)
    BY <1>2, <1>4 DEF Scan, cacheVars
  <2>2. PICK a : GoOn(t, a) /\ (a = "insert" => FirstMatch(key[t]) = NoPos)
    BY <1>4 DEF Scan
  <2>3. CASE a = "insert" /\ key[t] = k
    <3>1. Matches(k)' = {}
      BY <2>1, <2>2, <2>3, FirstMatchIs
    <3>2. Cardinality(Matches(k)') = 0
      BY <3>1, FS_EmptySet
    <3>3. Inserting(k)' \subseteq Threads
      BY DEF Inserting
    <3>4. /\ Cardinality(Inserting(k)') <= Cardinality(Threads)
          /\ Cardinality(Inserting(k)') \in Nat
      BY <3>3, ThreadsAssumption, FS_Subset, FS_CardinalityType
    <3> QED
      BY <3>2, <3>4
  <2>4. CASE ~(a = "insert" /\ key[t] = k)
    <3>1. Inserting(k)' = Inserting(k)
      BY <1>3, <1>4, <2>2, <2>4 DEF Scan
    <3> QED
      BY <1>1, <2>1, <3>1
  <2> QED
    BY <2>3, <2>4
<1>5. ASSUME NEW t \in Threads, Insert(t)
      PROVE  Cardinality(Matches(k)') + Cardinality(Inserting(k)') <= Cardinality(Threads)
  <2>1. nodeKey' = [nodeKey EXCEPT ![current_capacity + 1] = key[t]]
    BY <1>5 DEF Insert
  <2>2. current_capacity' = current_capacity + 1 /\ current_capacity + 1 \in Nodes
    BY <1>0, <1>5 DEF Insert, Nodes
  <2>3. Matches(k) = {p \in 0..current_capacity-1 : nodeKey[p + 1] = k}
    BY MatchesAre
  <2>4. Matches(k)' = {p \in 0..current_capacity'-1 : nodeKey'[p + 1] = k}
    <3>1. \A p \in Positions : cachemap'[p] # NULL <=> p < current_capacity'
      BY <1>0, <2>2 DEF MapInv, NULL, Positions
    <3>2. \A p \in Positions : p < current_capacity' => cachemap'[p] = p + 1
      BY DEF MapInv
    <3>3. current_capacity' <= Capacity
      BY <1>0, <2>2 DEF MapInv
    <3> QED
      BY <1>0, <2>2, <3>1, <3>2, <3>3 DEF Matches, Positions
  <2>5. \A p \in 0..current_capacity-1 : nodeKey'[p + 1] = nodeKey[p + 1]
    <3> SUFFICES ASSUME NEW p \in 0..current_capacity-1 PROVE nodeKey'[p + 1] = nodeKey[p + 1]
      OBVIOUS
    <3>1. p + 1 \in Nodes /\ p + 1 # current_capacity + 1
      BY <1>0 DEF Nodes
    <3> QED
      BY <2>1, <3>1 DEF CallInv
  <2>6. nodeKey'[current_capacity + 1] = key[t]
    BY <2>1, <2>2 DEF CallInv
  <2>7. at[t] = "insert" /\ at' = [at EXCEPT ![t] = "done"] /\ key' = key
    BY <1>5 DEF Insert, GoOn
  <2>8. CASE key[t] = k
    <3>1. Matches(k)' = Matches(k) \cup {current_capacity} /\ current_capacity \notin Matches(k)
      BY <1>0, <2>2, <2>3, <2>4, <2>5, <2>6, <2>8
    <3>2. Inserting(k)' = Inserting(k) \ {t} /\ t \in Inserting(k)
      BY <2>7, <2>8 DEF CallInv, Inserting
    <3>3. Cardinality(Matches(k)') = Cardinality(Matches(k)) + 1
      BY <3>1, CopiesFinite, FS_AddElement
    <3>4. Cardinality(Inserting(k)') = Cardinality(Inserting(k)) - 1
      BY <3>2, CopiesFinite, FS_RemoveElement
    <3>5. Cardinality(Matches(k)) + Cardinality(Inserting(k)) <= Cardinality(Threads)
      BY DEF CopiesInv
    <3> QED
      BY <3>3, <3>4, <3>5, CopiesFinite
  <2>9. CASE key[t] # k
    <3>1. Matches(k)' = Matches(k)
      BY <1>0, <2>2, <2>3, <2>4, <2>5, <2>6, <2>9
    <3>2. Inserting(k)' = Inserting(k)
      BY <2>7, <2>9 DEF CallInv, Inserting
    <3> QED
      BY <1>1, <3>1, <3>2
  <2> QED
    BY <2>8, <2>9
<1>6. ASSUME NEW t \in Threads, InsertIntoFull(t)
      PROVE  Cardinality(Matches(k)') + Cardinality(Inserting(k)') <= Cardinality(Threads)
  <2>1. Matches(k)' = Matches(k)
    <3>1. \A p \in Positions : cachemap[p] # NULL => cachemap[p] # current_capacity + 1
      BY <1>0 DEF MapInv, NULL, Positions
    <3>2. \A p \in Positions : cachemap[p] # NULL => nodeKey'[cachemap[p]] = nodeKey[cachemap[p]]
      <4>1. \A p \in Positions : cachemap[p] # NULL => cachemap[p] \in Nodes
        BY <1>0 DEF MapInv, NULL, Positions, Nodes
      <4> QED
        BY <1>6, <3>1, <4>1 DEF InsertIntoFull, CallInv
    <3> QED
      BY <1>6, <3>2 DEF InsertIntoFull, Matches
  <2>2. Inserting(k)' = IF key[t] = k THEN Inserting(k) \ {t} ELSE Inserting(k)
    BY <1>6 DEF InsertIntoFull, GoOn, CallInv, Inserting
  <2>3. Cardinality(Inserting(k) \ {t}) <= Cardinality(Inserting(k))
    BY CopiesFinite, FS_Subset
  <2>4. Cardinality(Inserting(k) \ {t}) \in Nat
    BY CopiesFinite, FS_Subset, FS_CardinalityType
  <2>5. Cardinality(Matches(k)) + Cardinality(Inserting(k)) <= Cardinality(Threads)
    BY DEF CopiesInv
  <2>6. Cardinality(Inserting(k)') <= Cardinality(Inserting(k)) /\ Cardinality(Inserting(k)') \in Nat
    BY <2>2, <2>3, <2>4, CopiesFinite
  <2> QED
    BY <2>1, <2>5, <2>6, CopiesFinite
<1>7. ASSUME NEW t \in Threads, CacheStep(t)
      PROVE  Cardinality(Matches(k)') + Cardinality(Inserting(k)') <= Cardinality(Threads)
  <2>1. CASE EnterSection(t) \/ InsideLock(t)
    BY <1>1, <1>2, <2>1 DEF EnterSection, InsideLock, callVars, cacheVars, Inserting
  <2>2. CASE Recheck(t)
    <3>1. PICK a \in {"stamp", "fetch"} : GoOn(t, a)
      BY <2>2 DEF Recheck
    <3> QED
      BY <1>1, <1>2, <1>3, <2>2, <3>1 DEF Recheck, cacheVars
  <2>3. CASE Stamp(t) \/ Fetch(t)
    <3>1. PICK a \in {"fetch", "move"} : GoOn(t, a)
      BY <2>3 DEF Stamp, Fetch
    <3> QED
      BY <1>1, <1>2, <1>3, <2>3, <3>1 DEF Stamp, Fetch, cacheVars
  <2>4. CASE Move(t)
    <3>1. PICK a \in {"hit", "done"} : GoOn(t, a)
      BY <2>4 DEF Move
    <3> QED
      BY <1>1, <1>2, <1>3, <2>4, <3>1 DEF Move
  <2> QED
    BY <1>4, <1>5, <1>6, <1>7, <2>1, <2>2, <2>3, <2>4 DEF CacheStep
<1>8. ASSUME NEW t \in Threads, NEW a \in {"idle", "scan"}, GoOn(t, a), at[t] # "insert",
             \A u \in Threads \ {t} : key'[u] = key[u], UNCHANGED cacheVars
      PROVE  Cardinality(Matches(k)') + Cardinality(Inserting(k)') <= Cardinality(Threads)
  BY <1>1, <1>2, <1>3, <1>8 DEF cacheVars
<1>9. ASSUME NEW t \in Threads,
             Request(t) \/ ReplyFromCache(t) \/ Forward(t) \/ ConnectFails(t) \/ Finish(t)
      PROVE  Cardinality(Matches(k)') + Cardinality(Inserting(k)') <= Cardinality(Threads)
  <2>1. CASE ConnectFails(t)
    BY <1>1, <1>2, <2>1 DEF ConnectFails, lruVars, cacheVars, callVars, Inserting
  <2>2. ASSUME at[t] # "insert", Return(t)
        PROVE  Cardinality(Matches(k)') + Cardinality(Inserting(k)') <= Cardinality(Threads)
    <3>1. \A u \in Threads \ {t} : key'[u] = key[u]
      BY <2>2 DEF Return, CallInv
    <3> QED
      BY <1>8, <2>2, <3>1 DEF Return
  <2>3. CASE Request(t)
    <3>1. \A u \in Threads \ {t} : key'[u] = key[u]
      BY <2>3 DEF Request, CallInv
    <3> QED
      BY <1>8, <2>3, <3>1 DEF Request
  <2>4. CASE Forward(t)
    <3>1. at[t] # "insert"
      BY <2>4 DEF Forward
    <3>2. Return(t) \/ (GoOn(t, "scan") /\ UNCHANGED <<cacheVars, key>>)
      BY <2>4 DEF Forward
    <3> QED
      BY <1>8, <2>2, <3>1, <3>2
  <2> QED
    BY <1>9, <2>1, <2>2, <2>3, <2>4 DEF ReplyFromCache, Finish
<1> QED
  BY <1>1, <1>2, <1>7, <1>9 DEF Next, vars, lruVars, callVars, cacheVars, Inserting

-----------------------------------------------------------------------------
\* The chain: following next from head one meets the nodes in the order o.
LEMMA WalkIs ==
    ASSUME NEW c \in 0..Capacity, NEW o, NEW nx \in [Links -> Links], NEW pv,
           Linked(o, c, nx, pv), nx[TailNode] = TailNode
    PROVE  \A k \in 0..Capacity : Walk(nx)[k] = IF k <= c THEN o[k+1] ELSE TailNode
<1> DEFINE Links0 == 0..Capacity
           Next0(f, k) == IF k = 0 THEN nx[HeadNode] ELSE nx[f[k-1]]
           W == [k \in Links0 |-> IF k <= c THEN o[k+1] ELSE TailNode]
<1>1. \A k \in Links0 : W[k] = Next0(W, k)
  <2> SUFFICES ASSUME NEW k \in Links0 PROVE W[k] = Next0(W, k)
    OBVIOUS
  <2>1. CASE k = 0
    BY <2>1, CacheAssumption DEF Linked
  <2>2. CASE k # 0 /\ k <= c
    <3>1. k - 1 \in Links0 /\ k \in 0..c /\ W[k-1] = o[k]
      BY <2>2, CacheAssumption
    <3> QED
      BY <2>2, <3>1 DEF Linked
  <2>3. CASE k # 0 /\ ~(k <= c)
    <3>1. k - 1 \in Links0 /\ W[k-1] = TailNode
      <4>1. k - 1 \in Links0 /\ (k - 1 <= c => k - 1 = c)
        BY <2>3, CacheAssumption
      <4>2. c <= c /\ o[c+1] = TailNode
        BY DEF Linked
      <4> QED
        BY <4>1, <4>2
    <3> QED
      BY <2>3, <3>1
  <2> QED
    BY <2>1, <2>2, <2>3
<1>2. W = [k \in Links0 |-> Next0(W, k)]
  BY <1>1, Zenon
<1>3. Walk(nx) = [k \in Links0 |-> Next0(Walk(nx), k)]
  BY <1>2, Zenon DEF Walk
<1>4. DEFINE T == {k \in 0..Capacity : Walk(nx)[k] = W[k]}
<1>5. 0 \in T
  <2>1. 0 \in Links0
    BY CacheAssumption
  <2>2. Walk(nx)[0] = nx[HeadNode]
    BY <1>3, <2>1, Zenon
  <2>3. W[0] = nx[HeadNode]
    BY <1>1, <2>1
  <2> QED
    BY <2>1, <2>2, <2>3
<1>6. \A k \in 0..Capacity-1 : k \in T => k + 1 \in T
  <2> SUFFICES ASSUME NEW k \in 0..Capacity-1, k \in T PROVE k + 1 \in T
    OBVIOUS
  <2>1. k + 1 \in Links0 /\ k + 1 # 0 /\ (k + 1) - 1 = k
    BY CacheAssumption
  <2>2. W[k+1] = nx[W[k]]
    BY <1>1, <2>1
  <2>3. Walk(nx)[k+1] = nx[Walk(nx)[k]]
    <3>1. Walk(nx)[k+1] = Next0(Walk(nx), k + 1)
      BY <1>3, <2>1, Zenon
    <3> QED
      BY <2>1, <3>1
  <2> QED
    BY <2>1, <2>2, <2>3
<1>7. 0..Capacity \subseteq T
  <2> HIDE DEF T
  <2> QED
    BY <1>5, <1>6, UpTo, CacheAssumption
<1> QED
  BY <1>7

\* The nodes between head and tail.
InOrder(o, c) == [k \in 1..c |-> o[k]]

\* Chain reads the order off the links.
LEMMA ChainIs ==
    ASSUME NEW c \in 0..Capacity, NEW o, NEW nx \in [Links -> Links], NEW pv,
           Linked(o, c, nx, pv), nx[TailNode] = TailNode
    PROVE  ChainOf(nx) = InOrder(o, c)
<1> DEFINE InNodes == {k \in 0..Capacity : \A j \in 0..k : Walk(nx)[j] \in Nodes}
<1>1. \A k \in 0..Capacity : Walk(nx)[k] = IF k <= c THEN o[k+1] ELSE TailNode
  BY WalkIs
<1>2. \A k \in 0..c-1 : Walk(nx)[k] \in 1..c
  <2> SUFFICES ASSUME NEW k \in 0..c-1 PROVE Walk(nx)[k] \in 1..c
    OBVIOUS
  <2>1. k \in 0..Capacity /\ k <= c /\ k + 1 \in 1..c
    BY CacheAssumption
  <2> QED
    BY <1>1, <2>1 DEF Linked
<1>3. Walk(nx)[c] = TailNode
  <2>1. c <= c /\ o[c+1] = TailNode
    BY CacheAssumption DEF Linked
  <2> QED
    BY <1>1, <2>1
<1>4. InNodes = 0..c-1
  BY <1>2, <1>3, CacheAssumption DEF Nodes, TailNode
<1>5. Cardinality(InNodes) = c
  <2>1. c \in Nat /\ c - 1 \in Int
    BY CacheAssumption
  <2>2. Cardinality(0..c-1) = IF 0 > c - 1 THEN 0 ELSE (c - 1) - 0 + 1
    BY <2>1, FS_Interval
  <2>3. Cardinality(0..c-1) = c
    BY <2>1, <2>2
  <2> QED
    BY <1>4, <2>3, Zenon
<1>6. ChainOf(nx) = [k \in 1..c |-> Walk(nx)[k-1]]
  BY <1>5, Zenon DEF ChainOf
<1>7. \A k \in 1..c : Walk(nx)[k-1] = o[k]
  BY <1>1, CacheAssumption
<1> QED
  BY <1>6, <1>7, Zenon DEF InOrder

\* The order after the i-th node has moved to the front.
Moved(o, i, c) ==
    [k \in 0..c+1 |-> IF k = 1 THEN o[i] ELSE IF k \in 2..i THEN o[k-1] ELSE o[k]]

\* No link is listed twice.
LEMMA Distinct ==
    ASSUME NEW c \in Nat, NEW o, NEW nx, NEW pv, Linked(o, c, nx, pv)
    PROVE  \A i, j \in 0..c+1 : o[i] = o[j] => i = j
<1>1. \A i \in 0..c+1 : i = 0 \/ i \in 1..c \/ i = c+1
  OBVIOUS
<1>2. o[0] = -1 /\ o[c+1] = -2 /\ \A i \in 1..c : o[i] \in 1..c
  BY DEF Linked, HeadNode, TailNode
<1>3. \A i, j \in 1..c : o[i] = o[j] => i = j
  BY DEF Linked
<1> QED
  BY <1>1, <1>2, <1>3

\* The links after node n has been unlinked.
NextWithout(n, nx, pv) == [nx EXCEPT ![pv[n]] = nx[n]]
PrevWithout(n, nx, pv) == [pv EXCEPT ![nx[n]] = pv[n]]

\* The links after it has been linked in front again.
NextMoved(n, nx, pv) ==
    [NextWithout(n, nx, pv) EXCEPT ![n] = NextWithout(n, nx, pv)[HeadNode], ![HeadNode] = n]
PrevMoved(n, nx, pv) ==
    [PrevWithout(n, nx, pv) EXCEPT ![n] = HeadNode, ![NextWithout(n, nx, pv)[HeadNode]] = n]

\* The stores of MoveToHead move the node to the front of the order.
LEMMA MoveLinks ==
    ASSUME NEW c \in 0..Capacity, NEW o, NEW nx \in [Links -> Links], NEW pv \in [Links -> Links],
           Linked(o, c, nx, pv), nx[TailNode] = TailNode, NEW i \in 1..c,
           NEW nx2, nx2 = NextMoved(o[i], nx, pv), NEW pv2, pv2 = PrevMoved(o[i], nx, pv)
    PROVE  /\ nx2 \in [Links -> Links] /\ pv2 \in [Links -> Links] /\ nx2[TailNode] = TailNode
           /\ Linked(Moved(o, i, c), c, nx2, pv2)
<1> DEFINE n == o[i]
           m == Moved(o, i, c)
           u == NextWithout(n, nx, pv)
           v == PrevWithout(n, nx, pv)
<1>1. \A k \in 0..c+1 : o[k] \in Links
  BY CacheAssumption DEF Linked
<1>2. \A k, l \in 0..c+1 : o[k] = o[l] => k = l
  BY Distinct, CacheAssumption
<1>3. c \in Nat /\ i \in Nat /\ i - 1 \in 0..c /\ i + 1 \in 1..c+1 /\ i \in 0..c+1
  BY CacheAssumption
<1>4. nx[n] = o[i+1] /\ pv[n] = o[i-1]
  <2>1. i \in 0..c /\ (i - 1) + 1 = i
    BY <1>3
  <2>2. \A k \in 0..c : nx[o[k]] = o[k+1] /\ pv[o[k+1]] = o[k]
    BY DEF Linked
  <2>3. pv[o[(i-1)+1]] = o[i-1]
    BY <1>3, <2>2
  <2> QED
    BY <2>1, <2>2, <2>3
<1>5. o[0] = HeadNode /\ o[c+1] = TailNode /\ 0 \in 0..c+1 /\ 1 \in 0..c+1 /\ c+1 \in 0..c+1
  BY <1>3 DEF Linked
<1>6. nx[HeadNode] = o[1]
  BY <1>3, <1>5 DEF Linked
<1>7. u = [nx EXCEPT ![o[i-1]] = o[i+1]] /\ v = [pv EXCEPT ![o[i+1]] = o[i-1]]
  BY <1>4 DEF NextWithout, PrevWithout
<1> HIDE DEF u, v
<1>8. /\ u \in [Links -> Links] /\ v \in [Links -> Links]
      /\ \A k \in 0..c+1 : u[o[k]] = IF k = i - 1 THEN o[i+1] ELSE nx[o[k]]
      /\ \A k \in 0..c+1 : v[o[k]] = IF k = i + 1 THEN o[i-1] ELSE pv[o[k]]
  <2>1. o[i-1] \in Links /\ o[i+1] \in Links /\ i - 1 \in 0..c+1 /\ i + 1 \in 0..c+1
    BY <1>1, <1>3
  <2> QED
    BY <1>1, <1>2, <1>7, <2>1
<1> DEFINE f == IF i = 1 THEN 2 ELSE 1
<1>9. u[HeadNode] = o[f] /\ f \in 0..c+1 /\ f # i /\ f # 0
  BY <1>3, <1>5, <1>6, <1>8
<1> HIDE DEF f
<1>10. /\ nx2 \in [Links -> Links] /\ pv2 \in [Links -> Links]
       /\ \A k \in 0..c+1 : nx2[o[k]] = IF k = 0 THEN n ELSE IF k = i THEN o[f] ELSE u[o[k]]
       /\ \A k \in 0..c+1 : pv2[o[k]] = IF k = f THEN n ELSE IF k = i THEN HeadNode ELSE v[o[k]]
  <2>1. nx2 = [u EXCEPT ![o[i]] = o[f], ![o[0]] = n]
    BY <1>5, <1>9 DEF u, NextMoved
  <2>2. pv2 = [v EXCEPT ![o[i]] = HeadNode, ![o[f]] = n]
    BY <1>9 DEF u, v, PrevMoved
  <2>3. o[i] \in Links /\ o[f] \in Links /\ HeadNode \in Links /\ o[0] \in Links
    BY <1>1, <1>3, <1>5, <1>9
  <2>4. nx2 \in [Links -> Links] /\ pv2 \in [Links -> Links]
    BY <1>8, <2>1, <2>2, <2>3
  <2>5. ASSUME NEW k \in 0..c+1
        PROVE  /\ nx2[o[k]] = IF k = 0 THEN n ELSE IF k = i THEN o[f] ELSE u[o[k]]
               /\ pv2[o[k]] = IF k = f THEN n ELSE IF k = i THEN HeadNode ELSE v[o[k]]
    <3>1. o[k] = o[i] <=> k = i
      BY <1>2, <1>3
    <3>2. (o[k] = o[0] <=> k = 0) /\ (o[k] = o[f] <=> k = f)
      BY <1>2, <1>5, <1>9
    <3>3. o[k] \in Links
      BY <1>1
    <3>4. nx2[o[k]] = IF k = 0 THEN n ELSE IF k = i THEN o[f] ELSE u[o[k]]
      BY <1>8, <2>1, <2>3, <3>1, <3>2, <3>3
    <3>5. pv2[o[k]] = IF k = f THEN n ELSE IF k = i THEN HeadNode ELSE v[o[k]]
      BY <1>8, <2>2, <2>3, <3>1, <3>2, <3>3
    <3> QED
      BY <3>4, <3>5
  <2> QED
    BY <2>4, <2>5
<1>11. /\ \A k \in 0..c+1 : k # i - 1 => u[o[k]] = nx[o[k]]
       /\ \A k \in 0..c+1 : k = i - 1 => u[o[k]] = o[i+1]
  BY <1>8, Zenon
<1>12. /\ \A k \in 0..c+1 : k # i + 1 => v[o[k]] = pv[o[k]]
       /\ \A k \in 0..c+1 : k = i + 1 => v[o[k]] = o[i-1]
  BY <1>8, Zenon
<1>13. \A k \in 0..c+1 : k # 0 /\ k # i => nx2[o[k]] = u[o[k]]
  <2> SUFFICES ASSUME NEW k \in 0..c+1, k # 0, k # i PROVE nx2[o[k]] = u[o[k]]
    OBVIOUS
  <2>1. nx2[o[k]] = IF k = 0 THEN n ELSE IF k = i THEN o[f] ELSE u[o[k]]
    BY <1>10, Zenon
  <2> QED
    BY <2>1
<1>14. \A k \in 0..c+1 : k # f /\ k # i => pv2[o[k]] = v[o[k]]
  BY <1>10, Zenon
<1>15. nx2[TailNode] = TailNode
  <2>1. c + 1 # 0 /\ c + 1 # i /\ c + 1 # i - 1
    BY <1>3
  <2>2. nx2[o[c+1]] = u[o[c+1]]
    BY <1>5, <1>13, <2>1, Zenon
  <2>3. u[o[c+1]] = nx[o[c+1]]
    BY <1>5, <1>11, <2>1, Zenon
  <2> QED
    BY <1>5, <2>2, <2>3
\* Link by link.
<1>16. /\ \A k \in 1..c : k # i /\ k # i - 1 => nx2[o[k]] = o[k+1]
       /\ i # 1 => nx2[o[i-1]] = o[i+1]
       /\ \A k \in 1..c+1 : k # f /\ k # i /\ k # i + 1 => pv2[o[k]] = o[k-1]
       /\ i # 1 => pv2[o[i+1]] = o[i-1]
  <2>1. \A k \in 0..c : nx[o[k]] = o[k+1] /\ pv[o[k+1]] = o[k]
    BY DEF Linked
  <2>2. ASSUME NEW k \in 1..c, k # i, k # i - 1 PROVE nx2[o[k]] = o[k+1]
    <3>1. k \in 0..c+1 /\ k \in 0..c /\ k # 0
      BY <1>3
    <3>2. nx2[o[k]] = u[o[k]] /\ u[o[k]] = nx[o[k]]
      BY <1>11, <1>13, <2>2, <3>1, Zenon
    <3> QED
      BY <2>1, <3>1, <3>2
  <2>3. ASSUME NEW k \in 1..c+1, k # f, k # i, k # i + 1 PROVE pv2[o[k]] = o[k-1]
    <3>1. k \in 0..c+1 /\ k - 1 \in 0..c /\ (k - 1) + 1 = k
      BY <1>3
    <3>2. pv2[o[k]] = v[o[k]] /\ v[o[k]] = pv[o[k]]
      BY <1>12, <1>14, <2>3, <3>1, Zenon
    <3> QED
      BY <2>1, <3>1, <3>2
  <2>4. ASSUME i # 1 PROVE nx2[o[i-1]] = o[i+1] /\ pv2[o[i+1]] = o[i-1]
    <3>1. i - 1 \in 0..c+1 /\ i - 1 # 0 /\ i - 1 # i /\ i + 1 \in 0..c+1 /\ i + 1 # i /\ f = 1 /\ i + 1 # 1
      BY <1>3, <2>4 DEF f
    <3>2. nx2[o[i-1]] = u[o[i-1]] /\ u[o[i-1]] = o[i+1]
      BY <1>11, <1>13, <3>1, Zenon
    <3>3. pv2[o[i+1]] = v[o[i+1]] /\ v[o[i+1]] = o[i-1]
      BY <1>12, <1>14, <3>1, Zenon
    <3> QED
      BY <3>2, <3>3
  <2> QED
    BY <2>2, <2>3, <2>4
<1>17. ASSUME NEW k \in 0..c PROVE nx2[m[k]] = m[k+1] /\ pv2[m[k+1]] = m[k]
  <2>1. k \in 0..c+1 /\ k + 1 \in 0..c+1 /\ k + 1 # 0
    BY <1>3
  <2>2. CASE k = 0
    <3>1. m[k] = o[0] /\ m[k+1] = o[i]
      BY <1>3, <2>1, <2>2 DEF Moved
    <3> QED
      BY <1>3, <1>5, <1>9, <1>10, <3>1
  <2>3. CASE k = 1 /\ i = 1
    <3>1. m[k] = o[1] /\ m[k+1] = o[2]
      BY <1>3, <2>1, <2>3 DEF Moved
    <3>2. f = 2 /\ k + 1 = 2
      BY <2>3 DEF f
    <3> QED
      BY <1>3, <1>10, <2>1, <2>3, <3>1, <3>2
  <2>4. CASE k = 1 /\ i # 1
    <3>1. m[k] = o[i] /\ m[k+1] = o[1]
      BY <1>3, <2>1, <2>4 DEF Moved
    <3>2. f = 1
      BY <2>4 DEF f
    <3> QED
      BY <1>3, <1>5, <1>10, <2>4, <3>1, <3>2
  <2>5. CASE k \in 2..i-1
    <3>1. k - 1 \in 0..c+1 /\ k - 1 \in 1..c /\ (k - 1) + 1 = k /\ k \in 2..i /\ k + 1 \in 2..i
      BY <1>3, <2>5
    <3>2. m[k] = o[k-1] /\ m[k+1] = o[k]
      BY <2>1, <3>1 DEF Moved
    <3>3. f = 1 /\ k - 1 # i /\ k - 1 # i - 1 /\ k # 1 /\ k # i /\ k # i + 1 /\ k \in 1..c+1
      BY <1>3, <2>5 DEF f
    <3>4. nx2[o[k-1]] = o[(k-1)+1] /\ pv2[o[k]] = o[k-1]
      BY <1>16, <3>1, <3>3
    <3> QED
      BY <3>1, <3>2, <3>4
  <2>6. CASE k = i /\ i # 1
    <3>1. k - 1 \in 0..c+1 /\ k \in 2..i /\ k + 1 \notin 2..i /\ k + 1 # 1
      BY <1>3, <2>6
    <3>2. m[k] = o[i-1] /\ m[k+1] = o[i+1]
      BY <2>1, <2>6, <3>1 DEF Moved
    <3> QED
      BY <1>16, <2>6, <3>2
  <2>7. CASE k > i
    <3>1. k # 0 /\ k # 1 /\ k # i /\ k # i - 1 /\ k \notin 2..i /\ k + 1 \notin 2..i /\ k + 1 # 1
      BY <1>3, <2>7
    <3>2. m[k] = o[k] /\ m[k+1] = o[k+1]
      BY <2>1, <3>1 DEF Moved
    <3>3. k + 1 # f /\ k + 1 # i /\ k + 1 # i + 1 /\ k \in 1..c /\ k + 1 \in 1..c+1 /\ (k + 1) - 1 = k
      BY <1>3, <2>7 DEF f
    <3>4. nx2[o[k]] = o[k+1] /\ pv2[o[k+1]] = o[(k+1)-1]
      BY <1>16, <3>1, <3>3
    <3> QED
      BY <3>2, <3>3, <3>4
  <2> QED
    BY <1>3, <2>2, <2>3, <2>4, <2>5, <2>6, <2>7
<1>18. m \in [0..c+1 -> Links] /\ m[0] = HeadNode /\ m[c+1] = TailNode
  <2>1. \A k \in 0..c+1 : m[k] \in Links
    <3> SUFFICES ASSUME NEW k \in 0..c+1 PROVE m[k] \in Links
      OBVIOUS
    <3>1. k \in 2..i => k - 1 \in 0..c+1
      BY <1>3
    <3> QED
      BY <1>1, <1>3, <3>1 DEF Moved
  <2>2. m = [k \in 0..c+1 |-> m[k]]
    BY DEF Moved
  <2>3. c + 1 # 1 /\ c + 1 \notin 2..i
    BY <1>3
  <2>4. m[0] = o[0] /\ m[c+1] = o[c+1]
    BY <1>3, <1>5, <2>3 DEF Moved
  <2> QED
    BY <1>5, <2>1, <2>2, <2>4
<1>19. \A k \in 1..c : m[k] \in 1..c
  <2> SUFFICES ASSUME NEW k \in 1..c PROVE m[k] \in 1..c
    OBVIOUS
  <2>1. k \in 0..c+1 /\ (k \in 2..i => k - 1 \in 1..c)
    BY <1>3
  <2> QED
    BY <2>1 DEF Moved, Linked
<1>20. \A k, l \in 1..c : m[k] = m[l] => k = l
  <2> SUFFICES ASSUME NEW k \in 1..c, NEW l \in 1..c, m[k] = m[l] PROVE k = l
    OBVIOUS
  <2> DEFINE back(x) == IF x = 1 THEN i ELSE IF x \in 2..i THEN x - 1 ELSE x
  <2>1. /\ k \in 0..c+1 /\ l \in 0..c+1 /\ back(k) \in 0..c+1 /\ back(l) \in 0..c+1
    BY <1>3
  <2>2. m[k] = o[back(k)] /\ m[l] = o[back(l)]
    BY <2>1 DEF Moved
  <2>3. back(k) = back(l)
    BY <1>2, <2>1, <2>2
  <2> QED
    BY <1>3, <2>3
<1>21. \A q \in 1..c : \E k \in 1..c : m[k] = q
  <2> SUFFICES ASSUME NEW q \in 1..c PROVE \E k \in 1..c : m[k] = q
    OBVIOUS
  <2>1. PICK l \in 1..c : o[l] = q
    BY DEF Linked
  <2> DEFINE k == IF l = i THEN 1 ELSE IF l < i THEN l + 1 ELSE l
  <2>2. k \in 1..c /\ k \in 0..c+1
    BY <1>3
  <2>3. m[k] = o[l]
    BY <1>3, <2>2 DEF Moved
  <2> QED
    BY <2>1, <2>2, <2>3
<1> QED
  BY <1>10, <1>15, <1>17, <1>18, <1>19, <1>20, <1>21 DEF Linked

\* The order after node c + 1 has been linked in front.
Added(o, c) ==
    [k \in 0..c+2 |-> IF k = 0 THEN HeadNode ELSE IF k = 1 THEN c + 1 ELSE o[k-1]]

\* The stores of CreateAfterHead put the new node in front of the order.
LEMMA AddLinks ==
    ASSUME NEW c \in 0..Capacity, c < Capacity, NEW o,
           NEW nx \in [Links -> Links], NEW pv \in [Links -> Links],
           Linked(o, c, nx, pv), nx[TailNode] = TailNode,
           NEW nx2, nx2 = [nx EXCEPT ![c+1] = nx[HeadNode], ![HeadNode] = c+1],
           NEW pv2, pv2 = [pv EXCEPT ![c+1] = HeadNode, ![nx[HeadNode]] = c+1]
    PROVE  /\ nx2 \in [Links -> Links] /\ pv2 \in [Links -> Links] /\ nx2[TailNode] = TailNode
           /\ Linked(Added(o, c), c + 1, nx2, pv2)
<1> DEFINE n == c + 1
           m == Added(o, c)
<1>1. \A k \in 0..c+1 : o[k] \in Links /\ o[k] # n
  <2>1. \A k \in 0..c+1 : k = 0 \/ k \in 1..c \/ k = c+1
    BY CacheAssumption
  <2>2. HeadNode \in Links /\ TailNode \in Links /\ \A k \in 1..c : k \in Links /\ k # n
    BY CacheAssumption DEF Links, Nodes
  <2>3. HeadNode # n /\ TailNode # n
    BY CacheAssumption DEF HeadNode, TailNode
  <2> QED
    BY <2>1, <2>2, <2>3 DEF Linked
<1>2. \A k, l \in 0..c+1 : o[k] = o[l] => k = l
  BY Distinct, CacheAssumption
<1>3. c \in Nat /\ n \in Links /\ n # TailNode /\ n # HeadNode
  BY CacheAssumption DEF Links, Nodes, TailNode, HeadNode
<1>4. o[0] = HeadNode /\ o[c+1] = TailNode /\ 0 \in 0..c+1 /\ 1 \in 0..c+1 /\ c+1 \in 0..c+1
  BY <1>3 DEF Linked
<1>5. \A k \in 0..c : nx[o[k]] = o[k+1] /\ pv[o[k+1]] = o[k]
  BY DEF Linked
<1>6. nx[HeadNode] = o[1]
  BY <1>3, <1>4, <1>5
<1>7. nx2 = [nx EXCEPT ![n] = o[1], ![o[0]] = n] /\ pv2 = [pv EXCEPT ![n] = o[0], ![o[1]] = n]
  BY <1>4, <1>6
<1>8. nx2 \in [Links -> Links] /\ pv2 \in [Links -> Links]
  BY <1>1, <1>3, <1>4, <1>7
<1>9. nx2[n] = o[1] /\ nx2[o[0]] = n /\ pv2[n] = o[0] /\ pv2[o[1]] = n
  BY <1>1, <1>3, <1>4, <1>7
<1>10. \A k \in 1..c+1 : nx2[o[k]] = nx[o[k]]
  <2> SUFFICES ASSUME NEW k \in 1..c+1 PROVE nx2[o[k]] = nx[o[k]]
    OBVIOUS
  <2>1. k \in 0..c+1 /\ k # 0
    BY <1>3
  <2>2. o[k] # o[0] /\ o[k] # n /\ o[k] \in Links
    BY <1>1, <1>2, <1>4, <2>1
  <2> QED
    BY <1>7, <2>2
<1>11. \A k \in 2..c+1 : pv2[o[k]] = pv[o[k]]
  <2> SUFFICES ASSUME NEW k \in 2..c+1 PROVE pv2[o[k]] = pv[o[k]]
    OBVIOUS
  <2>1. k \in 0..c+1 /\ k # 1
    BY <1>3
  <2>2. o[k] # o[1] /\ o[k] # n /\ o[k] \in Links
    BY <1>1, <1>2, <1>4, <2>1
  <2> QED
    BY <1>7, <2>2
<1>12. nx2[TailNode] = TailNode
  <2>1. c+1 \in 1..c+1
    BY <1>3
  <2> QED
    BY <1>4, <1>10, <2>1
<1>13. /\ m \in [0..n+1 -> Links] /\ m[0] = HeadNode /\ m[n+1] = TailNode
       /\ m[1] = n /\ \A k \in 2..n+1 : m[k] = o[k-1]
  <2>1. n + 1 = c + 2 /\ 0 \in 0..c+2 /\ 1 \in 0..c+2 /\ c+2 \in 2..c+2 /\ (c+2)-1 = c+1
    BY <1>3
  <2>2. \A k \in 2..c+2 : k \in 0..c+2 /\ k # 0 /\ k # 1 /\ k - 1 \in 0..c+1
    BY <1>3
  <2>3. m[0] = HeadNode /\ m[1] = n /\ \A k \in 2..c+2 : m[k] = o[k-1]
    BY <2>1, <2>2 DEF Added
  <2>4. \A k \in 0..c+2 : m[k] \in Links
    <3>1. \A k \in 0..c+2 : k = 0 \/ k = 1 \/ k \in 2..c+2
      BY <1>3
    <3> QED
      BY <1>1, <1>3, <1>4, <2>2, <2>3, <3>1
  <2>5. m = [k \in 0..c+2 |-> m[k]]
    BY DEF Added
  <2> HIDE DEF m
  <2> QED
    BY <1>4, <2>1, <2>3, <2>4, <2>5
<1>14. \A k \in 1..n : m[k] \in 1..n
  <2> SUFFICES ASSUME NEW k \in 1..n PROVE m[k] \in 1..n
    OBVIOUS
  <2>1. k = 1 \/ (k \in 2..n+1 /\ k - 1 \in 1..c)
    BY <1>3
  <2>2. \A j \in 1..c : o[j] \in 1..n
    BY <1>3 DEF Linked
  <2> HIDE DEF m
  <2> QED
    BY <1>3, <1>13, <2>1, <2>2
<1>15. \A k, l \in 1..n : m[k] = m[l] => k = l
  <2> SUFFICES ASSUME NEW k \in 1..n, NEW l \in 1..n, m[k] = m[l] PROVE k = l
    OBVIOUS
  <2>1. /\ k = 1 \/ (k \in 2..n+1 /\ k - 1 \in 0..c+1)
        /\ l = 1 \/ (l \in 2..n+1 /\ l - 1 \in 0..c+1)
    BY <1>3
  <2>2. \A j \in 0..c+1 : o[j] # n
    BY <1>1
  <2>3. (k # 1 => m[k] = o[k-1] /\ m[k] # n) /\ (l # 1 => m[l] = o[l-1] /\ m[l] # n)
    BY <1>13, <2>1, <2>2, Zenon
  <2>4. k # 1 /\ l # 1 => k - 1 = l - 1
    BY <1>2, <2>1, <2>3
  <2> HIDE DEF m
  <2> QED
    BY <1>3, <1>13, <2>3, <2>4
<1>16. \A q \in 1..n : \E k \in 1..n : m[k] = q
  <2> SUFFICES ASSUME NEW q \in 1..n PROVE \E k \in 1..n : m[k] = q
    OBVIOUS
  <2>1. CASE q = n
    BY <1>3, <1>13, <2>1
  <2>2. CASE q # n
    <3>1. PICK j \in 1..c : o[j] = q
      BY <1>3, <2>2 DEF Linked
    <3>2. j + 1 \in 1..n /\ j + 1 \in 2..n+1 /\ (j + 1) - 1 = j
      BY <1>3
    <3>3. m[j+1] = q
      BY <1>13, <3>1, <3>2
    <3> QED
      BY <3>2, <3>3
  <2> QED
    BY <2>1, <2>2
<1>17. ASSUME NEW k \in 0..n PROVE nx2[m[k]] = m[k+1] /\ pv2[m[k+1]] = m[k]
  <2> HIDE DEF m
  <2>1. CASE k = 0
    BY <1>4, <1>9, <1>13, <2>1
  <2>2. CASE k = 1
    <3>1. m[2] = o[1]
      <4>1. 2 \in 2..n+1
        BY <1>3
      <4> QED
        BY <1>13, <4>1
    <3> QED
      BY <1>9, <1>13, <2>2, <3>1
  <2>3. CASE k # 0 /\ k # 1
    <3>1. /\ k \in 2..n+1 /\ k + 1 \in 2..n+1 /\ (k + 1) - 1 = k /\ (k - 1) + 1 = k
          /\ k - 1 \in 1..c+1 /\ k \in 2..c+1 /\ k - 1 \in 0..c
      BY <1>3, <2>3
    <3>2. m[k] = o[k-1] /\ m[k+1] = o[k]
      BY <1>13, <3>1
    <3>3. nx2[o[k-1]] = nx[o[k-1]] /\ pv2[o[k]] = pv[o[k]]
      BY <1>10, <1>11, <3>1
    <3>4. nx[o[k-1]] = o[k] /\ pv[o[k]] = o[k-1]
      BY <1>5, <3>1
    <3> QED
      BY <3>2, <3>3, <3>4
  <2> QED
    BY <2>1, <2>2, <2>3
<1> QED
  BY <1>8, <1>12, <1>13, <1>14, <1>15, <1>16, <1>17 DEF Linked

-----------------------------------------------------------------------------
\* Both lists of the cache's blocks, read as sequences.
\* What a use of its i-th element makes of a sequence.
UsedFirst(s, i) == <<s[i]>> \o (SubSeq(s, 1, i-1) \o SubSeq(s, i+1, Len(s)))

\* As sequences: the used node comes first, the others keep their order ...
LEMMA MovedSeq ==
    ASSUME NEW c \in Nat, NEW o, NEW i \in 1..c, \A k \in 1..c : o[k] \in 1..c
    PROVE  InOrder(Moved(o, i, c), c) = UsedFirst(InOrder(o, c), i)
<1> DEFINE S == 1..c
           s == InOrder(o, c)
           r == InOrder(Moved(o, i, c), c)
<1> HIDE DEF S
<1>0. s = [k \in 1..c |-> o[k]]
  BY DEF InOrder
<1> HIDE DEF s
<1>1. s \in Seq(S) /\ Len(s) = c
  BY <1>0 DEF S
<1> DEFINE a == SubSeq(s, 1, i-1)
           b == SubSeq(s, i+1, Len(s))
<1>2. a \in Seq(S) /\ Len(a) = i - 1 /\ \A k \in 1..i-1 : a[k] = o[k]
  BY <1>0, <1>1
<1>3. b \in Seq(S) /\ Len(b) = c - i /\ \A k \in 1..c-i : b[k] = o[i+k]
  BY <1>0, <1>1
<1> HIDE DEF a, b
<1> DEFINE d == a \o b
<1>4. d \in Seq(S) /\ Len(d) = c - 1
  <2>1. d \in Seq(S) /\ Len(d) = Len(a) + Len(b)
    BY <1>2, <1>3, ConcatProperties
  <2>2. (i - 1) + (c - i) = c - 1
    OBVIOUS
  <2> QED
    BY <1>2, <1>3, <2>1, <2>2
<1>5. \A k \in 1..c-1 : d[k] = IF k < i THEN o[k] ELSE o[k+1]
  <2> SUFFICES ASSUME NEW k \in 1..c-1 PROVE d[k] = IF k < i THEN o[k] ELSE o[k+1]
    OBVIOUS
  <2>1. CASE k < i
    BY <1>2, <1>3, <2>1
  <2>2. CASE ~(k < i)
    <3>1. k - (i - 1) \in 1..c-i /\ i + (k - (i - 1)) = k + 1
      BY <2>2
    <3>2. d[k] = b[k - (i - 1)]
      BY <1>2, <1>3, <2>2
    <3> QED
      BY <1>3, <2>2, <3>1, <3>2
  <2> QED
    BY <2>1, <2>2
<1> HIDE DEF d
<1> DEFINE e == <<o[i]>> \o d
<1>6. e \in Seq(S) /\ Len(e) = c
  BY <1>4 DEF S
<1>7. e[1] = o[i] /\ \A k \in 2..c : e[k] = d[k-1]
  BY <1>4
<1> HIDE DEF e
<1>8. \A k \in 1..c : e[k] = Moved(o, i, c)[k]
  <2> SUFFICES ASSUME NEW k \in 1..c PROVE e[k] = Moved(o, i, c)[k]
    OBVIOUS
  <2>1. CASE k = 1
    BY <1>7, <2>1 DEF Moved
  <2>2. CASE k \in 2..i
    <3>1. k - 1 \in 1..c-1 /\ k - 1 < i /\ k \in 2..c /\ k \in 0..c+1 /\ k # 1
      BY <2>2
    <3> QED
      BY <1>5, <1>7, <2>2, <3>1 DEF Moved
  <2>3. CASE k # 1 /\ k \notin 2..i
    <3>1. k - 1 \in 1..c-1 /\ ~(k - 1 < i) /\ k \in 2..c /\ k \in 0..c+1 /\ (k - 1) + 1 = k
      BY <2>3
    <3> QED
      BY <1>5, <1>7, <2>3, <3>1 DEF Moved
  <2> QED
    BY <2>1, <2>2, <2>3
<1>9. e = [k \in 1..c |-> e[k]]
  BY <1>6
<1>10. r = e
  BY <1>8, <1>9 DEF InOrder
<1>11. s[i] = o[i]
  BY <1>0
<1> QED
  BY <1>10, <1>11 DEF d, e, a, b, s, UsedFirst

\* ... and the new node comes before all others.
LEMMA AddedSeq ==
    ASSUME NEW c \in Nat, NEW o, \A k \in 1..c : o[k] \in 1..c,
           NEW s, s = InOrder(o, c)
    PROVE  InOrder(Added(o, c), c + 1) = <<c + 1>> \o s
<1>1. s \in Seq(Nat) /\ Len(s) = c
  BY DEF InOrder
<1> DEFINE e == <<c + 1>> \o s
<1>2. e \in Seq(Nat) /\ Len(e) = c + 1
  BY <1>1
<1>3. e[1] = c + 1 /\ \A k \in 2..c+1 : e[k] = s[k-1]
  BY <1>1
<1> HIDE DEF e
<1>4. \A k \in 1..c+1 : e[k] = Added(o, c)[k]
  <2> SUFFICES ASSUME NEW k \in 1..c+1 PROVE e[k] = Added(o, c)[k]
    OBVIOUS
  <2>1. CASE k = 1
    BY <1>3, <2>1 DEF Added
  <2>2. CASE k # 1
    <3>1. k \in 2..c+1 /\ k - 1 \in 1..c /\ k \in 0..c+2 /\ k # 0
      BY <2>2
    <3> QED
      BY <1>3, <2>2, <3>1 DEF Added, InOrder
  <2> QED
    BY <2>1, <2>2
<1>5. e = [k \in 1..c+1 |-> e[k]]
  BY <1>2
<1>6. InOrder(Added(o, c), c + 1) = e
  BY <1>4, <1>5 DEF InOrder
<1> QED
  BY <1>6 DEF e

-----------------------------------------------------------------------------
\* The chain's steps: a hit uses its node, an insertion adds one.
LEMMA ChainInUse ==
    ASSUME MapInv, LinksInv
    PROVE  /\ Len(Chain) = current_capacity
           /\ {Chain[k] : k \in 1..Len(Chain)} = 1..current_capacity
           /\ Chain \in Seq(Nodes)
<1>1. current_capacity \in 0..Capacity /\ current_capacity \in Nat
  BY CacheAssumption DEF MapInv
<1>2. PICK o : Linked(o, current_capacity, next, prev)
  BY DEF LinksInv
<1>3. Chain = [k \in 1..current_capacity |-> o[k]]
  BY <1>1, <1>2, ChainIs DEF LinksInv, Chain, InOrder
<1>4. \A k \in 1..current_capacity : o[k] \in 1..current_capacity
  BY <1>2 DEF Linked
<1>5. \A k \in 1..current_capacity : o[k] \in Nodes
  BY <1>1, <1>4, CacheAssumption DEF Nodes
<1>6. Len(Chain) = current_capacity /\ Chain \in Seq(Nodes)
  BY <1>1, <1>3, <1>5
<1>7. \A n \in 1..current_capacity : \E k \in 1..current_capacity : o[k] = n
  BY <1>2 DEF Linked
<1> QED
  BY <1>3, <1>4, <1>6, <1>7

\* A hit uses its node in the recency list.
LEMMA MoveStep ==
    ASSUME MapInv, CallInv, LinksInv, NEW t \in Threads, Move(t)
    PROVE  /\ LinksInv'
           /\ node[t] \in Nodes
           /\ Recency!Use(node[t])
<1> DEFINE c == current_capacity
           n == node[t]
<1>1. c \in 0..Capacity /\ c' = c /\ c \in Nat /\ n \in 1..c
  BY CacheAssumption DEF MapInv, CallInv, Move
<1>2. PICK o : Linked(o, c, next, prev)
  BY DEF LinksInv
<1>3. PICK i \in 1..c : o[i] = n
  BY <1>1, <1>2 DEF Linked
<1>4. next' = NextMoved(o[i], next, prev) /\ prev' = PrevMoved(o[i], next, prev)
  BY <1>3 DEF Move, MoveToHead, Unlinked, NextMoved, PrevMoved, NextWithout, PrevWithout
<1>5. next \in [Links -> Links] /\ prev \in [Links -> Links] /\ next[TailNode] = TailNode
  BY DEF LinksInv
<1>6. /\ next' \in [Links -> Links] /\ prev' \in [Links -> Links] /\ next'[TailNode] = TailNode
      /\ Linked(Moved(o, i, c), c, next', prev')
  BY <1>1, <1>2, <1>4, <1>5, MoveLinks
<1>7. Moved(o, i, c) \in [0..c+1 -> Links]
  BY <1>6 DEF Linked
<1>8. LinksInv'
  BY <1>1, <1>6, <1>7 DEF LinksInv
<1>9. ChainOf(next) = InOrder(o, c)
  BY <1>1, <1>2, <1>5, ChainIs
<1>10. ChainOf(next') = InOrder(Moved(o, i, c), c)
  BY <1>1, <1>6, ChainIs
<1>11. \A k \in 1..c : o[k] \in 1..c
  BY <1>2 DEF Linked
<1>12. InOrder(Moved(o, i, c), c) = UsedFirst(InOrder(o, c), i)
  BY <1>1, <1>11, MovedSeq
<1>13. i \in 1..Len(Chain) /\ Chain[i] = n
  BY <1>1, <1>3, <1>9 DEF Chain, InOrder
<1>14. n \in Nodes
  BY <1>1, CacheAssumption DEF Nodes
<1> QED
  BY <1>8, <1>9, <1>10, <1>12, <1>13, <1>14 DEF Chain, UsedFirst, Recency!Use, Recency!Without

\* An insertion adds its node to the recency list.
LEMMA InsertStep ==
    ASSUME MapInv, LinksInv, NEW t \in Threads, Insert(t)
    PROVE  /\ LinksInv'
           /\ current_capacity + 1 \in Nodes
           /\ Recency!Add(current_capacity + 1)
<1> DEFINE c == current_capacity
<1>1. c \in 0..Capacity /\ c < Capacity /\ c' = c + 1 /\ c \in Nat /\ c + 1 \in 0..Capacity
  BY CacheAssumption DEF MapInv, Insert
<1>2. PICK o : Linked(o, c, next, prev)
  BY DEF LinksInv
<1>3. /\ next' = [next EXCEPT ![c+1] = next[HeadNode], ![HeadNode] = c+1]
      /\ prev' = [prev EXCEPT ![c+1] = HeadNode, ![next[HeadNode]] = c+1]
  BY DEF Insert, CreateAfterHead
<1>4. next \in [Links -> Links] /\ prev \in [Links -> Links] /\ next[TailNode] = TailNode
  BY DEF LinksInv
<1>5. /\ next' \in [Links -> Links] /\ prev' \in [Links -> Links] /\ next'[TailNode] = TailNode
      /\ Linked(Added(o, c), c + 1, next', prev')
  BY <1>1, <1>2, <1>3, <1>4, AddLinks
<1>6. Added(o, c) \in [0..(c+1)+1 -> Links]
  BY <1>5 DEF Linked
<1>7. LinksInv'
  BY <1>1, <1>5, <1>6 DEF LinksInv
<1>8. ChainOf(next) = InOrder(o, c)
  BY <1>1, <1>2, <1>4, ChainIs
<1>9. ChainOf(next') = InOrder(Added(o, c), c + 1)
  BY <1>1, <1>5, ChainIs
<1>10. c + 1 \in Nodes /\ \A k \in 1..c : o[k] \in 1..c
  BY <1>1, <1>2, CacheAssumption DEF Nodes, Linked
<1>11. ChainOf(next') = <<c + 1>> \o ChainOf(next)
  BY <1>1, <1>8, <1>9, <1>10, AddedSeq
<1>12. Len(Chain) = c /\ {Chain[k] : k \in 1..Len(Chain)} = 1..c
  BY ChainInUse
<1>13. c + 1 \notin {Chain[k] : k \in 1..Len(Chain)} /\ Len(Chain) < Capacity
  BY <1>1, <1>12
<1> QED
  BY <1>7, <1>10, <1>11, <1>13 DEF Chain, Recency!Add, Recency!InUse, Recency!Room

\* Every other step leaves the chain alone.
LEMMA LinksStep ==
    ASSUME MapInv, CallInv, LinksInv, [Next]_vars
    PROVE  LinksInv' /\ [Recency!Next]_Chain
<1>1. ASSUME UNCHANGED <<next, prev, current_capacity>>
      PROVE  LinksInv' /\ [Recency!Next]_Chain
  <2>1. LinksInv'
    BY <1>1 DEF LinksInv
  <2>2. Chain' = Chain
    BY <1>1 DEF Chain
  <2> QED
    BY <2>1, <2>2
<1>2. ASSUME NEW t \in Threads, CacheStep(t)
      PROVE  LinksInv' /\ [Recency!Next]_Chain
  <2>1. CASE Move(t)
    BY <2>1, MoveStep DEF Recency!Next
  <2>2. CASE Insert(t)
    BY <2>2, InsertStep DEF Recency!Next
  <2>3. CASE ~Move(t) /\ ~Insert(t)
    <3>1. UNCHANGED <<next, prev, current_capacity>>
      BY <1>2, <2>3 DEF CacheStep, EnterSection, InsideLock, Scan, Recheck, Stamp, Fetch,
         InsertIntoFull, cacheVars
    <3> QED
      BY <1>1, <3>1
  <2> QED
    BY <2>1, <2>2, <2>3
<1>3. ASSUME NEW t \in Threads,
             Request(t) \/ ReplyFromCache(t) \/ Forward(t) \/ ConnectFails(t) \/ Finish(t)
      PROVE  LinksInv' /\ [Recency!Next]_Chain
  BY <1>1, <1>3 DEF Request, ReplyFromCache, Forward, ConnectFails, Finish, Return, lruVars, cacheVars
<1> QED
  BY <1>1, <1>2, <1>3 DEF Next, vars, lruVars, cacheVars

-----------------------------------------------------------------------------
\* An empty cache that nobody uses.
LEMMA ProxyInitInv == Init => SectionInv /\ CacheInv /\ CopiesInv
<1> SUFFICES ASSUME Init PROVE SectionInv /\ CacheInv /\ CopiesInv
  OBVIOUS
<1> USE DEF Init, CacheInit
<1>1. SectionInv
  <2>1. LockInv
    BY LockInitInv
  <2>2. Evicting = {}
    BY DEF Evicting
  <2> QED
    BY <2>1, <2>2 DEF LockInv, WInv, WOwned, SectionInv, WOwnedOrStuck
<1>2. MapInv
  BY CacheAssumption DEF MapInv, Positions
<1>3. CallInv
  BY DEF CallInv, ProxyPC, Sections
<1>4. LinksInv
  <2> DEFINE o == [k \in 0..1 |-> IF k = 0 THEN HeadNode ELSE TailNode]
  <2>1. HeadNode \in Links /\ TailNode \in Links /\ HeadNode # TailNode
    BY DEF Links, HeadNode, TailNode
  <2>2. next \in [Links -> Links] /\ prev \in [Links -> Links] /\ next[TailNode] = TailNode
    BY <2>1
  <2>3. next[HeadNode] = TailNode /\ prev[TailNode] = HeadNode
    BY <2>1
  <2>4. o \in [0..1 -> Links] /\ o[0] = HeadNode /\ o[1] = TailNode
    BY <2>1
  <2>5. Linked(o, 0, next, prev)
    BY <2>3, <2>4 DEF Linked
  <2> HIDE DEF o
  <2> QED
    BY <2>2, <2>4, <2>5, 0 + 1 = 1 DEF LinksInv
<1>5. CopiesInv
  <2> SUFFICES ASSUME NEW k \in Keys
               PROVE  Cardinality(Matches(k)) + Cardinality(Inserting(k)) <= Cardinality(Threads)
    BY DEF CopiesInv
  <2>1. Matches(k) = {} /\ Inserting(k) = {}
    BY DEF Matches, Inserting
  <2>2. Cardinality({}) = 0 /\ Cardinality(Threads) \in Nat
    BY ThreadsAssumption, FS_EmptySet, FS_CardinalityType
  <2> QED
    BY <2>1, <2>2
<1> QED
  BY <1>1, <1>2, <1>3, <1>4, <1>5 DEF CacheInv

ProxyInv == SectionInv /\ CacheInv /\ CopiesInv

\* ProxyInv is an invariant of the proxy.
THEOREM ProxyInvariant == Spec => []ProxyInv
<1>1. ProxyInv /\ [Next]_vars => ProxyInv'
  <2> SUFFICES ASSUME ProxyInv, [Next]_vars PROVE ProxyInv'
    OBVIOUS
  <2>1. SectionInv'
    BY SectionStep DEF ProxyInv, CacheInv
  <2>2. MapInv' /\ CallInv' /\ LinksInv'
    BY MapStep, CallStep, LinksStep DEF ProxyInv, CacheInv
  <2>3. CopiesInv'
    BY <2>2, CopiesStep DEF ProxyInv, CacheInv
  <2> QED
    BY <2>1, <2>2, <2>3 DEF ProxyInv, CacheInv
<1> QED
  BY <1>1, ProxyInitInv, PTL DEF Spec, ProxyInv

\* A thread between lock and unlock is alone among the proxy's workers too,
\* whatever becomes of the one that evicts: a section's body can be one step.
THEOREM SectionsExclude == Spec => []Exclusive
<1>1. ProxyInv => Exclusive
  <2> SUFFICES ASSUME ProxyInv PROVE Exclusive
    OBVIOUS
  <2>1. Readers \subseteq MutexHolders /\ Readers \subseteq GroupMembers /\ Writers \subseteq WHolders
    BY DEF Readers, Writers, MutexHolders, GroupMembers, WHolders
  <2> QED
    BY <2>1 DEF ProxyInv, SectionInv, MutexInv, WOwnedOrStuck, Exclusive
<1> QED
  BY <1>1, ProxyInvariant, PTL

\* The node whose value a hit returns is in the cache and has the key that was
\* asked for, though the lock was released five times since it was found
\* (lrucache.c, lRUCacheGet).
THEOREM HitsHaveTheKey == Spec => []HitHasKey
<1>1. ProxyInv => HitHasKey
  <2> SUFFICES ASSUME ProxyInv, NEW t \in Threads, at[t] = "hit"
               PROVE  node[t] \in Mapped /\ nodeKey[node[t]] = key[t]
    BY DEF HitHasKey
  <2>1. node[t] \in 1..current_capacity /\ nodeKey[node[t]] = key[t]
    BY DEF ProxyInv, CacheInv, CallInv
  <2>2. node[t] - 1 \in Positions /\ cachemap[node[t] - 1] = node[t]
    BY <2>1, CacheAssumption DEF ProxyInv, CacheInv, MapInv, Positions
  <2> QED
    BY <2>1, <2>2 DEF Mapped, NULL
<1> QED
  BY <1>1, ProxyInvariant, PTL

\* The chain and the array hold the same nodes, next and prev are inverse along
\* the chain, and no key has more nodes than there are threads.
THEOREM ChainIsSound == Spec => []ChainSound
<1>1. ProxyInv => ChainSound
  <2> SUFFICES ASSUME ProxyInv PROVE ChainSound
    OBVIOUS
  <2> DEFINE c == current_capacity
             inChain == {Chain[k] : k \in 1..Len(Chain)}
  <2>1. MapInv /\ LinksInv /\ c \in 0..Capacity /\ c \in Nat
    BY CacheAssumption DEF ProxyInv, CacheInv, MapInv
  <2>2. Len(Chain) = c /\ inChain = 1..c
    BY <2>1, ChainInUse
  <2>3. Mapped = 1..c
    <3>1. \A p \in Positions : cachemap[p] # NULL => p \in 0..c-1 /\ cachemap[p] = p + 1
      BY <2>1 DEF MapInv, NULL, Positions
    <3>2. \A n \in 1..c : n - 1 \in Positions /\ cachemap[n-1] = n
      BY <2>1, CacheAssumption DEF MapInv, Positions
    <3>3. \A p \in 0..c-1 : p + 1 \in 1..c
      BY <2>1
    <3> QED
      BY <3>1, <3>2, <3>3 DEF Mapped, NULL
  <2>4. Cardinality(Mapped) = c
    <3>1. Cardinality(1..c) = IF 1 > c THEN 0 ELSE c - 1 + 1
      BY <2>1, FS_Interval
    <3> QED
      BY <2>1, <2>3, <3>1
  <2>5. \A l \in inChain \cup {HeadNode} : next[l] \in Links /\ prev[next[l]] = l
    <3>1. PICK o : Linked(o, c, next, prev)
      BY <2>1 DEF LinksInv
    <3>2. \A l \in 1..c \cup {HeadNode} : \E k \in 0..c : o[k] = l
      BY <2>1, <3>1 DEF Linked
    <3>3. \A k \in 0..c : o[k+1] \in Links /\ next[o[k]] = o[k+1] /\ prev[o[k+1]] = o[k]
      BY <2>1, <3>1 DEF Linked
    <3> SUFFICES ASSUME NEW l \in 1..c \cup {HeadNode} PROVE next[l] \in Links /\ prev[next[l]] = l
      BY <2>2
    <3>4. PICK k \in 0..c : o[k] = l
      BY <3>2
    <3> QED
      BY <3>3, <3>4
  <2>6. DuplicatesBounded
    <3> SUFFICES ASSUME NEW k \in Keys PROVE Cardinality(Matches(k)) <= Cardinality(Threads)
      BY DEF DuplicatesBounded
    <3>1. Cardinality(Matches(k)) + Cardinality(Inserting(k)) <= Cardinality(Threads)
      BY DEF ProxyInv, CopiesInv
    <3> QED
      BY <2>1, <3>1, CopiesFinite
  <2> QED
    BY <2>2, <2>3, <2>4, <2>5, <2>6 DEF ChainSound
<1> QED
  BY <1>1, ProxyInvariant, PTL

\* The chain is the list of the cache's blocks in order of their last use.
THEOREM ChainIsARecencyList == Spec => ImplementsRecencyList
<1>1. Init => Recency!Init
  <2> SUFFICES ASSUME Init PROVE Chain = <<>>
    BY DEF Recency!Init
  <2>1. MapInv /\ LinksInv /\ current_capacity = 0
    BY ProxyInitInv DEF CacheInv, Init, CacheInit
  <2>2. Len(Chain) = 0 /\ Chain \in Seq(Nodes)
    BY <2>1, ChainInUse
  <2> QED
    BY <2>2, EmptySeq
<1>2. ProxyInv /\ [Next]_vars => [Recency!Next]_Chain
  BY LinksStep DEF ProxyInv, CacheInv
<1> QED
  BY <1>1, <1>2, ProxyInvariant, PTL DEF Spec, ImplementsRecencyList, Recency!Spec

\* Once an insertion has found the cache full nobody enters a section again.
THEOREM FullCacheStopsAll == Spec => FullCacheStops
<1>1. ProxyInv /\ [Next]_vars =>
        [(\E t \in Threads : at[t] = "evict") =>
          \A t \in Threads : lk'[t] \in {"reading", "writing"} => lk'[t] = lk[t]]_lruVars
  <2> SUFFICES ASSUME ProxyInv, [Next]_vars, NEW e \in Threads, at[e] = "evict",
                      NEW t \in Threads, lk'[t] \in {"reading", "writing"}, lk'[t] # lk[t]
               PROVE  FALSE
    BY DEF FullCacheStops
  <2>1. e \in Evicting
    BY DEF Evicting
  <2>2. GroupMembers = {} /\ WHolders = {} /\ w = 0 /\ LockTypeOK
    <3>1. lk[e] \in {"rLock", "rCount", "rGate"}
      BY <2>1 DEF ProxyInv, SectionInv, WOwnedOrStuck
    <3>2. e \notin WHolders
      BY <3>1 DEF WHolders
    <3> QED
      BY <2>1, <3>2 DEF ProxyInv, SectionInv, WOwnedOrStuck
  <2>3. ASSUME NEW u \in Threads, LockMoves(u) PROVE FALSE
    <3>1. GroupMembers' = {} /\ WHolders' = {}
      BY <2>1, <2>3, StuckLockStep DEF ProxyInv
    <3> QED
      BY <3>1 DEF GroupMembers, WHolders
  <2>4. ASSUME NEW u \in Threads, CacheStep(u) PROVE FALSE
    <3>1. ~InsertIntoFull(u)
      BY <2>2 DEF InsertIntoFull, GoTo, WHolders
    <3>2. ~Recheck(u)
      BY DEF Recheck, lockVars
    <3> QED
      BY <2>3, <2>4, <3>1, <3>2 DEF CacheStep, EnterSection, InsideLock, Scan, Stamp, Fetch, Move,
         Insert, LockMoves, Unlock
  <2>5. UNCHANGED lk => FALSE
    OBVIOUS
  <2> QED
    BY <2>4, <2>5 DEF Next, vars, lruVars, lockVars, Request, ReplyFromCache, Forward,
       ConnectFails, Finish, Return
<1> QED
  BY <1>1, ProxyInvariant, PTL DEF Spec, FullCacheStops
=============================================================================
