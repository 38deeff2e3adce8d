-------------------------- MODULE SequentialProofs --------------------------
(***************************************************************************)
(* Theorems about programs that run on one thread, for all parameters:     *)
(*  - csim.c implements DemandCache, for every geometry and every trace;   *)
(*  - rio_readn and rio_writen move every byte once, in order;             *)
(*  - the timing package measures what the counter and the clocks say,     *)
(*    whatever the width of the counter and the cost of an interrupt;      *)
(*  - open_clientfd and open_listenfd leave no descriptor open.            *)
(*                                                                         *)
(* The first two programs are extended and the other two instantiated,     *)
(* because some of their names are the same.                               *)
(***************************************************************************)
EXTENDS CacheSim, RioUnbuffered, NatInduction, FiniteSetTheorems, FunctionTheorems, SequenceTheorems

CONSTANTS CounterBits, TickCost, ReadCost, THRESHOLD, RECORDTHRESH, NEVENT, Costs,
          Parameters, CacheSizes, Second, MAX_ETIME, MaxRuns
VARIABLES timer, phase, runs, params, cache_bytes, cache_buf, cyc_per_tick, gap, values, taken

CONSTANTS Fds, MaxAddresses, LongBits
VARIABLES status, failed, errno, printed, helper, fds, kept

Timing == INSTANCE Timers
Calls == INSTANCE SocketHelpers

\* The greatest of numbers that have a bound is one of them.
LEMMA MaxOf ==
    ASSUME NEW b0 \in Nat, NEW T \in SUBSET Nat, \A x \in T : x <= b0, T # {}
    PROVE  Max(T) \in T
<1>1. PICK uppers \in SUBSET Nat : uppers = {u \in Nat : \A x \in T : x <= u}
  OBVIOUS
<1>2. PICK m \in uppers : \A u \in uppers : m <= u
  BY <1>1, LeastElement
<1>3. m \in T
  <2>1. SUFFICES ASSUME m \notin T PROVE FALSE
    OBVIOUS
  <2>2. PICK x \in T : x <= m /\ x # m
    BY <1>1, <2>1
  <2>3. m - 1 \in Nat /\ \A y \in T : y <= m - 1
    BY <1>1, <2>1, <2>2
  <2> QED
    BY <1>1, <1>2, <2>3
<1>4. \E x \in T : \A y \in T : x >= y
  BY <1>1, <1>3
<1> QED
  BY <1>4, Zenon DEF Max

\* A number is made of its quotient and its remainder.
LEMMA DivMod ==
    ASSUME NEW S \in Nat \ {0}, NEW x \in Nat
    PROVE  x = (x \div S) * S + (x % S)
OBVIOUS

\* And of no other quotient and remainder.
LEMMA OneQuotient ==
    ASSUME NEW S \in Nat \ {0}, NEW t \in Nat, NEW i \in 0..S-1
    PROVE  (t * S + i) % S = i /\ (t * S + i) \div S = t
OBVIOUS
-----------------------------------------------------------------------------
\* csim.c.  The lines of a set: one that is valid has been given a time, and
\* no two of them hold the same block.
SetType == [Lines -> [tag : Nat, time : Nat, valid : BOOLEAN]]
SetOK(set) ==
    /\ set \in SetType
    /\ \A k \in Lines : set[k].valid <=> set[k].time > 0
    /\ \A j, k \in Lines : set[j].valid /\ set[k].valid /\ set[j].tag = set[k].tag => j = k

Holds(set, t) == \E k \in Lines : set[k].valid /\ set[k].tag = t
Full(set) == \A k \in Lines : set[k].valid

SimType == [cache : [Sets -> SetType], hits : Nat, misses : Nat, evictions : Nat]
SimOK(sim) == sim \in SimType /\ \A i \in Sets : SetOK(sim.cache[i])

CacheInv == SimOK(Sim)

\* Accesses to the block with tag t that is there, and to one that is not.
Found(set, set2, t) == Holds(set, t) /\ SetOK(set2) /\ \A u : Holds(set2, u) <=> Holds(set, u)
Filled(set, set2, t) ==
    /\ ~Holds(set, t) /\ SetOK(set2)
    /\ \/ ~Full(set) /\ \A u : Holds(set2, u) <=> Holds(set, u) \/ u = t
       \/ /\ Full(set)
          /\ \E v : Holds(set, v) /\ \A u : Holds(set2, u) <=> (Holds(set, u) /\ u # v) \/ u = t

\* n accesses, one after the other.
Took(sim, sim2, i, t, n) ==
    /\ SimOK(sim2)
    /\ \A j \in Sets : j # i => sim2.cache[j] = sim.cache[j]
    /\ \/ /\ Found(sim.cache[i], sim2.cache[i], t)
          /\ sim2.hits = sim.hits + n
          /\ sim2.misses = sim.misses /\ sim2.evictions = sim.evictions
       \/ /\ Filled(sim.cache[i], sim2.cache[i], t)
          /\ sim2.hits = sim.hits + n - 1
          /\ sim2.misses = sim.misses + 1
          /\ Full(sim.cache[i]) => sim2.evictions = sim.evictions + 1
          /\ ~Full(sim.cache[i]) => sim2.evictions = sim.evictions

\* The line that a miss takes is one of the set, and none is older.
LEMMA OldestIs ==
    ASSUME NEW set, SetOK(set)
    PROVE  Oldest(set) \in Lines /\ \A j \in Lines : set[Oldest(set)].time <= set[j].time
<1>1. \A k \in Lines : set[k].time \in Nat
  BY DEF SetOK, SetType
<1>2. PICK times : times = {set[k].time : k \in Lines}
  OBVIOUS
<1>3. times \in SUBSET Nat
  BY <1>1, <1>2
<1>4. 1 \in Lines
  BY SimAssumption DEF Lines
<1>5. times # {}
  BY <1>2, <1>4
<1>6. PICK least \in times : \A x \in times : least <= x
  BY <1>3, <1>5, LeastElement
<1>7. PICK all : all = {k \in Lines : \A j \in Lines : set[k].time <= set[j].time}
  OBVIOUS
<1>8. all \in SUBSET Nat
  BY <1>7 DEF Lines
<1>9. all # {}
  BY <1>2, <1>6, <1>7
<1>10. \E m \in all : \A k \in all : m <= k
  BY <1>8, <1>9, LeastElement
<1>11. Min(all) \in all
  BY <1>10, Zenon DEF Min
<1> QED
  BY <1>7, <1>11 DEF Oldest

\* The greatest time is a number.
LEMMA RecentIs ==
    ASSUME NEW set, SetOK(set)
    PROVE  RecentTime(set) \in Nat
<1>1. \A k \in Lines : set[k].time \in Nat
  BY DEF SetOK, SetType
<1>2. PICK times : times = {set[k].time : k \in Lines}
  OBVIOUS
<1>3. times \in SUBSET Nat
  BY <1>1, <1>2
<1>4. 1 \in Lines /\ E \in Nat /\ Lines = 1..E
  BY SimAssumption DEF Lines
<1>5. times # {}
  BY <1>2, <1>4
<1>6. PICK bound \in Nat : \A x \in times : x <= bound
  <2> DEFINE T == {n \in 0..E : \E bound \in Nat : \A k \in 1..n : set[k].time <= bound}
  <2>1. 0 \in T
    BY <1>4
  <2>2. ASSUME NEW n \in 0..E-1, n \in T PROVE n + 1 \in T
    <3>1. PICK bound \in Nat : \A k \in 1..n : set[k].time <= bound
      BY <2>2
    <3>2. n + 1 \in Lines /\ n + 1 \in 0..E
      BY <1>4
    <3>3. set[n+1].time \in Nat
      BY <3>2 DEF SetOK, SetType
    <3>4. PICK more \in Nat : bound <= more /\ set[n+1].time <= more
      <4>1. bound + set[n+1].time \in Nat /\ bound <= bound + set[n+1].time
            /\ set[n+1].time <= bound + set[n+1].time
        BY <3>3
      <4> QED
        BY <4>1
    <3>5. ASSUME NEW k \in 1..n+1 PROVE set[k].time <= more
      <4>1. k \in 1..n \/ k = n + 1
        OBVIOUS
      <4>2. k \in Lines
        BY <1>4
      <4>3. set[k].time \in Nat
        BY <4>2 DEF SetOK, SetType
      <4> QED
        BY <3>1, <3>4, <4>1, <4>3
    <3> QED
      BY <3>2, <3>5
  <2>3. 0..E \subseteq T
    <3> HIDE DEF T
    <3> QED
      BY <1>4, <2>1, <2>2, UpTo
  <2>4. E \in T
    <3> HIDE DEF T
    <3>1. E \in 0..E
      BY <1>4
    <3> QED
      BY <2>3, <3>1, Zenon
  <2> QED
    BY <1>2, <1>4, <2>4
<1>7. Max(times) \in times
  BY <1>3, <1>5, <1>6, MaxOf
<1> QED
  BY <1>2, <1>3, <1>7 DEF RecentTime

\* A hit changes no more than a time.
LEMMA HitSet ==
    ASSUME NEW set, SetOK(set), NEW m \in Lines, NEW set2,
           set2 = [set EXCEPT ![m].time = @ + 1], set[m].valid
    PROVE  Found(set, set2, set[m].tag)
<1>1. set \in SetType /\ set[m] \in [tag : Nat, time : Nat, valid : BOOLEAN]
  BY DEF SetOK, SetType
<1>2. PICK line : line = [set[m] EXCEPT !.time = @ + 1]
  OBVIOUS
<1>3. set2 = [set EXCEPT ![m] = line]
  BY <1>2
<1>4. PICK old \in [tag : Nat, time : Nat, valid : BOOLEAN] : old = set[m]
  BY <1>1
<1>5. line = [old EXCEPT !.time = @ + 1]
  BY <1>2, <1>4
<1>6. line \in [tag : Nat, time : Nat, valid : BOOLEAN]
  BY <1>5
<1>7. set2 \in SetType
  BY <1>1, <1>3, <1>6 DEF SetType
<1>8. line.tag = set[m].tag /\ line.valid = set[m].valid /\ line.time = set[m].time + 1
  BY <1>4, <1>5
<1>9. \A k \in Lines : set2[k].tag = set[k].tag /\ set2[k].valid = set[k].valid
  BY <1>1, <1>3, <1>8 DEF SetType
<1>10. \A k \in Lines : k # m => set2[k].time = set[k].time
  BY <1>1, <1>3 DEF SetType
<1>11. set2[m].time > 0
  BY <1>1, <1>3, <1>8 DEF SetType
<1>12. \A k \in Lines : set2[k].valid <=> set2[k].time > 0
  BY <1>9, <1>10, <1>11 DEF SetOK
<1>13. \A j, k \in Lines : set2[j].valid /\ set2[k].valid /\ set2[j].tag = set2[k].tag => j = k
  BY <1>9 DEF SetOK
<1>14. SetOK(set2)
  BY <1>7, <1>12, <1>13 DEF SetOK
<1>15. \A u : Holds(set2, u) <=> Holds(set, u)
  BY <1>9 DEF Holds
<1> QED
  BY <1>14, <1>15 DEF Found, Holds

\* A miss fills a line that was never used while there is one.
LEMMA MissSet ==
    ASSUME NEW set, SetOK(set), NEW t \in Nat, ~Holds(set, t), NEW set2,
           set2 = [set EXCEPT ![Oldest(set)] = [tag |-> t, time |-> RecentTime(set) + 1, valid |-> TRUE]]
    PROVE  Filled(set, set2, t) /\ (set[Oldest(set)].valid <=> Full(set))
<1>1. PICK m \in Lines : m = Oldest(set) /\ \A j \in Lines : set[m].time <= set[j].time
  BY OldestIs
<1>2. PICK recent \in Nat : recent = RecentTime(set)
  BY RecentIs
<1>3. PICK line : line = [tag |-> t, time |-> recent + 1, valid |-> TRUE]
  OBVIOUS
<1>4. line \in [tag : Nat, time : Nat, valid : BOOLEAN]
  BY <1>2, <1>3
<1>5. set2 = [set EXCEPT ![m] = line]
  BY <1>1, <1>2, <1>3
<1>6. set \in SetType /\ set2 \in SetType
  <2>1. set \in SetType
    BY DEF SetOK
  <2>2. set2 \in SetType
    BY <1>4, <1>5, <2>1 DEF SetType
  <2> QED
    BY <2>1, <2>2
<1>7. set2[m] = line /\ \A k \in Lines : k # m => set2[k] = set[k]
  BY <1>5, <1>6 DEF SetType
<1>8. line.tag = t /\ line.time > 0 /\ line.valid
  BY <1>2, <1>3
<1>9. \A k \in Lines : set2[k].valid <=> set2[k].time > 0
  BY <1>7, <1>8 DEF SetOK
<1>10. \A k \in Lines : set[k].valid => set[k].tag # t
  BY DEF Holds
<1>11. \A j, k \in Lines : set2[j].valid /\ set2[k].valid /\ set2[j].tag = set2[k].tag => j = k
  BY <1>7, <1>8, <1>10 DEF SetOK
<1>12. SetOK(set2)
  BY <1>6, <1>9, <1>11 DEF SetOK
<1>13. set[m].valid <=> Full(set)
  <2>1. \A j \in Lines : set[j].time \in Nat
    BY <1>6 DEF SetType
  <2>2. set[m].valid => \A j \in Lines : set[j].time > 0
    BY <1>1, <2>1 DEF SetOK
  <2> QED
    BY <2>2 DEF SetOK, Full
<1>14. CASE ~Full(set)
  <2>1. \A u : Holds(set2, u) <=> Holds(set, u) \/ u = t
    BY <1>7, <1>8, <1>13, <1>14 DEF Holds
  <2> QED
    BY <1>1, <1>12, <1>13, <1>14, <2>1 DEF Filled
<1>15. CASE Full(set)
  <2>1. PICK v : v = set[m].tag
    OBVIOUS
  <2>2. Holds(set, v)
    BY <1>13, <1>15, <2>1 DEF Holds
  <2>3. \A u : (\E k \in Lines : k # m /\ set[k].valid /\ set[k].tag = u) <=> Holds(set, u) /\ u # v
    BY <1>13, <1>15, <2>1 DEF Holds, SetOK
  <2>4. \A u : Holds(set2, u) <=> (\E k \in Lines : k # m /\ set[k].valid /\ set[k].tag = u) \/ u = t
    BY <1>7, <1>8 DEF Holds
  <2>5. \A u : Holds(set2, u) <=> (Holds(set, u) /\ u # v) \/ u = t
    BY <2>3, <2>4
  <2> QED
    BY <1>1, <1>12, <1>13, <1>15, <2>2, <2>5 DEF Filled
<1> QED
  BY <1>14, <1>15

-----------------------------------------------------------------------------
\* What read_trace and load_in_cache make of an address.
LEMMA AddressParts ==
    ASSUME NEW addr \in Addrs
    PROVE  /\ BlockOf(addr) \in Nat /\ SetIndex(addr) \in Sets /\ Tag(addr) \in Nat
           /\ TagsFit => BlockOf(addr) = Tag(addr) * 2^s + SetIndex(addr)
<1>1. PICK S \in Nat \ {0}, D \in Nat \ {0}, W \in Nat \ {0} : S = 2^s /\ D = 2^b /\ W = 2^TagBits
  BY SimAssumption
<1>2. addr \in Nat
  BY SimAssumption
<1>3. PICK x \in Nat : x = BlockOf(addr)
  BY <1>1, <1>2 DEF BlockOf
<1>4. PICK q \in Nat : q = x \div S
  BY <1>1
<1>5. PICK i \in 0..S-1 : i = x % S
  BY <1>1
<1>6. PICK t \in Nat : t = q % W
  BY <1>1, <1>4
<1>7. SetIndex(addr) = i /\ Tag(addr) = t /\ Sets = 0..S-1
  BY <1>1, <1>3, <1>4, <1>5, <1>6 DEF SetIndex, Tag, Sets
<1>8. ASSUME TagsFit PROVE x = t * S + i
  <2>1. q < W
    BY <1>1, <1>3, <1>4, <1>8 DEF TagsFit
  <2>2. t = q
    BY <1>1, <1>6, <2>1
  <2>3. x = (x \div S) * S + (x % S)
    BY DivMod
  <2> QED
    BY <1>4, <1>5, <2>2, <2>3
<1> QED
  BY <1>1, <1>3, <1>7, <1>8

\* One call of load_in_cache is one access.
LEMMA LoadIs ==
    ASSUME NEW sim, SimOK(sim), NEW addr \in Addrs
    PROVE  Took(sim, load_in_cache(sim, addr), SetIndex(addr), Tag(addr), 1)
<1>1. PICK i \in Sets : i = SetIndex(addr)
  BY AddressParts
<1>2. PICK t \in Nat : t = Tag(addr)
  BY AddressParts
<1>3. PICK lines : lines = sim.cache[i]
  OBVIOUS
<1>4. SetOK(lines) /\ lines \in SetType
  BY <1>1, <1>3 DEF SimOK, SetOK
<1>5. PICK ch \in [Sets -> SetType], h \in Nat, ms \in Nat, ev \in Nat :
        sim = [cache |-> ch, hits |-> h, misses |-> ms, evictions |-> ev]
  BY DEF SimOK, SimType
<1>6. PICK found : found = {k \in Lines : lines[k].valid /\ lines[k].tag = t}
  OBVIOUS
<1>7. PICK sim2 : sim2 = load_in_cache(sim, addr)
  OBVIOUS
<1>8. ch[i] = lines /\ \A j \in Sets : SetOK(ch[j])
  BY <1>3, <1>5 DEF SimOK
\* What the new state is like when one set has changed.
<1>9. ASSUME NEW set2, SetOK(set2), NEW h2 \in Nat, NEW ms2 \in Nat, NEW ev2 \in Nat,
             sim2 = [cache |-> [ch EXCEPT ![i] = set2], hits |-> h2, misses |-> ms2, evictions |-> ev2]
      PROVE  /\ SimOK(sim2) /\ sim2.cache[i] = set2 /\ sim.cache[i] = lines
             /\ \A j \in Sets : j # i => sim2.cache[j] = sim.cache[j]
             /\ sim.hits = h /\ sim.misses = ms /\ sim.evictions = ev
             /\ sim2.hits = h2 /\ sim2.misses = ms2 /\ sim2.evictions = ev2
  <2>1. PICK ch2 : ch2 = [ch EXCEPT ![i] = set2]
    OBVIOUS
  <2>2. ch2 \in [Sets -> SetType] /\ ch2[i] = set2 /\ \A j \in Sets : j # i => ch2[j] = ch[j]
    BY <1>9, <2>1 DEF SetOK
  <2>3. sim2 = [cache |-> ch2, hits |-> h2, misses |-> ms2, evictions |-> ev2]
    BY <1>9, <2>1
  <2>4. \A j \in Sets : SetOK(ch2[j])
    BY <1>8, <1>9, <2>2
  <2>5. SimOK(sim2)
    BY <2>2, <2>3, <2>4 DEF SimOK, SimType
  <2> QED
    BY <1>5, <1>8, <2>2, <2>3, <2>5
<1>10. CASE found # {}
  <2>1. PICK m \in Lines : m = Min(found) /\ m \in found
    <3>1. found \in SUBSET Nat
      BY <1>6 DEF Lines
    <3>2. \E k \in found : \A j \in found : k <= j
      BY <1>10, <3>1, LeastElement
    <3>3. Min(found) \in found
      BY <3>2, Zenon DEF Min
    <3> QED
      BY <1>6, <3>3
  <2>2. PICK set2 : set2 = [lines EXCEPT ![m].time = @ + 1]
    OBVIOUS
  <2>3. lines[m].valid /\ lines[m].tag = t
    BY <1>6, <2>1
  <2>4. Found(lines, set2, t)
    BY <1>4, <2>2, <2>3, HitSet
  <2>5. sim2 = [sim EXCEPT !.hits = @ + 1, !.cache[i][m].time = @ + 1]
    BY <1>1, <1>2, <1>3, <1>6, <1>7, <1>10, <2>1 DEF load_in_cache
  <2>6. sim2 = [cache |-> [ch EXCEPT ![i] = set2], hits |-> h + 1, misses |-> ms, evictions |-> ev]
    BY <1>5, <1>8, <2>2, <2>5
  <2>7. SetOK(set2)
    BY <2>4 DEF Found
  <2>8. h + 1 \in Nat
    OBVIOUS
  <2>9. /\ SimOK(sim2) /\ sim2.cache[i] = set2 /\ sim.cache[i] = lines
        /\ \A j \in Sets : j # i => sim2.cache[j] = sim.cache[j]
        /\ sim2.hits = sim.hits + 1 /\ sim2.misses = sim.misses /\ sim2.evictions = sim.evictions
    BY <1>9, <2>6, <2>7, <2>8
  <2> QED
    BY <1>1, <1>2, <1>7, <2>4, <2>9 DEF Took
<1>11. CASE found = {}
  <2>1. PICK m \in Lines : m = Oldest(lines)
    BY <1>4, OldestIs
  <2>2. PICK line : line = [tag |-> t, time |-> RecentTime(lines) + 1, valid |-> TRUE]
    OBVIOUS
  <2>3. PICK set2 : set2 = [lines EXCEPT ![m] = line]
    OBVIOUS
  <2>4. ~Holds(lines, t)
    BY <1>6, <1>11 DEF Holds
  <2>5. Filled(lines, set2, t) /\ (lines[m].valid <=> Full(lines))
    BY <1>4, <2>1, <2>2, <2>3, <2>4, MissSet
  <2>6. PICK ev2 \in Nat : ev2 = IF lines[m].valid THEN ev + 1 ELSE ev
    OBVIOUS
  <2>7. sim2 = [sim EXCEPT !.misses = @ + 1,
                           !.evictions = IF lines[m].valid THEN @ + 1 ELSE @,
                           !.cache[i][m] = line]
    BY <1>1, <1>2, <1>3, <1>6, <1>7, <1>11, <2>1, <2>2 DEF load_in_cache
  <2>8. sim2 = [cache |-> [ch EXCEPT ![i] = set2], hits |-> h, misses |-> ms + 1, evictions |-> ev2]
    BY <1>5, <1>8, <2>3, <2>6, <2>7
  <2>9. SetOK(set2)
    BY <2>5 DEF Filled
  <2>10. /\ SimOK(sim2) /\ sim2.cache[i] = set2 /\ sim.cache[i] = lines
         /\ \A j \in Sets : j # i => sim2.cache[j] = sim.cache[j]
         /\ sim.hits = h /\ sim.misses = ms /\ sim.evictions = ev
         /\ sim2.hits = h /\ sim2.misses = ms + 1 /\ sim2.evictions = ev2
    BY <1>9, <2>8, <2>9
  <2>11. /\ Full(lines) => ev2 = ev + 1
         /\ ~Full(lines) => ev2 = ev
    BY <2>5, <2>6
  <2>12. sim2.hits = sim.hits + 1 - 1
    BY <2>10
  <2> QED
    BY <1>1, <1>2, <1>7, <2>5, <2>10, <2>11, <2>12 DEF Took
<1> QED
  BY <1>10, <1>11

\* After the first of two accesses to a block the second one finds it.
LEMMA TakenTwice ==
    ASSUME NEW sim, NEW sim2, NEW sim3, NEW i \in Sets, NEW t,
           SimOK(sim), Took(sim, sim2, i, t, 1), Took(sim2, sim3, i, t, 1)
    PROVE  Took(sim, sim3, i, t, 2)
<1>1. Holds(sim2.cache[i], t)
  BY DEF Took, Found, Filled
<1>2. /\ Found(sim2.cache[i], sim3.cache[i], t)
      /\ sim3.hits = sim2.hits + 1
      /\ sim3.misses = sim2.misses /\ sim3.evictions = sim2.evictions
  BY <1>1 DEF Took, Filled
<1>3. /\ \A u : Holds(sim3.cache[i], u) <=> Holds(sim2.cache[i], u)
      /\ SetOK(sim3.cache[i])
  BY <1>2 DEF Found
<1>4. SimOK(sim3) /\ \A j \in Sets : j # i => sim3.cache[j] = sim.cache[j]
  BY DEF Took
<1>5. sim.hits \in Nat
  BY DEF SimOK, SimType
<1>6. CASE /\ Found(sim.cache[i], sim2.cache[i], t)
           /\ sim2.hits = sim.hits + 1
           /\ sim2.misses = sim.misses /\ sim2.evictions = sim.evictions
  <2>1. Found(sim.cache[i], sim3.cache[i], t)
    BY <1>3, <1>6 DEF Found
  <2>2. sim3.hits = sim.hits + 2
    BY <1>2, <1>5, <1>6
  <2> QED
    BY <1>2, <1>4, <1>6, <2>1, <2>2 DEF Took
<1>7. CASE /\ Filled(sim.cache[i], sim2.cache[i], t)
           /\ sim2.hits = sim.hits + 1 - 1
           /\ sim2.misses = sim.misses + 1
           /\ Full(sim.cache[i]) => sim2.evictions = sim.evictions + 1
           /\ ~Full(sim.cache[i]) => sim2.evictions = sim.evictions
  <2>1. Filled(sim.cache[i], sim3.cache[i], t)
    BY <1>3, <1>7 DEF Filled
  <2>2. sim3.hits = sim.hits + 2 - 1
    BY <1>2, <1>5, <1>7
  <2> QED
    BY <1>2, <1>4, <1>7, <2>1, <2>2 DEF Took
<1> QED
  BY <1>6, <1>7 DEF Took

-----------------------------------------------------------------------------
\* The blocks in a cache, of this state or the next.
BlocksIn(c) ==
    {c[l[1]][l[2]].tag * 2^s + l[1] : l \in {l \in Sets \X Lines : c[l[1]][l[2]].valid}}

\* Block x is in them when its set has a line with its tag.
LEMMA BlocksAre ==
    ASSUME NEW c \in [Sets -> SetType], NEW S \in Nat \ {0}, S = 2^s, NEW x
    PROVE  x \in BlocksIn(c) <=> x \in Nat /\ x % S \in Sets /\ Holds(c[x % S], x \div S)
<1>1. Sets = 0..S-1
  BY DEF Sets
<1>2. ASSUME x \in BlocksIn(c) PROVE x \in Nat /\ x % S \in Sets /\ Holds(c[x % S], x \div S)
  <2>1. PICK l \in Sets \X Lines : c[l[1]][l[2]].valid /\ x = c[l[1]][l[2]].tag * S + l[1]
    BY <1>2 DEF BlocksIn
  <2>2. PICK i \in Sets, k \in Lines : l = <<i, k>>
    BY <2>1
  <2>3. c[i] \in SetType
    OBVIOUS
  <2>4. PICK t \in Nat : t = c[i][k].tag
    BY <2>3 DEF SetType
  <2>5. c[i][k].valid /\ x = t * S + i
    BY <2>1, <2>2, <2>4
  <2>6. x % S = i /\ x \div S = t
    BY <1>1, <2>5, OneQuotient
  <2>7. t * S \in Nat /\ i \in Nat
    BY <1>1
  <2>8. x \in Nat
    BY <2>5, <2>7
  <2>9. Holds(c[i], t)
    BY <2>4, <2>5 DEF Holds
  <2> QED
    BY <2>6, <2>8, <2>9
<1>3. ASSUME x \in Nat, x % S \in Sets, Holds(c[x % S], x \div S) PROVE x \in BlocksIn(c)
  <2>1. PICK i \in Sets : i = x % S
    BY <1>3
  <2>2. PICK t : t = x \div S
    OBVIOUS
  <2>3. PICK k \in Lines : c[i][k].valid /\ c[i][k].tag = t
    BY <1>3, <2>1, <2>2 DEF Holds
  <2>4. PICK l \in Sets \X Lines : l = <<i, k>>
    OBVIOUS
  <2>5. l[1] = i /\ l[2] = k
    BY <2>4
  <2>6. x = t * S + i
    BY <1>3, <2>1, <2>2, DivMod
  <2> QED
    BY <2>3, <2>5, <2>6 DEF BlocksIn
<1> QED
  BY <1>2, <1>3

\* The blocks of a set are as many as its valid lines: a miss finds room exactly
\* when a line of the set was never filled.
LEMMA RivalsAre ==
    ASSUME NEW c \in [Sets -> SetType], NEW i \in Sets, SetOK(c[i]),
           NEW rivals, rivals = {x \in BlocksIn(c) : x % 2^s = i}
    PROVE  Cardinality(rivals) \in Nat /\ Cardinality(rivals) <= E
           /\ (Cardinality(rivals) = E <=> Full(c[i]))
<1>1. PICK S \in Nat \ {0} : S = 2^s /\ Sets = 0..S-1
  BY SimAssumption DEF Sets
<1>2. PICK set \in SetType : set = c[i]
  OBVIOUS
<1>3. PICK filled \in SUBSET Lines : filled = {k \in Lines : set[k].valid}
  OBVIOUS
<1>4. IsFiniteSet(Lines) /\ Cardinality(Lines) = E /\ E \in Nat
  BY SimAssumption, FS_Interval DEF Lines
<1>5. IsFiniteSet(filled) /\ Cardinality(filled) \in Nat /\ Cardinality(filled) <= E
      /\ (Cardinality(filled) = E => filled = Lines)
  BY <1>4, FS_Subset, FS_CardinalityType
<1>6. PICK f : f = [k \in filled |-> set[k].tag * S + i]
  OBVIOUS
<1>7. \A k \in filled : set[k].tag \in Nat /\ f[k] = set[k].tag * S + i
                        /\ f[k] % S = i /\ f[k] \div S = set[k].tag /\ f[k] \in Nat
  <2>1. SUFFICES ASSUME NEW k \in filled
                 PROVE  set[k].tag \in Nat /\ f[k] = set[k].tag * S + i
                        /\ f[k] % S = i /\ f[k] \div S = set[k].tag /\ f[k] \in Nat
    OBVIOUS
  <2>2. PICK t \in Nat : t = set[k].tag
    BY <1>3 DEF SetType
  <2>3. f[k] = t * S + i
    BY <1>6, <2>2
  <2>4. (t * S + i) % S = i /\ (t * S + i) \div S = t
    BY <1>1, OneQuotient
  <2>5. t * S + i \in Nat
    BY <1>1
  <2> QED
    BY <2>2, <2>3, <2>4, <2>5
<1>8. \A x : x \in rivals <=> x \in Nat /\ x % S = i /\ Holds(set, x \div S)
  BY <1>1, <1>2, BlocksAre
<1>9. f \in [filled -> rivals]
  <2>1. \A k \in filled : f[k] \in rivals
    BY <1>3, <1>7, <1>8 DEF Holds
  <2> QED
    BY <1>6, <2>1
<1>10. \A j, k \in filled : f[j] = f[k] => j = k
  BY <1>2, <1>3, <1>7 DEF SetOK
<1>11. \A x \in rivals : \E k \in filled : f[k] = x
  <2>1. SUFFICES ASSUME NEW x \in rivals PROVE \E k \in filled : f[k] = x
    OBVIOUS
  <2>2. x \in Nat /\ x % S = i
    BY <1>8
  <2>3. PICK k \in filled : set[k].tag = x \div S
    BY <1>3, <1>8 DEF Holds
  <2>4. f[k] = (x \div S) * S + (x % S)
    BY <1>7, <2>2, <2>3
  <2> QED
    BY <2>2, <2>3, <2>4, DivMod
<1>12. f \in Bijection(filled, rivals)
  BY <1>9, <1>10, <1>11, Fun_IsBij
<1>13. Cardinality(rivals) = Cardinality(filled)
  BY <1>5, <1>12, FS_Bijection DEF ExistsBijection
<1>14. Full(c[i]) <=> filled = Lines
  BY <1>2, <1>3 DEF Full
<1> QED
  BY <1>4, <1>5, <1>13, <1>14

\* An instance has a copy of the operators of FiniteSets.
LEMMA SameCardinality ==
    ASSUME NEW T PROVE Demand!Cardinality(T) = Cardinality(T)
BY Zenon DEF Demand!Cardinality, Cardinality

\* n accesses to the block with tag t of set i, in the terms of DemandCache.
LEMMA TookIsAccess ==
    ASSUME CacheInv, NEW sim2, NEW i \in Sets, NEW t \in Nat, NEW n \in 1..2,
           Took(Sim, sim2, i, t, n), Counts(sim2),
           NEW k, k = t * 2^s + i, order' = Touched(order, k)
    PROVE  CacheInv' /\ (Demand!Hit(k, n) \/ Demand!Miss(k, n))
<1>1. PICK S \in Nat \ {0} : S = 2^s /\ Sets = 0..S-1
  BY SimAssumption DEF Sets
<1>2. k \in Nat /\ k % S = i /\ k \div S = t
  <2>1. t * S + i \in Nat
    BY <1>1
  <2> QED
    BY <1>1, <2>1, OneQuotient
<1>3. /\ Sim.cache = cache /\ Sim.hits = hits
      /\ Sim.misses = misses /\ Sim.evictions = evictions
  BY DEF Sim
<1>4. cache \in [Sets -> SetType] /\ \A j \in Sets : SetOK(cache[j])
  BY <1>3 DEF CacheInv, SimOK, SimType
<1>5. SimOK(sim2) /\ sim2 \in SimType
  BY DEF Took, SimOK
<1>6. Sim' = sim2
  <2>1. sim2 = [cache |-> sim2.cache, hits |-> sim2.hits, misses |-> sim2.misses,
                evictions |-> sim2.evictions]
    BY <1>5 DEF SimType
  <2> QED
    BY <2>1 DEF Sim, Counts
<1>7. CacheInv'
  <2>1. SimOK(Sim)' <=> SimOK(Sim')
    BY DEF SimOK, SimType, SetOK, SetType
  <2> QED
    BY <1>5, <1>6, <2>1 DEF CacheInv
<1>8. cache' \in [Sets -> SetType] /\ \A j \in Sets : SetOK(cache'[j])
  BY <1>5 DEF Counts, SimOK, SimType
<1>9. Resident = BlocksIn(cache) /\ Resident' = BlocksIn(cache')
  BY DEF Resident, ValidLines, BlocksIn
<1>10. \A x : x \in Resident <=> x \in Nat /\ x % S \in Sets /\ Holds(cache[x % S], x \div S)
  BY <1>1, <1>4, <1>9, BlocksAre
<1>11. \A x : x \in Resident' <=> x \in Nat /\ x % S \in Sets /\ Holds(cache'[x % S], x \div S)
  BY <1>1, <1>8, <1>9, BlocksAre
<1>12. \A j \in Sets : j # i => cache'[j] = cache[j]
  BY <1>3 DEF Took, Counts
<1>13. order' = Demand!Touched(order, k)
  BY DEF Touched, Demand!Touched
<1>14. CASE /\ Found(cache[i], cache'[i], t)
            /\ hits' = hits + n /\ misses' = misses /\ evictions' = evictions
  <2>1. k \in Resident
    BY <1>2, <1>10, <1>14 DEF Found
  <2>2. \A x : x \in Resident' <=> x \in Resident
    BY <1>10, <1>11, <1>12, <1>14 DEF Found
  <2>3. Resident' = Resident
    BY <2>2
  <2>4. Demand!Hit(k, n)
    BY <1>13, <1>14, <2>1, <2>3 DEF Demand!Hit
  <2> QED
    BY <1>7, <2>4
<1>15. CASE /\ Filled(cache[i], cache'[i], t)
            /\ hits' = hits + n - 1 /\ misses' = misses + 1
            /\ Full(cache[i]) => evictions' = evictions + 1
            /\ ~Full(cache[i]) => evictions' = evictions
  <2>1. k \notin Resident
    BY <1>2, <1>10, <1>15 DEF Filled
  <2>2. PICK rivals : rivals = {x \in BlocksIn(cache) : x % 2^s = i}
    OBVIOUS
  <2>3. Demand!Rivals(k) = rivals
    BY <1>1, <1>2, <1>9, <2>2 DEF Demand!Rivals
  <2>4. Cardinality(rivals) \in Nat /\ Cardinality(rivals) <= E
        /\ (Cardinality(rivals) = E <=> Full(cache[i]))
    BY <1>4, <2>2, RivalsAre
  <2>5. E \in Nat
    BY SimAssumption
  <2>6. CASE ~Full(cache[i])
    <3>1. \A u : Holds(cache'[i], u) <=> Holds(cache[i], u) \/ u = t
      BY <1>15, <2>6 DEF Filled
    <3>2. \A x \in Nat : x % S = i => (x \div S = t <=> x = k)
      BY <1>1, <1>2, DivMod
    <3>3. \A x : x \in Resident' <=> x \in Resident \/ x = k
      BY <1>2, <1>10, <1>11, <1>12, <3>1, <3>2
    <3>4. Resident' = Resident \cup {k}
      BY <3>3
    <3>5. Cardinality(rivals) < E
      BY <2>4, <2>5, <2>6
    <3>6. /\ Demand!Cardinality(Demand!Rivals(k)) < E
          /\ Resident' = Resident \cup {k}
          /\ UNCHANGED evictions
      BY <1>15, <2>3, <2>6, <3>4, <3>5, SameCardinality
    <3>7. Demand!Miss(k, n)
      BY <1>13, <1>15, <2>1, <3>6, Zenon DEF Demand!Miss
    <3> QED
      BY <1>7, <3>7
  <2>7. CASE Full(cache[i])
    <3>1. PICK v : Holds(cache[i], v)
                   /\ \A u : Holds(cache'[i], u) <=> (Holds(cache[i], u) /\ u # v) \/ u = t
      BY <1>15, <2>7 DEF Filled
    <3>2. v \in Nat
      BY <1>4, <3>1 DEF Holds, SetType
    <3>3. PICK victim \in Nat : victim = v * S + i
      <4>1. v * S \in Nat /\ i \in Nat
        BY <1>1, <3>2
      <4>2. v * S + i \in Nat
        BY <4>1
      <4> QED
        BY <4>2
    <3>4. victim % S = i /\ victim \div S = v
      BY <1>1, <3>2, <3>3, OneQuotient
    <3>5. victim \in rivals
      BY <1>1, <1>9, <1>10, <2>2, <3>1, <3>4
    <3>6. /\ \A x \in Nat : x % S = i => (x \div S = t <=> x = k)
          /\ \A x \in Nat : x % S = i => (x \div S = v <=> x = victim)
      <4>1. ASSUME NEW x \in Nat, x % S = i, x \div S = v PROVE x = victim
        BY <3>3, <4>1, DivMod
      <4>2. \A x \in Nat : x % S = i => (x \div S = t <=> x = k)
        BY <1>1, <1>2, DivMod
      <4> QED
        BY <3>4, <4>1, <4>2
    <3>7. \A x : x \in Resident' <=> (x \in Resident /\ x # victim) \/ x = k
      BY <1>2, <1>10, <1>11, <1>12, <3>1, <3>4, <3>6
    <3>8. Resident' = (Resident \ {victim}) \cup {k}
      BY <3>7
    <3>9. /\ Demand!Cardinality(Demand!Rivals(k)) = E
          /\ \E w \in Demand!Rivals(k) : Resident' = (Resident \ {w}) \cup {k}
          /\ evictions' = evictions + 1
      BY <1>15, <2>3, <2>4, <2>7, <3>5, <3>8, SameCardinality
    <3>10. Demand!Miss(k, n)
      BY <1>13, <1>15, <2>1, <3>9, Zenon DEF Demand!Miss
    <3> QED
      BY <1>7, <3>10
  <2> QED
    BY <2>6, <2>7
<1> QED
  BY <1>3, <1>14, <1>15 DEF Took, Counts

\* The counters and the lines are as cache_init leaves them.
LEMMA ColdIsCold ==
    Init => CacheInv /\ Demand!Init
<1> SUFFICES ASSUME Init PROVE CacheInv /\ Demand!Init
  OBVIOUS
<1>1. PICK line : line = [tag |-> 0, time |-> 0, valid |-> FALSE]
  OBVIOUS
<1>2. line \in [tag : Nat, time : Nat, valid : BOOLEAN] /\ line.time = 0 /\ ~line.valid
  BY <1>1
<1>3. PICK set : set = [k \in Lines |-> line]
  OBVIOUS
<1>4. SetOK(set) /\ \A k \in Lines : ~set[k].valid
  BY <1>2, <1>3 DEF SetOK, SetType
<1>5. cache = [i \in Sets |-> set]
  BY <1>1, <1>3 DEF Init, ColdCache
<1>6. cache \in [Sets -> SetType] /\ \A i \in Sets : SetOK(cache[i])
  BY <1>4, <1>5 DEF SetOK
<1>7. CacheInv
  BY <1>6 DEF CacheInv, SimOK, SimType, Sim, Init
<1>8. \A l \in Sets \X Lines : ~cache[l[1]][l[2]].valid
  BY <1>4, <1>5
<1>9. Resident = {}
  BY <1>8 DEF Resident, ValidLines
<1> QED
  BY <1>7, <1>9 DEF Init, Demand!Init

\* A step of the simulator is one or two accesses, or changes nothing.
LEMMA StepIsAccess ==
    ASSUME TagsFit, CacheInv, [Next]_simVars
    PROVE  CacheInv' /\ [Demand!Next]_(Demand!vars)
<1>1. CASE UNCHANGED simVars
  <2>1. Sim' = Sim /\ Resident' = Resident
    BY <1>1 DEF simVars, counters, Sim, Resident, ValidLines
  <2>2. CacheInv' <=> SimOK(Sim')
    BY DEF CacheInv, SimOK, SimType, SetOK, SetType
  <2>3. UNCHANGED Demand!vars
    BY <1>1, <2>1 DEF simVars, counters, Demand!vars
  <2> QED
    BY <2>1, <2>2, <2>3 DEF CacheInv
<1>2. ASSUME NEW addr \in Addrs, NEW n \in 1..2, NEW sim2,
             Took(Sim, sim2, SetIndex(addr), Tag(addr), n), Counts(sim2),
             order' = Touched(order, BlockOf(addr))
      PROVE  CacheInv' /\ Demand!Next
  <2>1. PICK k : k = BlockOf(addr)
    OBVIOUS
  <2>2. SetIndex(addr) \in Sets /\ Tag(addr) \in Nat /\ k = Tag(addr) * 2^s + SetIndex(addr)
    BY <2>1, AddressParts
  <2>3. CacheInv' /\ (Demand!Hit(k, n) \/ Demand!Miss(k, n))
    BY <1>2, <2>1, <2>2, TookIsAccess
  <2>4. k \in {BlockOf(a) : a \in Addrs}
    BY <2>1
  <2> QED
    BY <2>3, <2>4, Zenon DEF Demand!Next
<1>3. ASSUME NEW addr \in Addrs, LoadOrStore(addr) PROVE CacheInv' /\ Demand!Next
  <2>1. PICK sim2 : sim2 = load_in_cache(Sim, addr)
    OBVIOUS
  <2>2. Took(Sim, sim2, SetIndex(addr), Tag(addr), 1)
    BY <2>1, LoadIs DEF CacheInv
  <2>3. Counts(sim2) /\ order' = Touched(order, BlockOf(addr))
    BY <1>3, <2>1 DEF LoadOrStore
  <2>4. 1 \in 1..2
    OBVIOUS
  <2> QED
    BY <1>2, <2>2, <2>3, <2>4
<1>4. ASSUME NEW addr \in Addrs, Modify(addr) PROVE CacheInv' /\ Demand!Next
  <2>1. PICK sim2 : sim2 = load_in_cache(Sim, addr)
    OBVIOUS
  <2>2. Took(Sim, sim2, SetIndex(addr), Tag(addr), 1) /\ SimOK(sim2)
    BY <2>1, LoadIs DEF CacheInv, Took
  <2>3. PICK sim3 : sim3 = load_in_cache(sim2, addr)
    OBVIOUS
  <2>4. Took(sim2, sim3, SetIndex(addr), Tag(addr), 1)
    BY <2>2, <2>3, LoadIs
  <2>5. SimOK(Sim) /\ SetIndex(addr) \in Sets
    BY AddressParts DEF CacheInv
  <2>6. Took(Sim, sim3, SetIndex(addr), Tag(addr), 2)
    BY <2>2, <2>4, <2>5, TakenTwice
  <2>7. Counts(sim3) /\ order' = Touched(order, BlockOf(addr))
    BY <1>4, <2>1, <2>3 DEF Modify
  <2>8. 2 \in 1..2
    OBVIOUS
  <2> QED
    BY <1>2, <2>6, <2>7, <2>8
<1> QED
  BY <1>1, <1>3, <1>4, Zenon DEF Next

\* Whatever its geometry, and whatever the trace, the simulator counts as a cache
\* does, as long as no tag loses a bit that tells it from another
\* (SimulatorIsACache, for every s, E and b).
THEOREM CsimIsACache ==
    ASSUME TagsFit
    PROVE  Spec => Demand!Spec
<1>1. Init => CacheInv /\ Demand!Init
  BY ColdIsCold
<1>2. CacheInv /\ [Next]_simVars => CacheInv' /\ [Demand!Next]_(Demand!vars)
  BY StepIsAccess
<1> QED
  BY <1>1, <1>2, PTL DEF Spec, Demand!Spec

-----------------------------------------------------------------------------
\* csapp.c.  The transfer under way: what a write has moved so far are the first
\* bytes of its buffer, and no transfer is under way when the process has ended.
CallType == [fn : {"rio_readn", "rio_writen"}, n : Nat, moved : Seq(Nat)]
CallOK(call) ==
    /\ Len(call.moved) <= call.n
    /\ call.fn = "rio_writen" => call.moved = SubSeq(Outgoing(call.n), 1, Len(call.moved))

BytesInv ==
    /\ process \in {"up", "exited"}
    /\ received \in Seq(Nat) /\ unread \in Seq(Nat)
    /\ transfer = NoCall \/ (transfer \in CallType /\ CallOK(transfer))
    /\ process = "exited" => transfer = NoCall
    /\ BytesWhole

\* What BytesWhole says of a call that has returned, for any call.
ReturnedWell(call, rc) ==
    /\ rc >= 0 /\ call.fn = "rio_readn" =>
           rc = Len(call.moved) /\ (rc < call.n => unread = <<>>)
    /\ rc >= 0 /\ call.fn = "rio_writen" => call.moved = Outgoing(call.n)

\* In the beginning everything is unread.
LEMMA StartIsWhole ==
    ASSUME StreamLength \in Nat
    PROVE  UnbufferedInit => BytesInv
<1> SUFFICES ASSUME UnbufferedInit PROVE BytesInv
  OBVIOUS
<1>1. Sent \in Seq(Nat)
  BY DEF Sent
<1>2. <<>> \o Sent = Sent
  BY <1>1
<1>3. received \in Seq(Nat) /\ unread \in Seq(Nat) /\ received \o unread = Sent
  BY <1>1, <1>2 DEF UnbufferedInit
<1>4. returned.fn = "none" /\ process = "up" /\ transfer = NoCall
  BY DEF UnbufferedInit
<1>5. BytesWhole
  BY <1>3, <1>4 DEF BytesWhole
<1> QED
  BY <1>3, <1>4, <1>5 DEF BytesInv

\* A call that returns without ending the process.
LEMMA ReturnIsWhole ==
    ASSUME BytesInv, NEW rc, transfer # NoCall, Return(rc), ReturnedWell(transfer, rc),
           process' = "up", UNCHANGED <<unread, received>>
    PROVE  BytesInv'
<1>1. transfer' = NoCall /\ returned'.fn = transfer.fn /\ returned'.n = transfer.n
      /\ returned'.moved = transfer.moved /\ returned'.rc = rc
  BY DEF Return
<1>2. BytesWhole'
  BY <1>1 DEF BytesInv, BytesWhole, ReturnedWell, Sent, Outgoing
<1>3. process' \in {"up", "exited"} /\ process' # "exited"
  OBVIOUS
<1>4. received' \in Seq(Nat) /\ unread' \in Seq(Nat)
  BY DEF BytesInv
<1>5. NoCall' = NoCall
  BY DEF NoCall
<1> QED
  BY <1>1, <1>2, <1>3, <1>4, <1>5, Zenon DEF BytesInv

\* Bytes put together in either order; the name keeps the law from multiplying.
Regroups(x, y, z) == (x \o y) \o z = x \o (y \o z)
LEMMA BytesRegroup ==
    ASSUME NEW x \in Seq(Nat), NEW y \in Seq(Nat), NEW z \in Seq(Nat)
    PROVE  Regroups(x, y, z)
<1>1. \A Bytes : \A u, v, w \in Seq(Bytes) : Regroups(u, v, w)
  BY ConcatAssociative, Zenon DEF Regroups
<1> QED
  BY <1>1

\* The bytes of a buffer and the next ones are its first bytes again.
LEMMA FirstBytes ==
    ASSUME NEW n \in Nat
    PROVE  /\ Outgoing(n) \in Seq(Nat) /\ Len(Outgoing(n)) = n
           /\ SubSeq(Outgoing(n), 1, n) = Outgoing(n)
           /\ \A m \in 0..n : SubSeq(Outgoing(n), 1, m) \in Seq(Nat)
                              /\ Len(SubSeq(Outgoing(n), 1, m)) = m
<1>1. PICK o : o = Outgoing(n)
  OBVIOUS
<1>2. o \in Seq(Nat) /\ Len(o) = n
  <2>1. o \in [1..n -> Nat]
    BY <1>1 DEF Outgoing
  <2> QED
    BY <2>1
<1>3. SubSeq(o, 1, n) = o
  BY <1>2, SubSeqFull
<1>4. ASSUME NEW m \in 0..n PROVE SubSeq(o, 1, m) \in Seq(Nat) /\ Len(SubSeq(o, 1, m)) = m
  BY <1>2, SubSeqProperties
<1> QED
  BY <1>1, <1>2, <1>3, <1>4

\* No step loses, doubles or moves a byte.
LEMMA StepIsWhole ==
    ASSUME MaxBytes \in Nat, BytesInv, [UnbufferedNext]_rioVars
    PROVE  BytesInv'
<1>1. CASE UNCHANGED rioVars
  BY <1>1 DEF rioVars, BytesInv, BytesWhole, CallOK, CallType, NoCall, Sent, Outgoing, Forgiven
<1>2. ASSUME NEW fn \in {"rio_readn", "rio_writen"}, NEW n \in 0..MaxBytes, Called(fn, n)
      PROVE  BytesInv'
  <2>1. transfer' \in CallType /\ transfer'.fn = fn /\ transfer'.n = n /\ transfer'.moved = <<>>
    BY <1>2 DEF Called, CallType
  <2>2. SubSeq(Outgoing(n), 1, 0) = <<>>
    BY SubSeqEmpty
  <2>3. CallOK(transfer')
    BY <2>1, <2>2 DEF CallOK
  <2>4. BytesWhole'
    BY <1>2 DEF Called, BytesInv, BytesWhole, Sent, Outgoing, Forgiven
  <2> QED
    BY <1>2, <2>1, <2>3, <2>4 DEF Called, BytesInv, CallOK, CallType, Outgoing
<1>3. CASE ReadBytes
  <2>1. transfer \in CallType /\ CallOK(transfer) /\ transfer.fn = "rio_readn" /\ nleft > 0
    BY <1>3 DEF ReadBytes, BytesInv, NoCall
  <2>2. PICK fn, n, moved : transfer = [fn |-> fn, n |-> n, moved |-> moved]
    BY <2>1 DEF CallType
  <2>3. fn = "rio_readn" /\ n \in Nat /\ moved \in Seq(Nat) /\ Len(moved) <= n /\ nleft = n - Len(moved)
    BY <2>1, <2>2 DEF CallType, CallOK, nleft
  <2>4. PICK k \in 1..Min({nleft, Len(unread)}) :
           /\ transfer' = [transfer EXCEPT !.moved = @ \o SubSeq(unread, 1, k)]
           /\ unread' = SubSeq(unread, k + 1, Len(unread))
           /\ received' = received \o SubSeq(unread, 1, k)
    BY <1>3 DEF ReadBytes
  <2>5. PICK un \in Seq(Nat) : un = unread
    BY DEF BytesInv
  <2>6. k \in Nat /\ 1 <= k /\ k <= Len(un) /\ Len(moved) + k <= n
    <3>1. nleft \in Nat /\ Len(un) \in Nat
      BY <2>1, <2>3, <2>5
    <3>2. PICK a \in Nat, c \in Nat : a = nleft /\ c = Len(un)
      BY <3>1
    <3>3. \E x \in {a, c} : \A y \in {a, c} : x <= y
      OBVIOUS
    <3>4. Min({a, c}) \in {a, c} /\ \A y \in {a, c} : Min({a, c}) <= y
      BY <3>3, Zenon DEF Min
    <3>5. PICK least \in Nat : least = Min({a, c}) /\ least <= a /\ least <= c
      BY <3>4
    <3>6. k \in 1..least
      BY <2>4, <2>5, <3>2, <3>5
    <3> QED
      BY <2>3, <3>2, <3>5, <3>6
  <2>7. PICK bytes : bytes = SubSeq(un, 1, k)
    OBVIOUS
  <2>8. bytes \in Seq(Nat) /\ Len(bytes) = k
    <3>1. \A j \in 1..k : un[j] \in Nat
      BY <2>6
    <3> QED
      BY <2>6, <2>7, <3>1, SubSeqProperties
  <2>9. PICK rest : rest = SubSeq(un, k + 1, Len(un))
    OBVIOUS
  <2>10. rest \in Seq(Nat)
    <3>1. \A j \in k+1..Len(un) : un[j] \in Nat
      BY <2>6
    <3>2. k + 1 \in Int /\ Len(un) \in Int
      BY <2>6
    <3> QED
      BY <2>9, <3>1, <3>2, SubSeqProperties
  <2>11. bytes \o rest = un
    <3>1. bytes \o rest = SubSeq(un, 1, Len(un))
      BY <2>6, <2>7, <2>9, ConcatAdjacentSubSeq
    <3> QED
      BY <3>1, SubSeqFull
  <2>12. received \in Seq(Nat) /\ received' = received \o bytes /\ unread' = rest
    BY <2>4, <2>5, <2>7, <2>9, Zenon DEF BytesInv
  <2>13. received' \o unread' = received \o unread
    <3>1. (received \o bytes) \o rest = received \o (bytes \o rest)
      <4>1. received \in Seq(Nat) /\ bytes \in Seq(Nat) /\ rest \in Seq(Nat)
        BY <2>8, <2>10, <2>12
      <4>2. Regroups(received, bytes, rest)
        BY <4>1, BytesRegroup
      <4> QED
        BY <4>2, Zenon DEF Regroups
    <3> QED
      BY <2>5, <2>11, <2>12, <3>1
  <2>14. received' \in Seq(Nat) /\ unread' \in Seq(Nat)
    BY <2>8, <2>10, <2>12, ConcatProperties
  <2>15. transfer' = [fn |-> fn, n |-> n, moved |-> moved \o bytes]
    BY <2>2, <2>4, <2>5, <2>7
  <2>16. moved \o bytes \in Seq(Nat) /\ Len(moved \o bytes) = Len(moved) + k
    BY <2>3, <2>8, ConcatProperties
  <2>17. transfer' \in CallType /\ CallOK(transfer')
    BY <2>3, <2>6, <2>15, <2>16 DEF CallType, CallOK
  <2>18. process = "up" /\ process' = "up" /\ returned' = returned /\ unread # <<>>
    BY <1>3, <2>1 DEF ReadBytes, BytesInv, NoCall
  <2>19. BytesWhole'
    BY <2>13, <2>18 DEF BytesInv, BytesWhole, Sent, Outgoing
  <2> QED
    BY <2>14, <2>17, <2>18, <2>19 DEF BytesInv, CallOK, CallType, Outgoing
<1>4. CASE ReadEOF
  <2>1. transfer # NoCall /\ transfer \in CallType /\ process = "up"
    BY <1>4 DEF ReadEOF, BytesInv, NoCall
  <2>2. ReturnedWell(transfer, Len(transfer.moved))
    BY <1>4 DEF ReadEOF, ReturnedWell
  <2> QED
    BY <1>4, <2>1, <2>2, ReturnIsWhole DEF ReadEOF
<1>5. CASE WriteBytes
  <2>1. transfer \in CallType /\ CallOK(transfer) /\ transfer.fn = "rio_writen" /\ nleft > 0
    BY <1>5 DEF WriteBytes, BytesInv, NoCall
  <2>2. PICK fn, n, moved : transfer = [fn |-> fn, n |-> n, moved |-> moved]
    BY <2>1 DEF CallType
  <2>3. fn = "rio_writen" /\ n \in Nat /\ moved \in Seq(Nat) /\ Len(moved) <= n /\ nleft = n - Len(moved)
    BY <2>1, <2>2 DEF CallType, CallOK, nleft
  <2>4. PICK k \in 1..nleft :
           transfer' = [transfer EXCEPT !.moved = SubSeq(Outgoing(transfer.n), 1, Len(@) + k)]
    BY <1>5 DEF WriteBytes
  <2>5. PICK m \in 0..n : m = Len(moved) + k
    BY <2>3, <2>4
  <2>6. PICK more \in Seq(Nat) : more = SubSeq(Outgoing(n), 1, m) /\ Len(more) = m
    <3>1. n \in Nat
      BY <2>3
    <3>2. \A p \in 0..n : SubSeq(Outgoing(n), 1, p) \in Seq(Nat) /\ Len(SubSeq(Outgoing(n), 1, p)) = p
      BY <3>1, FirstBytes
    <3>3. SubSeq(Outgoing(n), 1, m) \in Seq(Nat) /\ Len(SubSeq(Outgoing(n), 1, m)) = m
      BY <3>2
    <3> QED
      BY <3>3
  <2>7. transfer' = [fn |-> fn, n |-> n, moved |-> more]
    BY <2>2, <2>4, <2>5, <2>6
  <2>8. transfer' \in CallType /\ CallOK(transfer')
    BY <2>3, <2>5, <2>6, <2>7 DEF CallType, CallOK
  <2>9. process = "up" /\ UNCHANGED <<process, rioErrno, returned, unread, received>>
    BY <1>5, <2>1 DEF WriteBytes, BytesInv, NoCall
  <2>10. BytesWhole'
    BY <2>9 DEF BytesInv, BytesWhole, Sent, Outgoing, Forgiven
  <2> QED
    BY <2>8, <2>9, <2>10 DEF BytesInv, CallOK, CallType, Outgoing
<1>6. CASE Interrupted
  <2>1. process = "up" /\ process' = "up" /\ UNCHANGED <<transfer, returned, unread, received>>
    BY <1>6 DEF Interrupted, BytesInv
  <2>2. BytesWhole'
    BY <2>1 DEF BytesInv, BytesWhole, Sent, Outgoing
  <2> QED
    BY <2>1, <2>2 DEF BytesInv, CallOK, CallType, NoCall, Outgoing
<1>7. CASE Complete
  <2>1. transfer # NoCall /\ transfer \in CallType /\ CallOK(transfer) /\ process = "up" /\ nleft = 0
    BY <1>7 DEF Complete, BytesInv
  <2>2. PICK fn, n, moved : transfer = [fn |-> fn, n |-> n, moved |-> moved]
    BY <2>1 DEF CallType
  <2>3. fn \in {"rio_readn", "rio_writen"} /\ n \in Nat /\ moved \in Seq(Nat) /\ Len(moved) = n
    BY <2>1, <2>2 DEF CallType, nleft
  <2>4. fn = "rio_writen" => moved = Outgoing(n)
    BY <2>1, <2>2, <2>3, FirstBytes DEF CallOK
  <2>5. ReturnedWell(transfer, transfer.n)
    BY <2>2, <2>3, <2>4 DEF ReturnedWell
  <2> QED
    BY <1>7, <2>1, <2>5, ReturnIsWhole DEF Complete
<1>8. CASE Fails
  <2>1. PICK e \in {"ECONNRESET", "EPIPE", "EBAD"} :
           rioErrno' = e /\ process' = IF e = Forgiven(transfer.fn) THEN "up" ELSE "exited"
    BY <1>8 DEF Fails
  <2>2. transfer' = NoCall /\ returned'.fn = transfer.fn /\ returned'.rc = -1
        /\ UNCHANGED <<unread, received>>
    BY <1>8 DEF Fails, Return
  <2>3. process' \in {"up", "exited"} /\ (process' = "exited" => e # Forgiven(transfer.fn))
    BY <2>1
  <2>4. e # "EINTR"
    OBVIOUS
  <2>5. BytesWhole'
    BY <2>1, <2>2, <2>3, <2>4 DEF BytesInv, BytesWhole, Sent, Forgiven
  <2>6. received' \in Seq(Nat) /\ unread' \in Seq(Nat)
    BY <2>2 DEF BytesInv
  <2>7. NoCall' = NoCall
    BY DEF NoCall
  <2> QED
    BY <2>2, <2>3, <2>5, <2>6, <2>7, Zenon DEF BytesInv
<1> QED
  BY <1>1, <1>2, <1>3, <1>4, <1>5, <1>6, <1>7, <1>8 DEF UnbufferedNext

\* However a transfer is cut up, interrupted or ended by an error, for streams
\* and calls of every length: nothing is lost, doubled or reordered (BytesWhole).
THEOREM TransfersAreWhole ==
    ASSUME StreamLength \in Nat, MaxBytes \in Nat
    PROVE  UnbufferedSpec => []BytesWhole
<1>1. UnbufferedInit => BytesInv
  BY StartIsWhole
<1>2. BytesInv /\ [UnbufferedNext]_rioVars => BytesInv'
  BY StepIsWhole
<1>3. BytesInv => BytesWhole
  BY DEF BytesInv
<1> QED
  BY <1>1, <1>2, <1>3, PTL DEF UnbufferedSpec

-----------------------------------------------------------------------------
\* fcyc.c and clock.c.  What the timing package relies on: a run with an
\* interrupt in it takes less than the counter counts, and a gap with an
\* interrupt in it is longer than any without.
TimesFit ==
    /\ CounterBits \in Nat /\ 2^CounterBits \in Nat \ {0}
    /\ TickCost \in Nat /\ ReadCost \in Nat /\ THRESHOLD \in Nat /\ RECORDTHRESH \in Nat
    /\ RECORDTHRESH >= THRESHOLD + ReadCost /\ TickCost > RECORDTHRESH
    /\ Costs \subseteq Nat /\ \A cost \in Costs : cost + TickCost < 2^CounterBits * 2^CounterBits
    /\ \A p \in Parameters : p.compensate \in BOOLEAN
    /\ Second \in Nat \ {0} /\ MAX_ETIME \in Nat

\* The counter's halves, at two times, give the time between.
LEMMA HalvesGiveTime ==
    ASSUME NEW H \in Nat \ {0}, NEW hi \in 0..H-1, NEW lo \in 0..H-1,
           NEW nhi \in 0..H-1, NEW nlo \in 0..H-1, NEW cycles \in 0..H*H-1,
           \/ nhi * H + nlo = hi * H + lo + cycles
           \/ nhi * H + nlo = hi * H + lo + cycles - H * H,
           NEW l, l = (nlo - lo) % H, NEW c, c = IF l > nlo THEN 1 ELSE 0
    PROVE  ((nhi - hi - c) % H) * H + l = cycles
<1>1. l \in 0..H-1 /\ c \in 0..1 /\ l = nlo - lo + c * H
  <2>1. CASE nlo >= lo
    <3>1. l = nlo - lo
      BY <2>1
    <3>2. c = 0
      BY <3>1
    <3> QED
      BY <2>1, <3>1, <3>2
  <2>2. CASE nlo < lo
    <3>1. nlo - lo + H \in 0..H-1
      BY <2>2
    <3>2. (nlo - lo) % H = nlo - lo + H
      BY <2>2, <3>1
    <3>3. c = 1
      BY <3>2
    <3> QED
      BY <3>1, <3>2, <3>3
  <2> QED
    BY <2>1, <2>2
<1>2. PICK d \in Int : d = nhi - hi - c
  <2>1. PICK borrow \in 0..1 : borrow = c
    BY <1>1
  <2>2. nhi - hi - borrow \in Int
    BY <2>1
  <2> QED
    BY <2>1, <2>2, Zenon
<1>3. d >= -H /\ d < H
  BY <1>1, <1>2
<1>4. d * H + l = nhi * H + nlo - (hi * H + lo)
  <2>1. (nhi - hi - c) * H = nhi * H - hi * H - c * H
    BY <1>1
  <2> QED
    BY <1>1, <1>2, <2>1
<1>5. d * H + l = cycles \/ d * H + l = cycles - H * H
  BY <1>4
<1>6. CASE d >= 0
  <2>1. d * H >= 0
    BY <1>6
  <2>2. d * H + l = cycles
    BY <1>1, <1>5, <2>1
  <2>3. d % H = d
    BY <1>3, <1>6
  <2> QED
    BY <1>2, <2>2, <2>3
<1>7. CASE d < 0
  <2>1. d * H <= -H
    BY <1>7
  <2>2. d * H + l = cycles - H * H
    BY <1>1, <1>5, <2>1
  <2>3. d % H = d + H
    BY <1>3, <1>7
  <2>4. (d + H) * H = d * H + H * H
    BY <1>2
  <2> QED
    BY <1>1, <1>2, <2>2, <2>3, <2>4
<1> QED
  BY <1>2, <1>6, <1>7

\* What is read when the counter stood anywhere is what has passed.
LEMMA ElapsedIsTime ==
    ASSUME TimesFit, NEW from \in 0..Timing!Half * Timing!Half - 1,
           NEW cycles \in 0..Timing!Half * Timing!Half - 1
    PROVE  Timing!Elapsed(from, cycles) = cycles
<1>1. PICK H \in Nat \ {0} : H = Timing!Half
  BY DEF TimesFit, Timing!Half
<1>2. PICK now \in 0..H*H-1 : now = (from + cycles) % (H * H)
  <2>1. H * H \in Nat \ {0} /\ from + cycles \in Nat
    BY <1>1
  <2> QED
    BY <2>1
<1>3. now = from + cycles \/ now = from + cycles - H * H
  <2>1. PICK K \in Nat \ {0} : K = H * H
    BY <1>1
  <2>2. from \in 0..K-1 /\ cycles \in 0..K-1
    BY <1>1, <2>1
  <2>3. now = (from + cycles) % K
    BY <1>2, <2>1
  <2>4. CASE from + cycles < K
    BY <2>2, <2>3, <2>4
  <2>5. CASE from + cycles >= K
    <3>1. from + cycles - K \in 0..K-1
      BY <2>2, <2>5
    <3>2. (from + cycles) % K = from + cycles - K
      BY <2>2, <3>1
    <3> QED
      BY <2>1, <2>3, <3>2
  <2> QED
    BY <2>2, <2>4, <2>5
<1>4. ASSUME NEW x \in 0..H*H-1
      PROVE  x \div H \in 0..H-1 /\ x % H \in 0..H-1 /\ x = (x \div H) * H + (x % H)
  <2>1. x \in Nat /\ x < H * H
    BY <1>1
  <2>2. x = (x \div H) * H + (x % H)
    BY <2>1, DivMod
  <2>3. x % H \in 0..H-1 /\ x \div H \in Nat
    BY <2>1
  <2>4. PICK q \in Nat : q = x \div H
    BY <2>3
  <2>5. q * H < H * H
    BY <2>1, <2>2, <2>3, <2>4
  <2>6. q < H
    BY <2>5
  <2> QED
    BY <2>2, <2>3, <2>4, <2>6
<1>5. PICK hi \in 0..H-1, lo \in 0..H-1 :
        hi = from \div H /\ lo = from % H /\ from = hi * H + lo
  <2>1. from \in 0..H*H-1
    BY <1>1
  <2>2. from \div H \in 0..H-1 /\ from % H \in 0..H-1 /\ from = (from \div H) * H + (from % H)
    BY <1>4, <2>1
  <2> QED
    BY <2>2, Zenon
<1>6. PICK nhi \in 0..H-1, nlo \in 0..H-1 :
        nhi = now \div H /\ nlo = now % H /\ now = nhi * H + nlo
  BY <1>4
<1>7. PICK l : l = (nlo - lo) % H
  OBVIOUS
<1>8. PICK c : c = IF l > nlo THEN 1 ELSE 0
  OBVIOUS
<1>9. Timing!Elapsed(from, cycles) = ((nhi - hi - c) % H) * H + l
  BY <1>1, <1>2, <1>5, <1>6, <1>7, <1>8
  DEF Timing!Elapsed, Timing!get_counter, Timing!start_counter
<1>10. \/ nhi * H + nlo = hi * H + lo + cycles
       \/ nhi * H + nlo = hi * H + lo + cycles - H * H
  BY <1>3, <1>5, <1>6
<1> QED
  BY <1>1, <1>7, <1>8, <1>9, <1>10, HalvesGiveTime

\* The two functions of ftimer.c, with times in seconds and their parts.
LEMMA ClocksGiveTime ==
    ASSUME NEW S \in Nat \ {0}, NEW M \in Nat, NEW stv \in Nat, NEW total \in Nat
    PROVE  /\ S * (((stv + total) \div S) - (stv \div S)) + (((stv + total) % S) - (stv % S)) = total
           /\ stv <= M * S => S * (M - ((M * S - stv) \div S)) + (0 - ((M * S - stv) % S)) = stv
<1>1. ASSUME NEW x \in Nat
      PROVE  x \div S \in Nat /\ x % S \in Nat /\ S * (x \div S) + (x % S) = x
  <2>1. x = (x \div S) * S + (x % S)
    BY DivMod
  <2>2. x \div S \in Nat /\ x % S \in Nat
    OBVIOUS
  <2> QED
    BY <2>1, <2>2
<1>2. stv + total \in Nat
  OBVIOUS
<1>3. PICK q \in Nat, r \in Nat : q = stv \div S /\ r = stv % S /\ S * q + r = stv
  BY <1>1
<1>4. PICK q2 \in Nat, r2 \in Nat :
         q2 = (stv + total) \div S /\ r2 = (stv + total) % S /\ S * q2 + r2 = stv + total
  BY <1>1, <1>2
<1>5. S * (q2 - q) + (r2 - r) = total
  <2>1. S * (q2 - q) = S * q2 - S * q
    OBVIOUS
  <2> QED
    BY <1>3, <1>4, <2>1
<1>6. ASSUME stv <= M * S
      PROVE  S * (M - ((M * S - stv) \div S)) + (0 - ((M * S - stv) % S)) = stv
  <2>1. PICK left \in Nat : left = M * S - stv
    BY <1>6
  <2>2. PICK q3 \in Nat, r3 \in Nat : q3 = left \div S /\ r3 = left % S /\ S * q3 + r3 = left
    BY <1>1
  <2>3. S * (M - q3) = S * M - S * q3
    OBVIOUS
  <2>4. S * (M - q3) + (0 - r3) = stv
    BY <2>1, <2>2, <2>3
  <2> QED
    BY <2>1, <2>2, <2>4
<1> QED
  BY <1>3, <1>4, <1>5, <1>6

-----------------------------------------------------------------------------
\* The gap that callibrate has open.  An interrupt whose cycles are not in it
\* leaves no room for another, and a gap that counts one that way is short.
GapInv ==
    /\ gap \in [e : Nat, length : Nat, ticks : 0..1, free : BOOLEAN, due : {0, TickCost}]
    /\ gap.length <= THRESHOLD
    /\ gap.due = TickCost => gap.ticks = 0 /\ ~gap.free
    /\ gap.ticks = 1 => ~gap.free

SampleType == [cost : Int, ticks : Int, beside : Int, cyc : Int, per_tick : Int]
AllExact(samples) == \A i \in DOMAIN samples : Timing!SampleExact(samples[i])

TimesInv ==
    /\ params \in Parameters
    /\ cyc_per_tick \in {0} \cup (TickCost .. TickCost + Timing!Slack)
    /\ phase = "callibrate" => GapInv
    /\ taken \in Seq(SampleType) /\ AllExact(taken)
    /\ Timing!BufferFits

\* A gap that callibrate closes: an interrupt that counts has its cycles in it.
LEMMA GapIsTick ==
    ASSUME TimesFit, TimesInv, phase = "callibrate", Timing!Callibrate
    PROVE  /\ cyc_per_tick' \in {0} \cup (TickCost .. TickCost + Timing!Slack)
           /\ GapInv'
<1> DEFINE Gaps(tick, late, length, ticks) ==
      /\ tick + late <= (IF gap.free THEN 1 ELSE 0)
      /\ length = gap.length + gap.due + ReadCost + tick * TickCost
      /\ ticks = gap.ticks + tick + late
      /\ IF length < THRESHOLD
         THEN /\ late = 0
              /\ gap' = [gap EXCEPT !.length = length, !.ticks = ticks, !.due = 0]
              /\ UNCHANGED cyc_per_tick
         ELSE /\ gap' = [e |-> IF ticks > 0 THEN gap.e + 1 ELSE gap.e,
                         length |-> 0, ticks |-> 0,
                         free |-> late = 0, due |-> late * TickCost]
              /\ cyc_per_tick' = IF ticks > 0 THEN Timing!Recorded(length \div ticks)
                                 ELSE cyc_per_tick
<1>1. PICK tick \in 0..1, late \in 0..1 : \E length, ticks : Gaps(tick, late, length, ticks)
  BY DEF Timing!Callibrate
<1>2. PICK length, ticks : Gaps(tick, late, length, ticks)
  BY <1>1
<1>3. PICK e \in Nat, len \in Nat, tk \in 0..1, fr \in BOOLEAN, du \in {0, TickCost} :
        gap = [e |-> e, length |-> len, ticks |-> tk, free |-> fr, due |-> du]
  BY DEF TimesInv, GapInv
<1>4. /\ len <= THRESHOLD
      /\ du = TickCost => tk = 0 /\ ~fr
      /\ tk = 1 => ~fr
      /\ length = len + du + ReadCost + tick * TickCost
      /\ ticks = tk + tick + late
      /\ tick + late <= 1 /\ (~fr => tick = 0 /\ late = 0)
  BY <1>2, <1>3 DEF TimesInv, GapInv
<1>5. /\ TickCost \in Nat /\ ReadCost \in Nat /\ THRESHOLD \in Nat /\ RECORDTHRESH \in Nat
      /\ RECORDTHRESH >= THRESHOLD + ReadCost /\ TickCost > RECORDTHRESH
      /\ Timing!Slack = THRESHOLD + ReadCost
  BY DEF TimesFit, Timing!Slack
<1>6. length \in Nat /\ ticks \in 0..1
  BY <1>4, <1>5
<1>7. tick = 1 => du = 0 /\ length >= TickCost /\ length <= TickCost + THRESHOLD + ReadCost
  BY <1>4, <1>5
<1>8. tick = 0 /\ du = 0 => length <= RECORDTHRESH
  BY <1>4, <1>5
<1>9. CASE length < THRESHOLD
  <2>1. tick = 0 /\ du = 0 /\ late = 0
    BY <1>2, <1>4, <1>5, <1>7, <1>9
  <2>2. gap' = [e |-> e, length |-> length, ticks |-> ticks, free |-> fr, due |-> 0]
    BY <1>2, <1>3, <1>9
  <2>3. ticks = tk
    BY <1>4, <2>1
  <2>4. cyc_per_tick' = cyc_per_tick
    BY <1>2, <1>9
  <2>5. TickCost # 0
    BY <1>5
  <2>6. gap'.length = length /\ gap'.ticks = ticks /\ gap'.free = fr /\ gap'.due = 0
    BY <2>2
  <2>7. gap' \in [e : Nat, length : Nat, ticks : 0..1, free : BOOLEAN, due : {0, TickCost}]
    BY <1>6, <2>2
  <2>8. length <= THRESHOLD
    BY <1>5, <1>6, <1>9
  <2>9. GapInv'
    BY <1>4, <2>3, <2>5, <2>6, <2>7, <2>8 DEF GapInv
  <2> QED
    BY <2>4, <2>9 DEF TimesInv
<1>10. CASE ~(length < THRESHOLD)
  <2>1. PICK e2 \in Nat : e2 = IF ticks > 0 THEN gap.e + 1 ELSE gap.e
    BY <1>3
  <2>2. gap' = [e |-> e2, length |-> 0, ticks |-> 0, free |-> late = 0, due |-> late * TickCost]
    BY <1>2, <1>10, <2>1
  <2>3. late * TickCost \in {0, TickCost} /\ (late * TickCost = TickCost => late = 1)
    BY <1>4, <1>5
  <2>4. PICK free2 \in BOOLEAN, due2 \in {0, TickCost} : free2 = (late = 0) /\ due2 = late * TickCost
    BY <2>3
  <2>5. gap' = [e |-> e2, length |-> 0, ticks |-> 0, free |-> free2, due |-> due2]
    BY <2>2, <2>4
  <2>6. gap' \in [e : Nat, length : Nat, ticks : 0..1, free : BOOLEAN, due : {0, TickCost}]
    BY <2>5
  <2>7. gap'.length = 0 /\ gap'.ticks = 0 /\ gap'.free = free2 /\ gap'.due = due2
    BY <2>5
  <2>8. GapInv'
    BY <1>5, <2>3, <2>4, <2>6, <2>7 DEF GapInv
  <2>9. CASE ticks = 0
    BY <1>2, <1>10, <2>8, <2>9 DEF TimesInv
  <2>10. CASE ticks = 1
    <3>1. cyc_per_tick' = Timing!Recorded(length)
      <4>1. length \div 1 = length
        BY <1>6
      <4> QED
        BY <1>2, <1>10, <2>10, <4>1
    <3>2. cyc_per_tick' = cyc_per_tick \/ (cyc_per_tick' = length /\ length > RECORDTHRESH)
      BY <3>1 DEF Timing!Recorded
    <3>3. length > RECORDTHRESH => length \in TickCost .. TickCost + Timing!Slack
      <4>1. ASSUME length > RECORDTHRESH PROVE tick = 1
        <5>1. du = 0
          BY <1>4, <1>5, <2>10
        <5> QED
          BY <1>4, <1>5, <1>6, <1>8, <4>1, <5>1
      <4> QED
        BY <1>5, <1>6, <1>7, <4>1
    <3> QED
      BY <2>8, <3>2, <3>3 DEF TimesInv
  <2> QED
    BY <1>6, <2>9, <2>10
<1> QED
  BY <1>9, <1>10

\* One more exact sample.
LEMMA MoreExact ==
    ASSUME TimesInv, NEW x \in SampleType, Timing!SampleExact(x), NEW more, more = Append(taken, x)
    PROVE  more \in Seq(SampleType) /\ AllExact(more)
<1>1. PICK old \in Seq(SampleType) : old = taken /\ AllExact(old)
  BY DEF TimesInv
<1>2. more = Append(old, x)
  BY <1>1
<1>3. more \in Seq(SampleType) /\ DOMAIN more = 1..Len(old)+1
      /\ more[Len(old)+1] = x /\ \A i \in DOMAIN old : i \in 1..Len(old) /\ more[i] = old[i]
  BY <1>2
<1>4. \A i \in DOMAIN more : i \in DOMAIN old \/ i = Len(old) + 1
  BY <1>3
<1>5. \A i \in DOMAIN more : Timing!SampleExact(more[i])
  BY <1>1, <1>3, <1>4 DEF AllExact
<1> QED
  BY <1>3, <1>5 DEF AllExact

\* The only sample of ftimer.c.
LEMMA OneExact ==
    ASSUME NEW total \in Int, NEW list,
           list = <<[cost |-> total, ticks |-> 0, beside |-> 0, cyc |-> total, per_tick |-> 0]>>,
           TickCost \in Nat
    PROVE  list \in Seq(SampleType) /\ AllExact(list)
<1>1. PICK x : x = [cost |-> total, ticks |-> 0, beside |-> 0, cyc |-> total, per_tick |-> 0]
  OBVIOUS
<1>2. x \in SampleType /\ x.per_tick = 0 /\ x.cyc = x.cost + x.ticks * TickCost
  BY <1>1 DEF SampleType
<1>3. Timing!SampleExact(x)
  BY <1>2 DEF Timing!SampleExact
<1>4. list = <<x>>
  BY <1>1
<1>5. list \in Seq(SampleType) /\ DOMAIN list = {1} /\ list[1] = x
  BY <1>2, <1>4
<1> QED
  BY <1>3, <1>5 DEF AllExact

\* Before the first run.
LEMMA NoneExact ==
    <<>> \in Seq(SampleType) /\ AllExact(<<>>)
BY DEF AllExact

\* A run between two readings of the counter.
LEMMA SampleIsExact ==
    ASSUME TimesFit, TimesInv, Timing!Sample
    PROVE  taken' \in Seq(SampleType) /\ AllExact(taken')
<1> DEFINE Cyc(from, cost, tick, beside) ==
             IF params.compensate
             THEN Timing!Elapsed(from, cost + tick * TickCost) - (tick + beside) * cyc_per_tick
             ELSE Timing!Elapsed(from, cost + tick * TickCost)
           Run(from, cost, tick, beside) ==
             /\ tick + beside <= 1
             /\ taken' = Append(taken, [cost |-> cost, ticks |-> tick, beside |-> beside,
                                        cyc |-> Cyc(from, cost, tick, beside),
                                        per_tick |-> IF params.compensate THEN cyc_per_tick ELSE 0])
<1>1. \E from \in 0..Timing!Half * Timing!Half - 1, cost \in Costs, tick \in 0..1, beside \in 0..1 :
         Run(from, cost, tick, beside)
  BY DEF Timing!Sample
<1>2. PICK from \in 0..Timing!Half * Timing!Half - 1, cost \in Costs :
         \E tick \in 0..1, beside \in 0..1 : Run(from, cost, tick, beside)
  BY <1>1
<1>3. PICK tick \in 0..1, beside \in 0..1 : Run(from, cost, tick, beside)
  BY <1>2
<1>4. PICK cpt \in Nat : cpt = cyc_per_tick
                         /\ (cpt = 0 \/ (cpt >= TickCost /\ cpt <= TickCost + Timing!Slack))
  BY DEF TimesInv, TimesFit, Timing!Slack
<1>5. PICK H \in Nat \ {0} : H = Timing!Half /\ H = 2^CounterBits
  BY DEF TimesFit, Timing!Half
<1>6. PICK total \in Nat : total = cost + tick * TickCost /\ total \in 0..H*H-1
  <2>1. cost \in Nat /\ TickCost \in Nat /\ cost + TickCost < H * H
    BY <1>5 DEF TimesFit
  <2>2. tick * TickCost \in Nat /\ tick * TickCost <= TickCost
    BY <2>1
  <2>3. H * H \in Nat
    OBVIOUS
  <2>4. cost + tick * TickCost \in 0..H*H-1
    BY <2>1, <2>2, <2>3
  <2> QED
    BY <2>1, <2>2, <2>4
<1>7. Timing!Elapsed(from, total) = total
  BY <1>5, <1>6, ElapsedIsTime
<1>8. PICK n \in 0..1 : n = tick + beside
  BY <1>3
<1>9. PICK per \in Nat : per = (IF params.compensate THEN cyc_per_tick ELSE 0) /\ per \in {0, cpt}
                         /\ (~params.compensate => per = 0) /\ (params.compensate => per = cpt)
  BY <1>4
<1>10. PICK cyc \in Int : cyc = Cyc(from, cost, tick, beside) /\ cyc = total - n * per
  <2>1. CASE params.compensate
    <3>1. Cyc(from, cost, tick, beside) = total - n * cpt
      BY <1>4, <1>6, <1>7, <1>8, <2>1
    <3> QED
      BY <1>9, <2>1, <3>1
  <2>2. CASE ~params.compensate
    <3>1. Cyc(from, cost, tick, beside) = total
      BY <1>6, <1>7, <2>2
    <3>2. total - n * per = total
      BY <1>9, <2>2
    <3> QED
      BY <3>1, <3>2
  <2> QED
    BY <2>1, <2>2
<1>11. PICK x : x = [cost |-> cost, ticks |-> tick, beside |-> beside, cyc |-> cyc, per_tick |-> per]
  OBVIOUS
<1>12. x \in SampleType
  BY <1>9, <1>10, <1>11 DEF SampleType, TimesFit
<1>13. taken' = Append(taken, x)
  BY <1>3, <1>9, <1>10, <1>11
<1>14. x.cost = cost /\ x.ticks = tick /\ x.beside = beside /\ x.cyc = cyc /\ x.per_tick = per
  BY <1>11
<1>15. CASE per = 0
  <2>1. cyc = total
    BY <1>10, <1>15
  <2> QED
    BY <1>6, <1>12, <1>13, <1>14, <1>15, <2>1, MoreExact DEF Timing!SampleExact
<1>16. CASE per # 0
  <2>1. per >= TickCost /\ per <= TickCost + Timing!Slack /\ TickCost \in Nat /\ Timing!Slack \in Nat
    BY <1>4, <1>9, <1>16 DEF TimesFit, Timing!Slack
  <2>2. n * per >= n * TickCost /\ n * per <= n * (TickCost + Timing!Slack)
    BY <2>1
  <2>3. n * TickCost \in Nat /\ n * (TickCost + Timing!Slack) \in Nat /\ n * per \in Nat
    BY <2>1
  <2>4. PICK low \in Int, high \in Int :
          low = total - n * (TickCost + Timing!Slack) /\ high = total - n * TickCost
    BY <2>3
  <2>5. cyc \in low..high
    BY <1>10, <2>2, <2>3, <2>4
  <2>6. Timing!SampleExact(x)
    BY <1>6, <1>8, <1>14, <1>16, <2>4, <2>5 DEF Timing!SampleExact
  <2> QED
    BY <1>12, <1>13, <2>6, MoreExact
<1> QED
  BY <1>15, <1>16

\* No step of the package spoils what was measured.
LEMMA StepIsExact ==
    ASSUME TimesFit, TimesInv, [Timing!TimersNext]_(Timing!timerVars)
    PROVE  TimesInv'
<1> USE DEF GapInv, Timing!BufferFits, AllExact
<1>1. CASE UNCHANGED Timing!timerVars
  BY <1>1 DEF Timing!timerVars, TimesInv
<1>2. CASE Timing!SetParameters
  BY <1>2 DEF Timing!SetParameters, TimesInv
<1>3. ASSUME NEW bytes \in CacheSizes, Timing!set_fcyc_cache_size(bytes) PROVE TimesInv'
  BY <1>3 DEF Timing!set_fcyc_cache_size, TimesInv
<1>4. CASE Timing!fcyc
  BY <1>4, NoneExact DEF Timing!fcyc, Timing!init_sampler, TimesInv
<1>5. CASE Timing!StartCallibrate
  <2>1. PICK early \in 0..1 :
          gap' = [e |-> 0, length |-> 0, ticks |-> early, free |-> (early = 0), due |-> 0]
    BY <1>5 DEF Timing!StartCallibrate, Timing!NoGap
  <2>2. TickCost # 0 /\ THRESHOLD \in Nat
    BY DEF TimesFit
  <2>3. PICK free \in BOOLEAN : free = (early = 0)
    OBVIOUS
  <2>4. gap' = [e |-> 0, length |-> 0, ticks |-> early, free |-> free, due |-> 0]
    BY <2>1, <2>3
  <2>5. gap' \in [e : Nat, length : Nat, ticks : 0..1, free : BOOLEAN, due : {0, TickCost}]
    BY <2>4
  <2>6. gap'.length = 0 /\ gap'.ticks = early /\ gap'.free = free /\ gap'.due = 0
    BY <2>4
  <2>7. GapInv'
    BY <2>2, <2>3, <2>5, <2>6
  <2> QED
    BY <1>5, <2>7 DEF Timing!StartCallibrate, TimesInv
<1>6. CASE Timing!Callibrate
  <2>1. phase = "callibrate"
    BY <1>6 DEF Timing!Callibrate
  <2>2. cyc_per_tick' \in {0} \cup (TickCost .. TickCost + Timing!Slack) /\ GapInv'
    BY <1>6, <2>1, GapIsTick
  <2> QED
    BY <1>6, <2>2 DEF Timing!Callibrate, TimesInv
<1>7. CASE Timing!Sample
  <2>1. taken' \in Seq(SampleType) /\ AllExact(taken')
    BY <1>7, SampleIsExact
  <2>2. /\ phase' \in {"sampling", "done"} /\ params' = params /\ cyc_per_tick' = cyc_per_tick
        /\ cache_bytes' = cache_bytes /\ cache_buf' \in {cache_buf, cache_bytes}
    BY <1>7 DEF Timing!Sample, Timing!clear
  <2> QED
    BY <2>1, <2>2 DEF TimesInv
<1>8. ASSUME NEW total \in Nat, NEW diff, diff = total, Timing!Measured(total, diff) PROVE TimesInv'
  <2>1. taken' = <<[cost |-> total, ticks |-> 0, beside |-> 0, cyc |-> total, per_tick |-> 0]>>
    BY <1>8 DEF Timing!Measured
  <2>2. taken' \in Seq(SampleType) /\ AllExact(taken')
    BY <2>1, OneExact DEF TimesFit
  <2> QED
    BY <1>8, <2>2 DEF Timing!Measured, TimesInv
<1>9. CASE Timing!ftimer_gettod
  <2>1. Second \in Nat \ {0} /\ MAX_ETIME * Second \in Nat
    BY DEF TimesFit
  <2>2. PICK stv \in 0..Second-1, total \in 0..MAX_ETIME * Second :
           Timing!Measured(total,
              Second * (((stv + total) \div Second) - (stv \div Second))
                + (((stv + total) % Second) - (stv % Second)))
    BY <1>9 DEF Timing!ftimer_gettod, Timing!timeval
  <2>3. stv \in Nat /\ total \in Nat
    BY <2>1
  <2>4. Timing!Measured(total, total)
    BY <2>1, <2>2, <2>3, ClocksGiveTime
  <2> QED
    BY <1>8, <2>3, <2>4
<1>10. CASE Timing!ftimer_itimer
  <2>1. Second \in Nat \ {0} /\ MAX_ETIME \in Nat /\ MAX_ETIME * Second \in Nat
    BY DEF TimesFit
  <2>2. PICK start \in 0..1, total \in 0..MAX_ETIME * Second :
           IF start + total < MAX_ETIME * Second
           THEN Timing!Measured(total, Timing!get_etime(start + total) - Timing!get_etime(start))
           ELSE /\ phase' = "killed"
                /\ UNCHANGED <<timer, runs, params, cache_bytes, cache_buf, cyc_per_tick, gap,
                               values, taken>>
    BY <1>10 DEF Timing!ftimer_itimer
  <2>3. CASE start + total < MAX_ETIME * Second
    <3>1. start \in Nat /\ total \in Nat /\ start + total \in Nat
          /\ start <= MAX_ETIME * Second /\ start + total <= MAX_ETIME * Second
      BY <2>1, <2>3
    <3>2. ASSUME NEW t \in Nat, t <= MAX_ETIME * Second PROVE Timing!get_etime(t) = t
      BY <2>1, <3>2, ClocksGiveTime DEF Timing!get_etime, Timing!timeval
    <3>3. Timing!get_etime(start + total) - Timing!get_etime(start) = total
      BY <3>1, <3>2
    <3> QED
      BY <1>8, <2>2, <2>3, <3>1, <3>3
  <2>4. CASE ~(start + total < MAX_ETIME * Second)
    BY <2>2, <2>4 DEF TimesInv
  <2> QED
    BY <2>3, <2>4
<1>11. CASE Timing!Return
  BY <1>11, NoneExact DEF Timing!Return, TimesInv
<1> QED
  BY <1>1, <1>2, <1>3, <1>4, <1>5, <1>6, <1>7, <1>9, <1>10, <1>11, Zenon DEF Timing!TimersNext

\* For a counter of every width and interrupts of every cost: what is measured is
\* what the run took, or too little by what the interrupts took, give or take the
\* readings of the counter (TimesRight, without the choice of the best runs).
THEOREM TimesAreRight ==
    ASSUME TimesFit
    PROVE  Timing!TimersSpec => [](AllExact(taken) /\ Timing!BufferFits)
<1>1. Timing!TimersInit => TimesInv
  BY NoneExact DEF Timing!TimersInit, TimesInv, Timing!BufferFits
<1>2. TimesInv /\ [Timing!TimersNext]_(Timing!timerVars) => TimesInv'
  BY StepIsExact
<1>3. TimesInv => AllExact(taken) /\ Timing!BufferFits
  BY DEF TimesInv
<1> QED
  BY <1>1, <1>2, <1>3, PTL DEF Timing!TimersSpec

-----------------------------------------------------------------------------
\* open_clientfd and open_listenfd.  While addresses are tried, no descriptor is
\* open that was not before; when one is found, it is the only one.
SearchType == [at : {"try", "clean"}, fn : {"open_clientfd", "open_listenfd"},
               wrapped : BOOLEAN, left : Int, fd : Int]

SocketInv ==
    /\ fds \subseteq Fds
    /\ helper = Calls!Idle \/ helper \in SearchType
    /\ helper = Calls!Idle => fds = kept
    /\ helper \in SearchType /\ helper.fd < 0 => fds = kept
    /\ helper \in SearchType /\ helper.fd >= 0 =>
           helper.at = "clean" /\ helper.fd \notin kept /\ fds = kept \cup {helper.fd}

\* What is idle is no search.
LEMMA IdleIsNone ==
    Calls!Idle \notin SearchType
<1>1. Calls!Idle.at = "none"
  BY DEF Calls!Idle
<1>2. \A h \in SearchType : h.at \in {"try", "clean"}
  BY DEF SearchType
<1> QED
  BY <1>1, <1>2

\* The search ends, with a descriptor or without.
LEMMA SearchEnds ==
    ASSUME SocketInv, NEW rc \in Int, Calls!Return(rc), fds' \subseteq Fds,
           rc >= 0 => fds' = kept \cup {rc}, rc < 0 => fds' = kept
    PROVE  SocketInv'
<1>1. helper' = Calls!Idle /\ kept' = IF rc >= 0 THEN kept \cup {rc} ELSE kept
  BY DEF Calls!Return
<1>2. fds' = kept'
  BY <1>1
<1>3. Calls!Idle \notin SearchType
  BY IdleIsNone
<1> QED
  BY <1>1, <1>2, <1>3 DEF SocketInv, Calls!Idle

\* One address: nothing stays open that did not take the connection.
LEMMA AddressTried ==
    ASSUME Fds \subseteq Nat, SocketInv, Calls!TryAddress
    PROVE  SocketInv'
<1>1. helper.at = "try"
  BY DEF Calls!TryAddress, Calls!In
<1>2. helper \in SearchType /\ helper.fd < 0 /\ fds = kept
  BY <1>1 DEF SocketInv, Calls!Idle, SearchType
<1>3. PICK h \in SearchType : h = helper
  BY <1>2
<1>4. ASSUME Calls!NextAddress, UNCHANGED fds PROVE SocketInv'
  <2>1. PICK at2 : at2 = IF h.at = "try" /\ h.left = 1 THEN "clean" ELSE h.at
    OBVIOUS
  <2>2. helper' = [h EXCEPT !.left = @ - 1, !.at = at2]
    BY <1>3, <1>4, <2>1 DEF Calls!NextAddress
  <2>3. at2 \in {"try", "clean"}
    BY <2>1 DEF SearchType
  <2>4. helper' = [at |-> at2, fn |-> h.fn, wrapped |-> h.wrapped, left |-> h.left - 1, fd |-> h.fd]
    BY <2>2 DEF SearchType
  <2>5. helper' \in SearchType /\ helper'.fd = h.fd
    BY <2>3, <2>4 DEF SearchType
  <2>6. kept' = kept
    BY <1>4 DEF Calls!NextAddress
  <2>7. helper'.fd < 0 /\ ~(helper'.fd >= 0)
    BY <1>2, <1>3, <2>5 DEF SearchType
  <2>8. helper' # Calls!Idle
    <3>1. helper'.at \in {"try", "clean"} /\ Calls!Idle.at = "none"
      BY <2>5 DEF SearchType, Calls!Idle
    <3> QED
      BY <3>1
  <2> QED
    BY <1>2, <1>4, <2>5, <2>6, <2>7, <2>8 DEF SocketInv, Calls!Idle
<1>5. CASE Calls!NoSocket
  BY <1>4, <1>5 DEF Calls!NoSocket
<1>6. CASE Fds # fds /\ Calls!Accepted
  <2>1. PICK free : free = Fds \ fds
    OBVIOUS
  <2>2. free \in SUBSET Nat /\ free # {}
    BY <1>6, <2>1 DEF SocketInv
  <2>3. \E k \in free : \A j \in free : k <= j
    BY <2>2, LeastElement
  <2>4. Calls!Min(free) \in free
    BY <2>3, Zenon DEF Calls!Min
  <2>5. PICK new \in Fds \ fds : new = Calls!NewFd /\ new \in Nat
    BY <2>1, <2>2, <2>4 DEF Calls!NewFd
  <2>6. helper' = [h EXCEPT !.at = "clean", !.fd = new] /\ fds' = fds \cup {new} /\ kept' = kept
    BY <1>3, <1>6, <2>5 DEF Calls!Accepted
  <2>7. helper' = [at |-> "clean", fn |-> h.fn, wrapped |-> h.wrapped, left |-> h.left, fd |-> new]
    BY <2>6 DEF SearchType
  <2>8. helper' \in SearchType /\ helper'.fd = new /\ helper'.at = "clean"
    BY <2>5, <2>7 DEF SearchType
  <2>9. helper' # Calls!Idle
    BY <2>8 DEF Calls!Idle
  <2>10. fds' \subseteq Fds /\ new \notin kept' /\ fds' = kept' \cup {new} /\ new >= 0
    BY <1>2, <2>5, <2>6 DEF SocketInv
  <2> QED
    BY <2>5, <2>8, <2>9, <2>10 DEF SocketInv, Calls!Idle
<1>7. CASE Calls!Refused
  <2>1. CASE Calls!NextAddress
    BY <1>4, <1>7, <2>1 DEF Calls!Refused
  <2>2. CASE Calls!Return(-1)
    BY <1>2, <1>7, <2>2, SearchEnds DEF Calls!Refused, SocketInv
  <2> QED
    BY <1>7, <2>1, <2>2 DEF Calls!Refused
<1> QED
  BY <1>5, <1>6, <1>7 DEF Calls!TryAddress

\* No step leaves a descriptor open that nobody has.
LEMMA SearchStep ==
    ASSUME Fds \subseteq Nat, SocketInv, [Calls!Next]_(Calls!wrapperVars)
    PROVE  SocketInv'
<1>1. ASSUME UNCHANGED <<helper, fds, kept>> PROVE SocketInv'
  BY <1>1 DEF SocketInv, Calls!Idle
<1>2. CASE UNCHANGED Calls!wrapperVars
  BY <1>1, <1>2 DEF Calls!wrapperVars, Calls!socketVars
<1>3. ASSUME NEW wr, Calls!Call(wr) PROVE SocketInv'
  BY <1>1, <1>3 DEF Calls!Call, Calls!socketVars
<1>4. ASSUME NEW v, Calls!Sio_putl(v) PROVE SocketInv'
  BY <1>1, <1>4 DEF Calls!Sio_putl, Calls!socketVars
<1>5. CASE Calls!Sio_error
  BY <1>1, <1>5 DEF Calls!Sio_error, Calls!socketVars
<1>6. ASSUME NEW fd \in fds, Calls!Close(fd) PROVE SocketInv'
  <2>1. helper = Calls!Idle /\ helper' = helper /\ fds' = fds \ {fd} /\ kept' = kept \ {fd}
    BY <1>6 DEF Calls!Close, Calls!Ready
  <2>2. Calls!Idle \notin SearchType
    BY IdleIsNone
  <2> QED
    BY <2>1, <2>2 DEF SocketInv, Calls!Idle
<1>7. ASSUME NEW fn \in {"open_clientfd", "open_listenfd"}, Calls!OpenSocket(fn) PROVE SocketInv'
  <2>1. CASE helper' = helper
    BY <1>1, <1>7, <2>1 DEF Calls!OpenSocket
  <2>2. CASE helper' # helper
    <3>1. PICK wrapped \in BOOLEAN, n \in 1..MaxAddresses :
            helper' = [at |-> "try", fn |-> fn, wrapped |-> wrapped, left |-> n, fd |-> -1]
      BY <1>7, <2>2 DEF Calls!OpenSocket
    <3>2. fn \in {"open_clientfd", "open_listenfd"} /\ n \in Int /\ -1 \in Int
      OBVIOUS
    <3>3. PICK x : x = [at |-> "try", fn |-> fn, wrapped |-> wrapped, left |-> n, fd |-> -1]
      OBVIOUS
    <3>4. x \in SearchType
      BY <3>2, <3>3 DEF SearchType
    <3>5. x.fd = -1 /\ x.at = "try"
      BY <3>3
    <3>6. helper' \in SearchType /\ helper'.fd = -1 /\ helper'.at = "try"
      BY <3>1, <3>3, <3>4, <3>5
    <3>7. helper = Calls!Idle /\ UNCHANGED <<fds, kept>>
      BY <1>7 DEF Calls!OpenSocket, Calls!Ready
    <3>8. helper' # Calls!Idle
      BY <3>6 DEF Calls!Idle
    <3> QED
      BY <3>6, <3>7, <3>8 DEF SocketInv, Calls!Idle
  <2> QED
    BY <2>1, <2>2
<1>8. CASE Calls!TryAddress
  BY <1>8, AddressTried
<1>9. CASE Calls!CleanUp
  <2>1. helper \in SearchType
    BY <1>9 DEF Calls!CleanUp, Calls!In, SocketInv, Calls!Idle
  <2>2. PICK fd \in Int : fd = helper.fd
    BY <2>1 DEF SearchType
  <2>3. CASE fd < 0
    <3>1. Calls!Return(-1) /\ fds' = fds /\ fds = kept
      BY <1>9, <2>1, <2>2, <2>3 DEF Calls!CleanUp, SocketInv
    <3> QED
      BY <3>1, SearchEnds DEF SocketInv
  <2>4. CASE ~(fd < 0)
    <3>1. fd \notin kept /\ fds = kept \cup {fd} /\ fd >= 0
      BY <2>1, <2>2, <2>4 DEF SocketInv
    <3>2. CASE Calls!Return(helper.fd) /\ UNCHANGED fds
      BY <2>2, <3>1, <3>2, SearchEnds DEF SocketInv
    <3>3. CASE fds' = fds \ {helper.fd} /\ Calls!Return(-1)
      <4>1. fds' = kept /\ fds' \subseteq Fds
        BY <2>2, <3>1, <3>3 DEF SocketInv
      <4> QED
        BY <3>3, <4>1, SearchEnds
    <3> QED
      BY <1>9, <2>2, <2>4, <3>2, <3>3 DEF Calls!CleanUp
  <2> QED
    BY <2>3, <2>4
<1> QED
  BY <1>2, <1>3, <1>4, <1>5, <1>6, <1>7, <1>8, <1>9 DEF Calls!Next

\* However many addresses are tried, and whatever fails on the way, a process has
\* the descriptors open that the helpers returned (part of FailuresHandled).
THEOREM NoDescriptorIsLost ==
    ASSUME Fds \subseteq Nat
    PROVE  Calls!Spec => []Calls!NoDescriptorLost
<1>1. Calls!WrappersInit => SocketInv
  <2>1. Calls!Idle \notin SearchType
    BY IdleIsNone
  <2> QED
    BY <2>1 DEF Calls!WrappersInit, SocketInv
<1>2. SocketInv /\ [Calls!Next]_(Calls!wrapperVars) => SocketInv'
  BY SearchStep
<1>3. SocketInv => Calls!NoDescriptorLost
  BY DEF SocketInv, Calls!NoDescriptorLost
<1> QED
  BY <1>1, <1>2, <1>3, PTL DEF Calls!Spec
=============================================================================
