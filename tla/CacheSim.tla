------------------------------ MODULE CacheSim ------------------------------
(***************************************************************************)
(* csim.c: a simulator of a cache with 2^s sets of E lines and blocks of   *)
(* 2^b bytes, which counts the hits, misses and evictions of a trace of    *)
(* memory accesses.  A trace line is one step.                             *)
(*                                                                         *)
(* A line's time is compared with the other times of its set; they only    *)
(* ever grow, so the length of a trace is bounded, by MaxAccesses.         *)
(***************************************************************************)
EXTENDS Naturals, FiniteSetsExt, SequencesExt

CONSTANTS
    s, E, b,        \* the command line: set bits, lines of a set, offset bits
    TagBits,        \* width of the int that load_in_cache takes the tag as
    Addrs,          \* addresses in the trace
    MaxAccesses     \* accesses of a trace

\* The option -E has no default that works: with no lines at all, a miss would
\* write line UINT64_MAX.
ASSUME SimAssumption ==
    /\ s \in Nat /\ b \in Nat /\ TagBits \in Nat
    /\ E \in Nat \ {0}
    /\ Addrs \subseteq Nat /\ MaxAccesses \in Nat
    /\ {2^s, 2^b, 2^TagBits} \subseteq Nat \ {0}      \* arithmetic, for the provers

VARIABLES
    cache,          \* cache[i][k]: tag, time and valid bit of line k of set i
    hits, misses, evictions,
    order           \* history: the blocks that were accessed, the latest last

counters == <<hits, misses, evictions>>
simVars == <<cache, counters, order>>

Sets == 0..2^s-1
Lines == 1..E

-----------------------------------------------------------------------------
\* cache_init: calloc has cleared everything.
ColdCache == [i \in Sets |-> [k \in Lines |-> [tag |-> 0, time |-> 0, valid |-> FALSE]]]

\* read_trace takes an address apart.
BlockOf(addr) == addr \div 2^b
SetIndex(addr) == BlockOf(addr) % 2^s

\* A slip: the tag keeps only its lowest bit.
NarrowTag(addr) == (BlockOf(addr) \div 2^s) % 2

\* The tag has 64 bits in read_trace; load_in_cache takes it as an int.
Tag(addr) == (BlockOf(addr) \div 2^s) % 2^TagBits

\* The line of least time, the first of them: a line never filled has time 0,
\* and is taken before any other.
Oldest(lines) == Min({k \in Lines : \A j \in Lines : lines[k].time <= lines[j].time})
RecentTime(lines) == Max({lines[k].time : k \in Lines})

Sim == [cache |-> cache, hits |-> hits, misses |-> misses, evictions |-> evictions]

\* One access.  A hit adds 1 to the line's time; a miss fills the oldest line
\* and gives it the greatest time of its set.
load_in_cache(sim, addr) ==
    LET i == SetIndex(addr)
        lines == sim.cache[i]
        found == {k \in Lines : lines[k].valid /\ lines[k].tag = Tag(addr)}
        victim == Oldest(lines)
        new == [tag |-> Tag(addr), time |-> RecentTime(lines) + 1, valid |-> TRUE]
    IN  IF found # {} THEN [sim EXCEPT !.hits = @ + 1, !.cache[i][Min(found)].time = @ + 1]
        ELSE [sim EXCEPT !.misses = @ + 1,
                         !.evictions = IF lines[victim].valid THEN @ + 1 ELSE @,
                         !.cache[i][victim] = new]

Counts(sim) ==
    /\ cache' = sim.cache
    /\ hits' = sim.hits /\ misses' = sim.misses /\ evictions' = sim.evictions

-----------------------------------------------------------------------------
Init ==
    /\ cache = ColdCache
    /\ hits = 0 /\ misses = 0 /\ evictions = 0
    /\ order = <<>>

Touched(seq, k) == Append(SelectSeq(seq, LAMBDA x : x # k), k)

\* Trace lines L and S; a line I (an instruction) is skipped.
LoadOrStore(addr) ==
    /\ hits + misses < MaxAccesses
    /\ Counts(load_in_cache(Sim, addr))
    /\ order' = Touched(order, BlockOf(addr))

\* A trace line M: a load, then a store to the same address.
Modify(addr) ==
    /\ hits + misses + 1 < MaxAccesses
    /\ Counts(load_in_cache(load_in_cache(Sim, addr), addr))
    /\ order' = Touched(order, BlockOf(addr))

Next == \E addr \in Addrs : LoadOrStore(addr) \/ Modify(addr)

Spec == Init /\ [][Next]_simVars

-----------------------------------------------------------------------------
\* The blocks whose tags are in the valid lines.
ValidLines == {l \in Sets \X Lines : cache[l[1]][l[2]].valid}
Resident == {cache[l[1]][l[2]].tag * 2^s + l[1] : l \in ValidLines}

\* As long as no two tags of the trace agree in the bits that are kept, this is a
\* cache of some policy, with these blocks in it.
TagsFit == \A addr \in Addrs : BlockOf(addr) \div 2^s < 2^TagBits

Demand == INSTANCE DemandCache WITH
    Blocks <- {BlockOf(addr) : addr \in Addrs}, SetCount <- 2^s, Ways <- E,
    resident <- Resident

\* The comment above load_in_cache: "Using LRU strategy", "Find the least recent
\* used block and replace it".  A block that leaves the cache was accessed
\* before every other block of its set.
EvictsLeastRecent ==
    [][\A gone \in Resident \ Resident', other \in Resident :
         gone % 2^s = other % 2^s =>
             \E p, q \in DOMAIN order : p <= q /\ order[p] = gone /\ order[q] = other]_simVars
=============================================================================
