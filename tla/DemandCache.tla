---------------------------- MODULE DemandCache ----------------------------
(***************************************************************************)
(* What a simulator of a set-associative cache promises whatever its       *)
(* replacement policy: an access to a resident block is a hit, any other   *)
(* is one miss and makes the block resident, and a block is evicted only   *)
(* from a full set, to make room for one of the same set.                  *)
(***************************************************************************)
EXTENDS Naturals, FiniteSets, SequencesExt

CONSTANTS
    Blocks,         \* block numbers: addresses without the offset
    SetCount,       \* number of sets; block k belongs to set k % SetCount
    Ways            \* lines of a set

VARIABLES
    resident,       \* the blocks in the cache
    order,          \* the blocks that were accessed, the latest last
    hits, misses, evictions

vars == <<resident, order, hits, misses, evictions>>

Touched(seq, k) == Append(SelectSeq(seq, LAMBDA x : x # k), k)
Rivals(k) == {x \in resident : x % SetCount = k % SetCount}

Init ==
    /\ resident = {} /\ order = <<>>
    /\ hits = 0 /\ misses = 0 /\ evictions = 0

\* n accesses to block k, one after the other.
Hit(k, n) ==
    /\ k \in resident
    /\ hits' = hits + n
    /\ order' = Touched(order, k)
    /\ UNCHANGED <<resident, misses, evictions>>

Miss(k, n) ==
    /\ k \notin resident
    /\ misses' = misses + 1 /\ hits' = hits + n - 1
    /\ order' = Touched(order, k)
    /\ \/ /\ Cardinality(Rivals(k)) < Ways
          /\ resident' = resident \cup {k}
          /\ UNCHANGED evictions
       \/ /\ Cardinality(Rivals(k)) = Ways
          /\ \E victim \in Rivals(k) : resident' = (resident \ {victim}) \cup {k}
          /\ evictions' = evictions + 1

Next == \E k \in Blocks, n \in 1..2 : Hit(k, n) \/ Miss(k, n)

Spec == Init /\ [][Next]_vars
=============================================================================
