------------------------------ MODULE Allocator ------------------------------
(***************************************************************************)
(* What a malloc package promises the program that calls it: a block it    *)
(* hands out lies in the heap, is aligned and overlaps no other block, and *)
(* no call but the one that is given the block changes what is in it.  A   *)
(* call that fails changes nothing.                                        *)
(***************************************************************************)
EXTENDS Integers

CONSTANTS
    Ids,        \* names the calling program gives its blocks
    Requests,   \* sizes it asks for
    Area        \* addresses of the heap

VARIABLES
    blocks,     \* blocks[id]: address of id's block, 0 when it has none
    sizes,      \* sizes[id]: words that were asked for
    contents    \* contents[id]: the words in the block

vars == <<blocks, sizes, contents>>

Live == {id \in Ids : blocks[id] # 0}
Extent(p, n) == p..p+n-1

Init ==
    /\ blocks = [id \in Ids |-> 0]
    /\ sizes = [id \in Ids |-> 0]
    /\ contents = [id \in Ids |-> <<>>]

\* A new block, or a live one that is given n words and perhaps moved: what
\* was in it stays, the caller fills the rest with a stamp of its own.
Give(id, p, n) ==
    /\ blocks' = [blocks EXCEPT ![id] = p]
    /\ sizes' = [sizes EXCEPT ![id] = n]
    /\ Extent(p, n) \subseteq Area /\ p % 2 = 0
    /\ \A other \in Live \ {id} :
         Extent(p, n) \cap Extent(blocks[other], sizes[other]) = {}
    /\ contents' = [contents EXCEPT ![id] =
         [k \in 1..n |-> IF k <= sizes[id] THEN contents[id][k] ELSE id]]

Free(id) ==
    /\ blocks' = [blocks EXCEPT ![id] = 0]
    /\ sizes' = [sizes EXCEPT ![id] = 0]
    /\ contents' = [contents EXCEPT ![id] = <<>>]

Next == \E id \in Ids : Free(id) \/ \E p \in Area, n \in Requests \ {0} : Give(id, p, n)

Spec == Init /\ [][Next]_vars
=============================================================================
