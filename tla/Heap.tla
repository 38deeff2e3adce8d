-------------------------------- MODULE Heap --------------------------------
(***************************************************************************)
(* What the three malloc packages of the lab share: the memory that        *)
(* mem_sbrk hands out (memlib.c), the boundary tags of mm_implicit_list.c, *)
(* mm_explicit_list.c and mm.c, and the program that calls the package,    *)
(* which keeps a table of its blocks as mdriver.c does.                    *)
(*                                                                         *)
(* The unit is the word of 4 bytes (the lab is built with -m32), so WSIZE  *)
(* is 1, DSIZE is 2 and an address is aligned when it is even.  A tag is   *)
(* PACK(size, alloc): sizes are even and the lowest bit is the flag.       *)
(* Address 0 is the null pointer; addresses below 0 are the static         *)
(* variables and arrays that a package links into its free lists.          *)
(*                                                                         *)
(* Sizes near 2^32 are left out: adding the overhead would wrap there.     *)
(***************************************************************************)
EXTENDS Integers, FiniteSetsExt

CONSTANTS
    HeapWords,      \* words mem_sbrk can hand out (MAX_HEAP)
    StaticWords,    \* words of static variables the package uses
    CHUNKSIZE,      \* words by which a full heap is extended, at least
    Ids,            \* stamps the calling program fills its blocks with
    Requests        \* sizes, in words, that it asks for

ASSUME HeapAssumption ==
    /\ StaticWords \in Nat /\ StaticWords >= 4
    /\ CHUNKSIZE \in Nat /\ CHUNKSIZE >= 4
    /\ HeapWords \in Nat /\ HeapWords >= CHUNKSIZE + 5     \* mm_init finds room
    /\ Ids \subseteq Nat \ {0} /\ IsFiniteSet(Ids)
    /\ Requests \subseteq Nat

VARIABLES
    mem,        \* the words
    brk,        \* mem_brk: the first address not handed out yet
    blocks,     \* blocks[id]: the payload of id's block, Null when it has none
    sizes       \* sizes[id]: the words it was asked to have

clientVars == <<blocks, sizes>>
heapVars == <<mem, brk, clientVars>>

Null == 0
Start == 2                              \* mem_start_brk
HeapArea == Start..Start+HeapWords-1
Addr == (-StaticWords..-1) \cup HeapArea
heap_listp == Start + 2                 \* the prologue block

-----------------------------------------------------------------------------
\* Tags.  Operators take the memory they read, m, as an argument: within one
\* call it changes several times.
TagSize(w) == w - (w % 2)                               \* GET_SIZE
Size(m, bp) == TagSize(m[bp-1])                         \* of HDRP(bp)
IsFree(m, bp) == m[bp-1] % 2 = 0
FTRP(m, bp) == bp + Size(m, bp) - 2
NEXT_BLKP(m, bp) == bp + Size(m, bp)
PREV_BLKP(m, bp) == bp - TagSize(m[bp-2])

\* Header and footer of a block; alloc is 1 or 0.
PutTags(m, bp, size, alloc) ==
    [m EXCEPT ![bp-1] = size + alloc, ![bp+size-2] = size + alloc]

PrevIsFree(m, bp) == m[FTRP(m, PREV_BLKP(m, bp))] % 2 = 0
NextIsFree(m, bp) == IsFree(m, NEXT_BLKP(m, bp))

\* Links of a free block in the packages that keep lists of them.
GET_PREDECESSOR(m, bp) == m[bp]
GET_SUCCESSOR(m, bp) == m[bp+1]

\* coalesce: the free block that bp becomes part of, where it begins, and its
\* size.
MergedStart(m, bp) == IF PrevIsFree(m, bp) THEN PREV_BLKP(m, bp) ELSE bp
MergedSize(m, bp) ==
    Size(m, bp)
    + (IF PrevIsFree(m, bp) THEN Size(m, PREV_BLKP(m, bp)) ELSE 0)
    + (IF NextIsFree(m, bp) THEN Size(m, NEXT_BLKP(m, bp)) ELSE 0)
PutMerged(m, bp) == PutTags(m, MergedStart(m, bp), MergedSize(m, bp), 0)

\* The block size for a request of n words: room for two tags, an even number,
\* at least four.
AdjustedSize(n) == IF n <= 2 THEN 4 ELSE 2 * ((n + 3) \div 2)

\* extend_heap, up to its call of coalesce: a free block of n words where the
\* epilogue was, at the end of the heap, and a new epilogue behind it.
EvenWords(n) == n + (n % 2)
CanExtend(end, n) == end + EvenWords(n) <= Start + HeapWords

\* A slip: the old epilogue is overwritten and no new one is written.
ExtendedNoEpilogue(m, end, n) == PutTags(m, end, EvenWords(n), 0)

Extended(m, end, n) ==
    [PutTags(m, end, EvenWords(n), 0) EXCEPT ![end + EvenWords(n) - 1] = 1]

ExtendSize(asize) == Max({asize, CHUNKSIZE})

\* The blocks from bp to the epilogue; a header is read only in the heap.
BlocksFrom(m, bp) ==
    LET from[p \in Int] ==
            IF p - 1 \notin HeapArea \/ Size(m, p) <= 0 THEN {}
            ELSE {p} \cup from[NEXT_BLKP(m, p)]
    IN  from[bp]

\* What a free block holds beyond its tags and its first `links` words is never
\* read: between two calls it is forgotten.
Scrubbed(m, links) ==
    LET interior == UNION {bp+links..FTRP(m, bp)-1 : bp \in
            {b \in BlocksFrom(m, NEXT_BLKP(m, heap_listp)) : IsFree(m, b)}}
    IN  [a \in Addr |-> IF a \in interior THEN 0 ELSE m[a]]

\* mm_init, up to its call of extend_heap: padding, prologue, epilogue.
EmptyHeap ==
    [[a \in Addr |-> 0] EXCEPT ![Start+1] = 3, ![Start+2] = 3, ![Start+3] = 1]

-----------------------------------------------------------------------------
\* The calling program.  It fills every word it is given with the block's
\* stamp; words that realloc is to keep are not written again, so that what
\* realloc lost would show.
Fill(m, id, bp, n) ==
    [a \in Addr |-> IF a \in bp+sizes[id]..bp+n-1 THEN id ELSE m[a]]

\* memcpy of n words; the two areas never overlap.
Copy(m, to, from, n) ==
    [a \in Addr |-> IF a \in to..to+n-1 THEN m[from + (a - to)] ELSE m[a]]

\* mm_realloc, when it moves: the words that are copied.  The old block's size,
\* its tags included, is the bound.
Kept(m, old, n) == Min({n, Size(m, old)})

Live == {id \in Ids : blocks[id] # Null}

\* Stamps are names: which unused one a new block gets makes no difference.
NewId == Min(Ids \ Live)

Owns(id, bp, n) ==
    /\ blocks' = [blocks EXCEPT ![id] = bp]
    /\ sizes' = [sizes EXCEPT ![id] = n]

ClientInit ==
    /\ blocks = [id \in Ids |-> Null]
    /\ sizes = [id \in Ids |-> 0]

-----------------------------------------------------------------------------
\* checkblock, and what checkheap of all three packages looks at: the prologue,
\* each block from it to the epilogue, the epilogue.
CheckBlock(m, bp) == bp % 2 = 0 /\ m[bp-1] = m[FTRP(m, bp)]

CheckTags(m) ==
    LET all == BlocksFrom(m, heap_listp)
        end == NEXT_BLKP(m, Max(all))
    IN  /\ Size(m, heap_listp) = 2 /\ ~IsFree(m, heap_listp)
        /\ \A bp \in all : CheckBlock(m, bp)
        /\ Size(m, end) = 0 /\ ~IsFree(m, end)

-----------------------------------------------------------------------------
Blocks == BlocksFrom(mem, NEXT_BLKP(mem, heap_listp))
FreeBlocks == {bp \in Blocks : IsFree(mem, bp)}

\* Walking from tag to tag one meets exactly the epilogue; footers repeat
\* headers, blocks are aligned and never too small, no two neighbours are
\* free, and the allocated blocks are those of the calling program, each with
\* room for what was asked.  Nothing is lost and nothing is shared.
TagsSound ==
    /\ Start + 4 <= brk /\ brk <= Start + HeapWords
    /\ mem[heap_listp-1] = 3 /\ mem[heap_listp] = 3
    /\ mem[brk-1] = 1
    /\ LET all == Blocks
           used == {bp \in all : ~IsFree(mem, bp)}
       IN  /\ \E bp \in all : NEXT_BLKP(mem, bp) = brk
           /\ \A bp \in all :
                /\ bp % 2 = 0 /\ Size(mem, bp) >= 4 /\ NEXT_BLKP(mem, bp) <= brk
                /\ mem[FTRP(mem, bp)] = mem[bp-1]
                /\ IsFree(mem, bp) => ~NextIsFree(mem, bp)
           /\ used = {blocks[id] : id \in Live}
           /\ Cardinality(used) = Cardinality(Live)
    /\ \A id \in Live : sizes[id] + 2 <= Size(mem, blocks[id])

\* What the calling program sees.
Contents == [id \in Ids |-> [k \in 1..sizes[id] |-> mem[blocks[id] + k - 1]]]
Promise == INSTANCE Allocator WITH Area <- HeapArea, contents <- Contents

ImplementsAllocator == Promise!Spec
=============================================================================
