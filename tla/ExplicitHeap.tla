---------------------------- MODULE ExplicitHeap ----------------------------
(***************************************************************************)
(* mm_explicit_list.c: the free blocks form one doubly linked list between *)
(* the static variables heap_freep and tail, the latest freed block first. *)
(* The links are two words in the block itself, so they are lost as soon   *)
(* as the caller writes to it, and stale as long as it does not.           *)
(***************************************************************************)
EXTENDS Heap

CONSTANT InitWords      \* words of the first extension, in mm_init

vars == heapVars

\* head_addr and tail_addr, two of the static words each.
heap_freep == -4
tail == -2

Now == [mem |-> mem, brk |-> brk, bp |-> Null]
Becomes(h) == mem' = Scrubbed(h.mem, 2) /\ brk' = h.brk

-----------------------------------------------------------------------------
InsertNode(m, bp) ==
    LET first == GET_SUCCESSOR(m, heap_freep)
    IN  [m EXCEPT ![GET_PREDECESSOR(m, first) + 1] = bp,
                  ![bp] = GET_PREDECESSOR(m, first), ![bp+1] = first,
                  ![first] = bp]

DeleteNode(m, bp) ==
    [m EXCEPT ![GET_PREDECESSOR(m, bp) + 1] = GET_SUCCESSOR(m, bp),
              ![GET_SUCCESSOR(m, bp)] = GET_PREDECESSOR(m, bp)]

\* A slip: the block before stays in the list.
CoalesceKeepsPrev(m, bp) ==
    LET start == MergedStart(m, bp)
        next == IF NextIsFree(m, bp) THEN DeleteNode(m, NEXT_BLKP(m, bp)) ELSE m
    IN  [mem |-> InsertNode(PutTags(next, start, MergedSize(m, bp), 0), start),
         bp |-> start]

\* The free neighbours leave the list, the merged block enters it.
Coalesce(m, bp) ==
    LET start == MergedStart(m, bp)
        prev == IF PrevIsFree(m, bp) THEN DeleteNode(m, PREV_BLKP(m, bp)) ELSE m
        next == IF NextIsFree(m, bp) THEN DeleteNode(prev, NEXT_BLKP(m, bp)) ELSE prev
    IN  [mem |-> InsertNode(PutTags(next, start, MergedSize(m, bp), 0), start),
         bp |-> start]

\* The first block of the list that fits.
FindFit(m, asize) ==
    LET find[bp \in Int] ==
            IF bp = tail THEN Null
            ELSE IF asize <= Size(m, bp) THEN bp
            ELSE find[GET_SUCCESSOR(m, bp)]
    IN  find[GET_SUCCESSOR(m, heap_freep)]

Place(m, bp, asize) ==
    LET rest == Size(m, bp) - asize
        out == DeleteNode(m, bp)
    IN  IF rest >= 4
        THEN Coalesce(PutTags(PutTags(out, bp, asize, 1), bp + asize, rest, 0),
                      bp + asize).mem
        ELSE PutTags(out, bp, Size(m, bp), 1)

ExtendHeap(h, words) ==
    IF ~CanExtend(h.brk, words) THEN [h EXCEPT !.bp = Null]
    ELSE LET c == Coalesce(Extended(h.mem, h.brk, words), h.brk)
         IN  [mem |-> c.mem, brk |-> h.brk + EvenWords(words), bp |-> c.bp]

mm_malloc(h, n) ==
    LET asize == AdjustedSize(n)
        fit == FindFit(h.mem, asize)
        got == IF fit # Null THEN [h EXCEPT !.bp = fit]
               ELSE ExtendHeap(h, ExtendSize(asize))
    IN  IF got.bp = Null THEN got
        ELSE [got EXCEPT !.mem = Place(@, got.bp, asize)]

mm_free(m, bp) == Coalesce(PutTags(m, bp, Size(m, bp), 0), bp).mem

-----------------------------------------------------------------------------
Init ==
    LET linked == [EmptyHeap EXCEPT ![heap_freep+1] = tail, ![tail] = heap_freep]
        h == ExtendHeap([mem |-> linked, brk |-> Start + 4, bp |-> Null], InitWords)
    IN  /\ mem = h.mem /\ brk = h.brk
        /\ ClientInit

\* Calls that return NULL, for want of memory or because nothing was asked,
\* change nothing.
Malloc(n) ==
    /\ n # 0
    /\ Live # Ids
    /\ LET h == mm_malloc(Now, n)
       IN  /\ h.bp # Null
           /\ Becomes([h EXCEPT !.mem = Fill(@, NewId, h.bp, n)])
           /\ Owns(NewId, h.bp, n)

Free(id) ==
    /\ id \in Live
    /\ Becomes([Now EXCEPT !.mem = mm_free(@, blocks[id])])
    /\ Owns(id, Null, 0)

\* mm_realloc.  A block that is large enough stays as it is; one whose next
\* neighbour is free and large enough swallows it whole.
Wanted(n) == AdjustedSize(n)
HasRoom(id, n) == Size(mem, blocks[id]) >= Wanted(n)
NextHasRoom(id, n) ==
    /\ NextIsFree(mem, blocks[id])
    /\ Size(mem, blocks[id]) + Size(mem, NEXT_BLKP(mem, blocks[id])) >= Wanted(n)
    /\ ~HasRoom(id, n)

ReallocStays(id, n) ==
    /\ id \in Live /\ n # 0
    /\ HasRoom(id, n)
    /\ Becomes([Now EXCEPT !.mem = Fill(@, id, blocks[id], n)])
    /\ Owns(id, blocks[id], n)

ReallocSwallows(id, n) ==
    /\ id \in Live /\ n # 0
    /\ NextHasRoom(id, n)
    /\ LET bp == blocks[id]
           next == NEXT_BLKP(mem, bp)
           m == PutTags(DeleteNode(mem, next), bp, Size(mem, bp) + Size(mem, next), 1)
       IN  Becomes([Now EXCEPT !.mem = Fill(m, id, bp, n)])
    /\ Owns(id, blocks[id], n)

\* Otherwise it moves.  mm_malloc is asked for the adjusted size, and place is
\* called on the block that mm_malloc has placed already.
ReallocMoves(id, n) ==
    /\ id \in Live /\ n # 0
    /\ ~HasRoom(id, n) /\ ~NextHasRoom(id, n)
    /\ LET old == blocks[id]
           new == mm_malloc(Now, Wanted(n))
           placed == Place(new.mem, new.bp, Wanted(n))
           kept == Kept(mem, old, Wanted(n))
           m == mm_free(Copy(placed, new.bp, old, kept), old)
       IN  /\ new.bp # Null
           /\ Becomes([new EXCEPT !.mem = Fill(m, id, new.bp, n)])
           /\ Owns(id, new.bp, n)

\* mm_realloc with n = 0 is mm_free.
NextInPlace ==
    \/ \E n \in Requests : Malloc(n)
    \/ \E id \in Ids : Free(id)
    \/ \E id \in Ids, n \in Requests : ReallocStays(id, n) \/ ReallocSwallows(id, n)

Next == NextInPlace \/ \E id \in Ids, n \in Requests : ReallocMoves(id, n)

\* The package as it is, and as it behaves while no reallocation has to move.
Spec == Init /\ [][Next]_vars
SpecInPlace == Init /\ [][NextInPlace]_vars

-----------------------------------------------------------------------------
\* The k-th block of the list; from the end on, tail.
Listed(k) ==
    LET all == Blocks \cup {heap_freep}
        nth[j \in Nat] ==
            IF j = 0 THEN heap_freep
            ELSE IF nth[j-1] \in all THEN GET_SUCCESSOR(mem, nth[j-1]) ELSE nth[j-1]
    IN  nth[k]

\* The list holds every free block, once, and nothing else, and its backward
\* links mirror its forward links.
FreeListExact ==
    LET n == Cardinality(FreeBlocks)
    IN  /\ {Listed(k) : k \in 1..n} = FreeBlocks
        /\ Listed(n+1) = tail
        /\ \A k \in 1..n+1 : GET_PREDECESSOR(mem, Listed(k)) = Listed(k-1)

\* checkheap reports "An Allocated Block exist in the free list".
ListedBlocksFree ==
    \A k \in 1..Cardinality(Blocks) : Listed(k) \in Blocks => IsFree(mem, Listed(k))

\* A call that has to find room for a block of asize words.
Asks(asize) == \E n \in Requests : AdjustedSize(n) = asize /\ Malloc(n)

\* mm_checkheap reports nothing.
CheckheapQuiet ==
    /\ \A k \in 1..Cardinality(Blocks) :
          Listed(k) \in Blocks => IsFree(mem, Listed(k)) /\ CheckBlock(mem, Listed(k))
    /\ CheckTags(mem)
=============================================================================
