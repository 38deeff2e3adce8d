---------------------------- MODULE ImplicitHeap ----------------------------
(***************************************************************************)
(* mm_implicit_list.c, which defines NEXT_FIT: there is no list of free    *)
(* blocks, the search walks from tag to tag, beginning at rover, the block *)
(* where the last search ended.                                            *)
(*                                                                         *)
(* A heap h is a record of the memory, its end, the rover and bp, the      *)
(* block a function returns.  A call is one step: nothing runs beside it.  *)
(***************************************************************************)
EXTENDS Heap

VARIABLE rover

vars == <<heapVars, rover>>
Now == [mem |-> mem, brk |-> brk, rover |-> rover, bp |-> Null]
Becomes(h) == mem' = Scrubbed(h.mem, 0) /\ brk' = h.brk /\ rover' = h.rover

-----------------------------------------------------------------------------
\* coalesce also takes care that rover does not point into a merged block.
Coalesce(h, bp) ==
    LET start == MergedStart(h.mem, bp)
        end == start + MergedSize(h.mem, bp)
    IN  [h EXCEPT !.mem = PutMerged(@, bp), !.bp = start,
                  !.rover = IF start < @ /\ @ < end THEN start ELSE @]

Fits(m, bp, asize) == IsFree(m, bp) /\ asize <= Size(m, bp)

\* find_fit: the first block that fits, from rover to the last block, then
\* from the first block to rover.
FindFit(h, asize) ==
    LET after == {bp \in BlocksFrom(h.mem, h.rover) : Fits(h.mem, bp, asize)}
        before == {bp \in BlocksFrom(h.mem, heap_listp) :
                     bp < h.rover /\ Fits(h.mem, bp, asize)}
    IN  IF after # {} THEN Min(after) ELSE IF before # {} THEN Min(before) ELSE Null

\* A slip: a remainder that is too small to be a block is split off.
PlaceTight(m, bp, asize) ==
    LET rest == Size(m, bp) - asize
    IN  IF rest >= 2
        THEN PutTags(PutTags(m, bp, asize, 1), bp + asize, rest, 0)
        ELSE PutTags(m, bp, Size(m, bp), 1)

Place(m, bp, asize) ==
    LET rest == Size(m, bp) - asize
    IN  IF rest >= 4
        THEN PutTags(PutTags(m, bp, asize, 1), bp + asize, rest, 0)
        ELSE PutTags(m, bp, Size(m, bp), 1)

ExtendHeap(h, words) ==
    IF ~CanExtend(h.brk, words) THEN [h EXCEPT !.bp = Null]
    ELSE Coalesce([h EXCEPT !.mem = Extended(@, h.brk, words),
                            !.brk = @ + EvenWords(words)], h.brk)

\* find_fit leaves rover at the block it found, or back where it began.
mm_malloc(h, n) ==
    LET asize == AdjustedSize(n)
        fit == FindFit(h, asize)
        got == IF fit # Null THEN [h EXCEPT !.bp = fit, !.rover = fit]
               ELSE ExtendHeap(h, ExtendSize(asize))
    IN  IF got.bp = Null THEN got
        ELSE [got EXCEPT !.mem = Place(@, got.bp, asize)]

mm_free(h, bp) == Coalesce([h EXCEPT !.mem = PutTags(@, bp, Size(@, bp), 0)], bp)

-----------------------------------------------------------------------------
Init ==
    LET h == ExtendHeap([mem |-> EmptyHeap, brk |-> Start + 4,
                         rover |-> heap_listp, bp |-> Null], CHUNKSIZE)
    IN  /\ mem = h.mem /\ brk = h.brk /\ rover = h.rover
        /\ ClientInit

\* Calls that return NULL, for want of memory or because nothing was asked,
\* change nothing.
Malloc(n) ==
    /\ n # 0
    /\ Live # Ids
    /\ LET h == mm_malloc(Now, n)
       IN  /\ h.bp # Null
           /\ Becomes([h EXCEPT !.mem = Fill(@, NewId, h.bp, n)])
           /\ Owns(NewId, h.bp, n)

Free(id) ==
    /\ id \in Live
    /\ Becomes(mm_free(Now, blocks[id]))
    /\ Owns(id, Null, 0)

\* mm_realloc always moves: it allocates, copies, and frees.  With n = 0 it is
\* mm_free.
Realloc(id, n) ==
    /\ id \in Live /\ n # 0
    /\ LET old == blocks[id]
           new == mm_malloc(Now, n)
           kept == Kept(new.mem, old, n)
           h == mm_free([new EXCEPT !.mem = Copy(@, new.bp, old, kept)], old)
       IN  /\ new.bp # Null
           /\ Becomes([h EXCEPT !.mem = Fill(@, id, new.bp, n)])
           /\ Owns(id, new.bp, n)

Next ==
    \/ \E n \in Requests : Malloc(n)
    \/ \E id \in Ids : Free(id) \/ \E n \in Requests : Realloc(id, n)

Spec == Init /\ [][Next]_vars

-----------------------------------------------------------------------------
\* The search may begin at rover: it is a block or the prologue, never a place
\* inside a block that coalescing has swallowed.
RoverOnBlock == rover \in Blocks \cup {heap_listp}

\* A call that has to find room for a block of asize words; MallocPackages asks
\* whether the heap grew without need.
Asks(asize) ==
    \E n \in Requests : AdjustedSize(n) = asize
                       /\ (Malloc(n) \/ \E id \in Ids : Realloc(id, n))

\* mm_checkheap reports nothing.
CheckheapQuiet == CheckTags(mem)
=============================================================================
