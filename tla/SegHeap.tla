------------------------------- MODULE SegHeap -------------------------------
(***************************************************************************)
(* mm.c: the free blocks are kept in lists by the power of two below their *)
(* size.  The heads of the lists, seg_free_listp, are the first words of   *)
(* the heap; here they are the static words, entry i at address            *)
(* i - MAXSEGENTRY.  Classes count words where the code's count bytes:     *)
(* entry i is the code's entry i + 2, whose entries 0 and 1 stay empty.    *)
(*                                                                         *)
(* mm_init also clears the word behind the last entry, where the padding   *)
(* of the heap is written next: the loop that runs one too far does no     *)
(* harm, and is not modelled.                                              *)
(***************************************************************************)
EXTENDS Heap

CONSTANTS
    InitWords,      \* words of the first extension, in mm_init
    LargeWords      \* blocks from this size on are placed at the end (96 bytes)

vars == heapVars

MAXSEGENTRY == StaticWords          \* the number of lists
Entries == 0..MAXSEGENTRY-1

\* Halving a size until it is 1, or the last entry is reached.
Class(size) == Max({i \in Entries : 2^i <= size})

\* The loop of insert_node that is to find a place by size compares the blocks
\* with what halving has left of the size: less than the 16 bytes of the
\* smallest block, so it stops at once.
OrderNeverCompared == \A size \in 4..HeapWords : size \div 2^Class(size) < 16

Entry(i) == i - MAXSEGENTRY

Now == [mem |-> mem, brk |-> brk, bp |-> Null]
Becomes(h) == mem' = Scrubbed(h.mem, 2) /\ brk' = h.brk

-----------------------------------------------------------------------------
\* Behind the head of its list, or as the head of an empty one.
InsertNode(m, bp, size) ==
    LET entry == Entry(Class(size))
        head == m[entry]
        next == GET_SUCCESSOR(m, head)
        linked == [m EXCEPT ![bp] = head, ![bp+1] = next, ![head+1] = bp]
    IN  IF head = Null THEN [m EXCEPT ![entry] = bp, ![bp] = Null, ![bp+1] = Null]
        ELSE IF next = Null THEN linked ELSE [linked EXCEPT ![next] = bp]

DeleteNode(m, bp) ==
    LET pred == GET_PREDECESSOR(m, bp)
        succ == GET_SUCCESSOR(m, bp)
        out == IF pred # Null THEN [m EXCEPT ![pred+1] = succ]
               ELSE [m EXCEPT ![Entry(Class(Size(m, bp)))] = succ]
    IN  IF succ # Null THEN [out EXCEPT ![succ] = pred] ELSE out

\* The free neighbours leave their lists, the merged block enters its own.
Coalesce(m, bp) ==
    LET start == MergedStart(m, bp)
        size == MergedSize(m, bp)
        prev == IF PrevIsFree(m, bp) THEN DeleteNode(m, PREV_BLKP(m, bp)) ELSE m
        next == IF NextIsFree(m, bp) THEN DeleteNode(prev, NEXT_BLKP(m, bp)) ELSE prev
    IN  [mem |-> InsertNode(PutTags(next, start, size, 0), start, size), bp |-> start]

\* The first block of list i that is large enough.
FitIn(m, i, asize) ==
    LET find[bp \in Int] ==
            IF bp = Null \/ Size(m, bp) >= asize THEN bp
            ELSE find[GET_SUCCESSOR(m, bp)]
    IN  find[m[Entry(i)]]

\* A slip: the last list is left out of the search.
FindFitNotLast(m, asize) ==
    LET lists == {i \in Entries \ {MAXSEGENTRY-1} :
                    i >= Class(asize) /\ FitIn(m, i, asize) # Null}
    IN  IF lists = {} THEN Null ELSE FitIn(m, Min(lists), asize)

\* The search of mm_malloc, from the list of asize upwards.
FindFit(m, asize) ==
    LET lists == {i \in Entries : i >= Class(asize) /\ FitIn(m, i, asize) # Null}
    IN  IF lists = {} THEN Null ELSE FitIn(m, Min(lists), asize)

\* place: the remainder becomes a free block if it has more than four words;
\* a large block takes the end of the space, a small one the beginning.
Place(m, bp, asize) ==
    LET size == Size(m, bp)
        rest == size - asize
        used == IF asize >= LargeWords THEN bp + rest ELSE bp
        free == IF asize >= LargeWords THEN bp ELSE bp + asize
        out == DeleteNode(m, bp)
    IN  IF rest <= 4 THEN [mem |-> PutTags(out, bp, size, 1), bp |-> bp]
        ELSE [mem |-> Coalesce(PutTags(PutTags(out, free, rest, 0), used, asize, 1), free).mem,
              bp |-> used]

ExtendHeap(h, words) ==
    IF ~CanExtend(h.brk, words) THEN [h EXCEPT !.bp = Null]
    ELSE LET c == Coalesce(Extended(h.mem, h.brk, words), h.brk)
         IN  [mem |-> c.mem, brk |-> h.brk + EvenWords(words), bp |-> c.bp]

mm_malloc(h, n) ==
    LET asize == AdjustedSize(n)
        fit == FindFit(h.mem, asize)
        got == IF fit # Null THEN [h EXCEPT !.bp = fit]
               ELSE ExtendHeap(h, ExtendSize(asize))
    IN  IF got.bp = Null THEN got
        ELSE LET p == Place(got.mem, got.bp, asize)
             IN  [got EXCEPT !.mem = p.mem, !.bp = p.bp]

mm_free(m, bp) == Coalesce(PutTags(m, bp, Size(m, bp), 0), bp).mem

-----------------------------------------------------------------------------
Init ==
    LET h == ExtendHeap([mem |-> EmptyHeap, brk |-> Start + 4, bp |-> Null], InitWords)
    IN  /\ mem = h.mem /\ brk = h.brk
        /\ ClientInit

\* Calls that return NULL, for want of memory or because nothing was asked,
\* change nothing.
Malloc(n) ==
    /\ n # 0
    /\ Live # Ids
    /\ LET h == mm_malloc(Now, n)
       IN  /\ h.bp # Null
           /\ Becomes([h EXCEPT !.mem = Fill(@, NewId, h.bp, n)])
           /\ Owns(NewId, h.bp, n)

Free(id) ==
    /\ id \in Live
    /\ Becomes([Now EXCEPT !.mem = mm_free(@, blocks[id])])
    /\ Owns(id, Null, 0)

\* mm_realloc.  A block that is large enough stays as it is; one whose next
\* neighbour is free and large enough swallows it whole; any other moves.
HasRoom(id, n) == Size(mem, blocks[id]) >= AdjustedSize(n)
NextHasRoom(id, n) ==
    LET next == NEXT_BLKP(mem, blocks[id])
    IN  /\ IsFree(mem, next) /\ ~HasRoom(id, n)
        /\ Size(mem, blocks[id]) + Size(mem, next) >= AdjustedSize(n)

ReallocStays(id, n) ==
    /\ id \in Live /\ n # 0
    /\ HasRoom(id, n)
    /\ Becomes([Now EXCEPT !.mem = Fill(@, id, blocks[id], n)])
    /\ Owns(id, blocks[id], n)

\* A slip: the neighbour is swallowed without looking at its flag.
ReallocSwallowsAny(id, n) ==
    /\ id \in Live /\ n # 0 /\ ~HasRoom(id, n)
    /\ LET bp == blocks[id]
           next == NEXT_BLKP(mem, bp)
           m == PutTags(mem, bp, Size(mem, bp) + Size(mem, next), 1)
       IN  /\ Size(mem, bp) + Size(mem, next) >= AdjustedSize(n)
           /\ Becomes([Now EXCEPT !.mem = Fill(m, id, bp, n)])
    /\ Owns(id, blocks[id], n)

ReallocSwallows(id, n) ==
    /\ id \in Live /\ n # 0
    /\ NextHasRoom(id, n)
    /\ LET bp == blocks[id]
           next == NEXT_BLKP(mem, bp)
           m == PutTags(DeleteNode(mem, next), bp, Size(mem, bp) + Size(mem, next), 1)
       IN  Becomes([Now EXCEPT !.mem = Fill(m, id, bp, n)])
    /\ Owns(id, blocks[id], n)

\* mm_malloc is asked for the adjusted size, to which it adds the overhead
\* once more; the old block's tags bound what is copied.
ReallocMoves(id, n) ==
    /\ id \in Live /\ n # 0
    /\ ~HasRoom(id, n) /\ ~NextHasRoom(id, n)
    /\ LET old == blocks[id]
           new == mm_malloc(Now, AdjustedSize(n))
           kept == Kept(mem, old, AdjustedSize(n))
           m == mm_free(Copy(new.mem, new.bp, old, kept), old)
       IN  /\ new.bp # Null
           /\ Becomes([new EXCEPT !.mem = Fill(m, id, new.bp, n)])
           /\ Owns(id, new.bp, n)

\* With n = 0 mm_realloc is mm_free.
Realloc(id, n) == ReallocStays(id, n) \/ ReallocSwallows(id, n) \/ ReallocMoves(id, n)

Next ==
    \/ \E n \in Requests : Malloc(n)
    \/ \E id \in Ids : Free(id) \/ \E n \in Requests : Realloc(id, n)

Spec == Init /\ [][Next]_vars

-----------------------------------------------------------------------------
\* The k-th block of list i, from the end on Null.
Listed(i, k) ==
    LET all == Blocks
        nth[j \in Nat] ==
            IF j = 1 THEN mem[Entry(i)]
            ELSE IF nth[j-1] \in all THEN GET_SUCCESSOR(mem, nth[j-1]) ELSE Null
    IN  nth[k]

InClass(i) == {bp \in FreeBlocks : Class(Size(mem, bp)) = i}

\* Each list holds the free blocks of its class, each once, and nothing else,
\* and its backward links mirror its forward links.
FreeListsExact ==
    \A i \in Entries :
        LET n == Cardinality(InClass(i))
        IN  /\ {Listed(i, k) : k \in 1..n} = InClass(i)
            /\ Listed(i, n+1) = Null
            /\ \A k \in 1..n : GET_PREDECESSOR(mem, Listed(i, k)) =
                                 IF k = 1 THEN Null ELSE Listed(i, k-1)

\* A call that has to find room for a block of asize words.
Asks(asize) == \E n \in Requests : AdjustedSize(n) = asize /\ Malloc(n)

\* mm_checkheap reports nothing.
CheckheapQuiet ==
    /\ \A i \in Entries : \A k \in 1..Cardinality(Blocks) :
          Listed(i, k) \in Blocks =>
            IsFree(mem, Listed(i, k)) /\ CheckBlock(mem, Listed(i, k))
    /\ CheckTags(mem)
=============================================================================
