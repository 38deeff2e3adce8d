------------------------- MODULE ImplicitHeapProofs -------------------------
(***************************************************************************)
(* The implicit list of mm_implicit_list.c keeps the tags of the heap in   *)
(* order and the promise that malloc, free and realloc make, for heaps,    *)
(* requests and numbers of blocks of every size.                           *)
(*                                                                         *)
(* The first part is about boundary tags and knows nothing of the list:    *)
(* what a walk from tag to tag finds, and how it changes when a block is   *)
(* cut, merged or added.  A segment is a part of the heap that blocks fill *)
(* without a gap.  Two segments that meet make one, one may be cut         *)
(* wherever a block begins, and only its own tags decide whether it is one.*)
(***************************************************************************)
EXTENDS ImplicitHeap, NatInduction, FiniteSetTheorems, FunctionTheorems

Memory == [Addr -> Int]

Segment(m, lo, hi, N) ==
    /\ lo \in Int /\ hi \in Int /\ lo <= hi /\ lo \in N \cup {hi}
    /\ N \subseteq lo..hi-1
    /\ \A p \in N : /\ p % 2 = 0 /\ Size(m, p) \in Int /\ Size(m, p) >= 4
                    /\ m[FTRP(m, p)] = m[p-1]
                    /\ NEXT_BLKP(m, p) \in N \cup {hi}
    /\ \A p, q \in N : p < q => NEXT_BLKP(m, p) <= q
    /\ \A q \in N \cup {hi} : q = lo \/ \E p \in N : NEXT_BLKP(m, p) = q

First == heap_listp + 2         \* the block behind the prologue

\* A heap that ends at end, with the blocks B between prologue and epilogue.
Layout(m, end, B) ==
    /\ m \in Memory
    /\ end % 2 = 0 /\ end <= Start + HeapWords
    /\ Segment(m, First, end, B)
    /\ m[heap_listp-1] = 3 /\ m[heap_listp] = 3 /\ m[end-1] = 1

\* No two neighbours are free.
Apart(m, B) == \A p \in B : IsFree(m, p) => ~IsFree(m, NEXT_BLKP(m, p))

\* The block at p is as it was, tags and payload.
Held(m, n, p) == \A a \in p-1..FTRP(m, p) : n[a] = m[a]

-----------------------------------------------------------------------------
\* A tag tells the size and the flag apart.
LEMMA TagParts ==
    ASSUME NEW size \in Int, size % 2 = 0, NEW alloc \in {0, 1}
    PROVE  TagSize(size + alloc) = size /\ (size + alloc) % 2 = alloc
<1>1. (size + alloc) % 2 = alloc
  OBVIOUS
<1> QED
  BY <1>1 DEF TagSize

\* PutTags writes two words.
LEMMA PutTagsIs ==
    ASSUME NEW m \in Memory, NEW bp \in Int, NEW size \in Int, NEW alloc \in {0, 1},
           bp - 1 \in Addr, bp + size - 2 \in Addr
    PROVE  /\ PutTags(m, bp, size, alloc) \in Memory
           /\ PutTags(m, bp, size, alloc)[bp-1] = size + alloc
           /\ PutTags(m, bp, size, alloc)[bp+size-2] = size + alloc
           /\ \A a \in Addr : a # bp - 1 /\ a # bp + size - 2 =>
                  PutTags(m, bp, size, alloc)[a] = m[a]
BY DEF PutTags, Memory

\* Two segments that meet are one.
LEMMA SegmentsJoin ==
    ASSUME NEW m, NEW a, NEW b, NEW c, NEW M, NEW N, Segment(m, a, b, M), Segment(m, b, c, N)
    PROVE  Segment(m, a, c, M \cup N)
<1>1. /\ a \in Int /\ b \in Int /\ c \in Int /\ a <= b /\ b <= c
      /\ a \in M \cup {b} /\ b \in N \cup {c} /\ M \subseteq a..b-1 /\ N \subseteq b..c-1
  BY DEF Segment
<1>2. \A p \in M \cup N : /\ p % 2 = 0 /\ Size(m, p) \in Int /\ Size(m, p) >= 4
                          /\ m[FTRP(m, p)] = m[p-1]
                          /\ NEXT_BLKP(m, p) \in (M \cup N) \cup {c}
  BY <1>1 DEF Segment
<1>3. \A p \in M : NEXT_BLKP(m, p) \in Int /\ NEXT_BLKP(m, p) <= b
  <2> TAKE p \in M
  <2>1. NEXT_BLKP(m, p) \in M \cup {b}
    BY DEF Segment
  <2>2. \A q \in M \cup {b} : q \in Int /\ q <= b
    BY <1>1
  <2> QED
    BY <2>1, <2>2
<1>4. ASSUME NEW p \in M \cup N, NEW q \in M \cup N, p < q
      PROVE  NEXT_BLKP(m, p) <= q
  <2>1. CASE p \in M /\ q \in N
    <3>1. NEXT_BLKP(m, p) \in Int /\ NEXT_BLKP(m, p) <= b /\ b <= q /\ q \in Int
      BY <1>1, <1>3, <2>1
    <3> QED
      BY <1>1, <3>1
  <2>2. CASE p \in N /\ q \in M
    BY <1>1, <1>4, <2>2
  <2> QED
    BY <1>4, <2>1, <2>2 DEF Segment
<1>5. \A q \in (M \cup N) \cup {c} : q = a \/ \E p \in M \cup N : NEXT_BLKP(m, p) = q
  <2> SUFFICES ASSUME NEW q \in (M \cup N) \cup {c}, q # a
               PROVE  \E p \in M \cup N : NEXT_BLKP(m, p) = q
    OBVIOUS
  <2>1. CASE q \in M \cup {b}
    BY <2>1 DEF Segment
  <2>2. CASE q \in N \cup {c} /\ q # b
    BY <2>2 DEF Segment
  <2> QED
    BY <2>1, <2>2
<1> QED
  BY <1>1, <1>2, <1>4, <1>5 DEF Segment

\* A segment may be cut where a block begins.
LEMMA SegmentCut ==
    ASSUME NEW m, NEW a, NEW b, NEW c, NEW N, Segment(m, a, c, N), b \in N \cup {c}
    PROVE  /\ Segment(m, a, b, {p \in N : p < b})
           /\ Segment(m, b, c, {p \in N : p >= b})
<1> DEFINE L == {p \in N : p < b}
           H == {p \in N : p >= b}
<1>1. /\ a \in Int /\ b \in Int /\ c \in Int /\ a <= b /\ b <= c
      /\ N \subseteq a..c-1 /\ a \in N \cup {c}
  BY DEF Segment
<1>2. \A p \in N : /\ p \in Int /\ p < NEXT_BLKP(m, p) /\ NEXT_BLKP(m, p) \in Int
                   /\ NEXT_BLKP(m, p) \in N \cup {c}
  BY <1>1 DEF Segment, NEXT_BLKP
<1>3. \A p \in L : NEXT_BLKP(m, p) <= b
  <2> SUFFICES ASSUME NEW p \in L PROVE NEXT_BLKP(m, p) <= b
    OBVIOUS
  <2>1. CASE b \in N
    BY <2>1 DEF Segment
  <2>2. CASE b = c
    BY <1>1, <1>2, <2>2
  <2> QED
    BY <2>1, <2>2
<1>4. Segment(m, a, b, L)
  <2>1. a \in L \cup {b} /\ L \subseteq a..b-1
    <3>1. a = b \/ (a < b /\ a # c)
      BY <1>1
    <3>2. \A p \in L : p \in a..b-1
      BY <1>1
    <3> QED
      BY <1>1, <3>1, <3>2
  <2>2. \A p \in L : NEXT_BLKP(m, p) \in L \cup {b}
    BY <1>1, <1>2, <1>3
  <2>3. \A q \in L \cup {b} : q = a \/ \E p \in L : NEXT_BLKP(m, p) = q
    <3> SUFFICES ASSUME NEW q \in L \cup {b}, q # a PROVE \E p \in L : NEXT_BLKP(m, p) = q
      OBVIOUS
    <3>1. PICK p \in N : NEXT_BLKP(m, p) = q
      BY DEF Segment
    <3>2. p < b
      BY <1>1, <1>2, <3>1
    <3> QED
      BY <3>1, <3>2
  <2> QED
    BY <1>1, <2>1, <2>2, <2>3 DEF Segment
<1>5. Segment(m, b, c, H)
  <2>1. b \in H \cup {c} /\ H \subseteq b..c-1
    <3>1. \A p \in H : p \in b..c-1
      BY <1>1
    <3>2. b \in N => b \in H
      BY <1>1
    <3> QED
      BY <3>1, <3>2
  <2>2. \A p \in H : NEXT_BLKP(m, p) \in H \cup {c}
    BY <1>1, <1>2
  <2>3. \A q \in H \cup {c} : q = b \/ \E p \in H : NEXT_BLKP(m, p) = q
    <3> SUFFICES ASSUME NEW q \in H \cup {c}, q # b PROVE \E p \in H : NEXT_BLKP(m, p) = q
      OBVIOUS
    <3>1. q > b /\ q # a
      BY <1>1
    <3>2. PICK p \in N : NEXT_BLKP(m, p) = q
      BY <3>1 DEF Segment
    <3>3. ~(p < b)
      BY <1>1, <1>2, <1>3, <3>1, <3>2
    <3> QED
      BY <1>1, <1>2, <3>2, <3>3
  <2> QED
    BY <1>1, <2>1, <2>2, <2>3 DEF Segment
<1> QED
  BY <1>4, <1>5

\* Only the tags of its blocks make a segment.
LEMMA SegmentKept ==
    ASSUME NEW m, NEW n, NEW a, NEW b, NEW N, Segment(m, a, b, N),
           \A p \in N : n[p-1] = m[p-1] /\ n[FTRP(m, p)] = m[FTRP(m, p)]
    PROVE  Segment(n, a, b, N)
<1>1. \A p \in N : Size(n, p) = Size(m, p) /\ FTRP(n, p) = FTRP(m, p)
                   /\ NEXT_BLKP(n, p) = NEXT_BLKP(m, p)
  BY DEF Size, FTRP, NEXT_BLKP
<1> QED
  BY <1>1 DEF Segment

\* One block with its tags.
LEMMA OneBlock ==
    ASSUME NEW m, NEW p \in Int, NEW size \in Int, NEW alloc \in {0, 1},
           p % 2 = 0, size % 2 = 0, size >= 4,
           m[p-1] = size + alloc, m[p+size-2] = size + alloc
    PROVE  /\ Segment(m, p, p + size, {p})
           /\ Size(m, p) = size
           /\ IsFree(m, p) <=> alloc = 0
<1>1. Size(m, p) = size /\ (IsFree(m, p) <=> alloc = 0)
  BY TagParts DEF Size, IsFree
<1>2. FTRP(m, p) = p + size - 2 /\ NEXT_BLKP(m, p) = p + size
  BY <1>1 DEF FTRP, NEXT_BLKP
<1> QED
  BY <1>1, <1>2 DEF Segment

-----------------------------------------------------------------------------
\* The walk of BlocksFrom, one step of it.  The function that it defines exists:
\* it is the least set that is closed under the steps.
LEMMA WalkStep ==
    ASSUME NEW m \in Memory, NEW p \in Int
    PROVE  /\ p - 1 \notin HeapArea \/ Size(m, p) <= 0 => BlocksFrom(m, p) = {}
           /\ p - 1 \in HeapArea /\ ~(Size(m, p) <= 0) =>
                  BlocksFrom(m, p) = {p} \cup BlocksFrom(m, NEXT_BLKP(m, p))
<1> DEFINE ends(x) == x - 1 \notin HeapArea \/ Size(m, x) <= 0
           next(x) == NEXT_BLKP(m, x)
           closed(C) == \A x \in C : ~ends(x) => next(x) \in C
           W == [x \in Int |-> {y \in Int : ~ends(y) /\ \A C \in SUBSET Int :
                                     x \in C /\ closed(C) => y \in C}]
           F == CHOOSE f : f = [x \in Int |-> IF x - 1 \notin HeapArea \/ Size(m, x) <= 0 THEN {}
                                             ELSE {x} \cup f[NEXT_BLKP(m, x)]]
<1>1. \A x \in Int : ~ends(x) => next(x) \in Int
  <2> SUFFICES ASSUME NEW x \in Int, ~ends(x) PROVE next(x) \in Int
    OBVIOUS
  <2>1. x - 1 \in Addr
    BY DEF Addr
  <2>2. m[x-1] \in Int
    BY <2>1 DEF Memory
  <2> QED
    BY <2>2 DEF NEXT_BLKP, Size, TagSize
<1> HIDE DEF ends, next
<1>2. \A x \in Int : W[x] = IF ends(x) THEN {} ELSE {x} \cup W[next(x)]
  <2> SUFFICES ASSUME NEW x \in Int
               PROVE  W[x] = IF ends(x) THEN {} ELSE {x} \cup W[next(x)]
    OBVIOUS
  <2>1. CASE ends(x)
    <3>1. closed({x}) /\ {x} \in SUBSET Int
      BY <2>1
    <3>2. \A y \in W[x] : y \in {x}
      BY <3>1
    <3>3. \A y \in W[x] : ~ends(y)
      OBVIOUS
    <3> QED
      BY <2>1, <3>2, <3>3
  <2>2. CASE ~ends(x)
    <3>1. next(x) \in Int
      BY <1>1, <2>2
    <3>2. x \in W[x]
      BY <2>2
    <3>3. ASSUME NEW y \in W[next(x)] PROVE y \in W[x]
      <4>1. y \in Int /\ ~ends(y) /\ \A C \in SUBSET Int : next(x) \in C /\ closed(C) => y \in C
        BY <3>1
      <4>2. \A C \in SUBSET Int : x \in C /\ closed(C) => y \in C
        BY <2>2, <4>1
      <4> QED
        BY <4>1, <4>2
    <3>4. ASSUME NEW y \in W[x], y # x PROVE y \in W[next(x)]
      <4>1. y \in Int /\ ~ends(y) /\ \A C \in SUBSET Int : x \in C /\ closed(C) => y \in C
        OBVIOUS
      <4>2. ASSUME NEW C \in SUBSET Int, next(x) \in C, closed(C) PROVE y \in C
        <5>1. C \cup {x} \in SUBSET Int /\ closed(C \cup {x})
          BY <4>2
        <5>2. y \in C \cup {x}
          BY <4>1, <5>1
        <5> QED
          BY <3>4, <5>2
      <4> QED
        BY <3>1, <4>1, <4>2
    <3> HIDE DEF W
    <3>5. W[x] = {x} \cup W[next(x)]
      BY <3>2, <3>3, <3>4
    <3> QED
      BY <2>2, <3>5
  <2> QED
    BY <2>1, <2>2
<1>3. W = [x \in Int |-> IF ends(x) THEN {} ELSE {x} \cup W[next(x)]]
  <2> HIDE DEF closed
  <2>1. W = [x \in Int |-> W[x]]
    OBVIOUS
  <2> HIDE DEF W
  <2> QED
    BY <1>2, <2>1, Zenon
<1> HIDE DEF W
<1>4. F = [x \in Int |-> IF ends(x) THEN {} ELSE {x} \cup F[next(x)]]
  BY <1>3, Zenon DEF ends, next
<1>5. \A x : BlocksFrom(m, x) = F[x]
  BY Zenon DEF BlocksFrom
<1> HIDE DEF F
<1>6. F[p] = IF ends(p) THEN {} ELSE {p} \cup F[next(p)]
  BY <1>4
<1>7. BlocksFrom(m, p) = IF ends(p) THEN {} ELSE {p} \cup BlocksFrom(m, next(p))
  BY <1>5, <1>6
<1> QED
  BY <1>7 DEF ends, next

\* In a segment that ends with an empty tag, the walk from a block meets that
\* block and those behind it.
LEMMA WalkOfSegment ==
    ASSUME NEW m \in Memory, NEW lo, NEW hi, NEW N, Segment(m, lo, hi, N),
           lo - 1 \in HeapArea, hi - 1 \in HeapArea, Size(m, hi) = 0
    PROVE  \A p \in N \cup {hi} : BlocksFrom(m, p) = {q \in N : q >= p}
<1>1. /\ lo \in Int /\ hi \in Int /\ lo <= hi /\ N \subseteq lo..hi-1
      /\ Start \in Int /\ HeapWords \in Nat /\ lo > Start
  BY HeapAssumption DEF Segment, HeapArea, Start
<1>2. \A p \in N : /\ p \in Int /\ p < hi /\ NEXT_BLKP(m, p) \in N \cup {hi} /\ NEXT_BLKP(m, p) > p
                   /\ Size(m, p) > 0 /\ p - 1 \in HeapArea
  BY <1>1 DEF Segment, NEXT_BLKP, HeapArea
<1> DEFINE T == {k \in Nat : \A p \in N \cup {hi} : p >= hi - k => BlocksFrom(m, p) = {q \in N : q >= p}}
<1>3. 0 \in T /\ BlocksFrom(m, hi) = {q \in N : q >= hi}
  <2>1. \A p \in N \cup {hi} : p >= hi - 0 => p = hi
    BY <1>1
  <2>2. BlocksFrom(m, hi) = {}
    BY <1>1, WalkStep
  <2>3. \A q \in N : ~(q >= hi)
    BY <1>1
  <2>4. {q \in N : q >= hi} = {}
    BY <2>3
  <2> QED
    BY <2>1, <2>2, <2>4
<1>4. ASSUME NEW k \in Nat, k \in T PROVE k + 1 \in T
  <2> SUFFICES ASSUME NEW p \in N \cup {hi}, p >= hi - (k + 1)
               PROVE  BlocksFrom(m, p) = {q \in N : q >= p}
    OBVIOUS
  <2>1. CASE p = hi
    BY <1>3, <2>1
  <2>2. CASE p \in N
    <3> DEFINE r == NEXT_BLKP(m, p)
    <3>1. r \in N \cup {hi} /\ r > p /\ r \in Int /\ p \in Int
      BY <1>1, <1>2, <2>2
    <3>2. BlocksFrom(m, r) = {q \in N : q >= r}
      <4>1. r >= hi - k
        BY <1>1, <3>1
      <4> QED
        BY <1>4, <3>1, <4>1
    <3>3. BlocksFrom(m, p) = {p} \cup BlocksFrom(m, r)
      <4>1. p - 1 \in HeapArea /\ ~(Size(m, p) <= 0)
        <5>1. Size(m, p) \in Int /\ Size(m, p) >= 4
          BY <2>2 DEF Segment
        <5> QED
          BY <1>2, <2>2, <5>1
      <4> QED
        BY <3>1, <4>1, WalkStep
    <3>4. \A q \in N : q >= p <=> q = p \/ q >= r
      <4> SUFFICES ASSUME NEW q \in N PROVE q >= p <=> q = p \/ q >= r
        OBVIOUS
      <4>1. p < q => r <= q
        BY <2>2 DEF Segment
      <4> QED
        BY <1>1, <3>1, <4>1
    <3> HIDE DEF r
    <3> QED
      BY <2>2, <3>2, <3>3, <3>4
  <2> QED
    BY <2>1, <2>2
<1>5. \A n \in Nat : n \in T
  <2> SUFFICES ASSUME NEW n \in Nat PROVE n \in T
    OBVIOUS
  <2> HIDE DEF T
  <2>1. 0..n \subseteq T
    BY <1>3, <1>4, UpTo
  <2> QED
    BY <2>1
<1>6. \A p \in N \cup {hi} : p >= hi - (hi - lo) /\ hi - lo \in Nat
  BY <1>1
<1> QED
  BY <1>5, <1>6

-----------------------------------------------------------------------------
\* Where things are in a heap.
LEMMA LayoutFacts ==
    ASSUME NEW m, NEW end, NEW B, Layout(m, end, B)
    PROVE  /\ Start = 2 /\ heap_listp = 4 /\ First = 6
           /\ end \in Int /\ 6 <= end /\ end <= 2 + HeapWords
           /\ 2..end-1 \subseteq HeapArea /\ 2..end-1 \subseteq Addr
           /\ B \subseteq 6..end-1 /\ end \notin B
           /\ \A p \in B : /\ p \in Int /\ p % 2 = 0 /\ Size(m, p) \in Int /\ Size(m, p) >= 4
                           /\ NEXT_BLKP(m, p) = p + Size(m, p)
                           /\ NEXT_BLKP(m, p) \in B \cup {end}
                           /\ NEXT_BLKP(m, p) <= end /\ NEXT_BLKP(m, p) \in Int
                           /\ FTRP(m, p) = p + Size(m, p) - 2
                           /\ m[p-1] \in Int /\ m[FTRP(m, p)] = m[p-1]
           /\ \A p, q \in B : p < q => NEXT_BLKP(m, p) <= q
           /\ ~IsFree(m, end) /\ Size(m, end) = 0
<1>1. Start = 2 /\ heap_listp = 4 /\ First = 6 /\ HeapWords \in Nat
  BY HeapAssumption DEF Start, heap_listp, First
<1>2. /\ end \in Int /\ 6 <= end /\ end <= 2 + HeapWords /\ B \subseteq 6..end-1
      /\ \A p, q \in B : p < q => NEXT_BLKP(m, p) <= q
  BY <1>1 DEF Layout, Segment
<1>3. 2..end-1 \subseteq HeapArea /\ 2..end-1 \subseteq Addr
  BY <1>1, <1>2 DEF HeapArea, Addr
<1>4. ASSUME NEW p \in B
      PROVE  /\ p \in Int /\ p % 2 = 0 /\ Size(m, p) \in Int /\ Size(m, p) >= 4
             /\ NEXT_BLKP(m, p) = p + Size(m, p)
             /\ NEXT_BLKP(m, p) \in B \cup {end}
             /\ NEXT_BLKP(m, p) <= end /\ NEXT_BLKP(m, p) \in Int
             /\ FTRP(m, p) = p + Size(m, p) - 2
             /\ m[p-1] \in Int /\ m[FTRP(m, p)] = m[p-1]
  <2>1. /\ p \in 6..end-1 /\ p % 2 = 0 /\ Size(m, p) \in Int /\ Size(m, p) >= 4
        /\ NEXT_BLKP(m, p) \in B \cup {end} /\ m[FTRP(m, p)] = m[p-1]
    BY <1>2 DEF Layout, Segment
  <2>2. \A q \in B \cup {end} : q \in Int /\ q <= end
    BY <1>2
  <2>3. p - 1 \in Addr
    BY <1>2, <1>3, <2>1
  <2>4. m[p-1] \in Int
    BY <2>3 DEF Layout, Memory
  <2> QED
    BY <2>1, <2>2, <2>4 DEF FTRP, NEXT_BLKP
<1>5. end \notin B
  BY <1>2
<1>6. ~IsFree(m, end) /\ Size(m, end) = 0
  BY DEF Layout, IsFree, Size, TagSize
<1> QED
  BY <1>1, <1>2, <1>3, <1>4, <1>5, <1>6

\* The blocks of a heap are those that the walk from the prologue meets.
LEMMA BlocksOfLayout ==
    ASSUME NEW m, NEW end, NEW B, Layout(m, end, B)
    PROVE  /\ NEXT_BLKP(m, heap_listp) = First
           /\ BlocksFrom(m, First) = B
           /\ BlocksFrom(m, heap_listp) = {heap_listp} \cup B
           /\ \A p \in B : BlocksFrom(m, p) = {q \in B : q >= p}
<1>1. NEXT_BLKP(m, heap_listp) = First /\ Size(m, heap_listp) = 2
  BY DEF Layout, NEXT_BLKP, Size, TagSize, First, heap_listp, Start
<1>2. m \in Memory /\ Segment(m, First, end, B)
  BY DEF Layout
<1>3. First - 1 \in HeapArea /\ end - 1 \in HeapArea /\ Size(m, end) = 0
  BY LayoutFacts
<1>4. \A p \in B \cup {end} : BlocksFrom(m, p) = {q \in B : q >= p}
  BY <1>2, <1>3, WalkOfSegment
<1>5. First \in B \cup {end} /\ \A q \in B : q >= First
  BY LayoutFacts DEF Layout, Segment
<1>6. {q \in B : q >= First} = B
  BY <1>5
<1>7. BlocksFrom(m, First) = B
  BY <1>4, <1>5, <1>6
<1>8. heap_listp - 1 \in HeapArea /\ heap_listp \in Int /\ ~(Size(m, heap_listp) <= 0)
  BY <1>1, LayoutFacts
<1>9. BlocksFrom(m, heap_listp) = {heap_listp} \cup BlocksFrom(m, NEXT_BLKP(m, heap_listp))
  BY <1>2, <1>8, WalkStep
<1> QED
  BY <1>1, <1>4, <1>7, <1>9

\* What a block that is held keeps.
LEMMA HeldTags ==
    ASSUME NEW m, NEW end, NEW B, Layout(m, end, B), NEW n, NEW p \in B, Held(m, n, p)
    PROVE  /\ Size(n, p) = Size(m, p) /\ IsFree(n, p) = IsFree(m, p)
           /\ NEXT_BLKP(n, p) = NEXT_BLKP(m, p) /\ FTRP(n, p) = FTRP(m, p)
           /\ n[p-1] = m[p-1]
<1>1. p - 1 \in p-1..FTRP(m, p)
  BY LayoutFacts
<1>2. n[p-1] = m[p-1]
  BY <1>1 DEF Held
<1> QED
  BY <1>2 DEF Size, IsFree, NEXT_BLKP, FTRP

\* The part of the heap from lo to hi is divided anew.
LEMMA Recut ==
    ASSUME NEW m, NEW end, NEW B, Layout(m, end, B), NEW n \in Memory, NEW N,
           NEW lo \in B, NEW hi \in B \cup {end}, lo < hi, Segment(n, lo, hi, N),
           \A a \in Addr : a \notin lo-1..hi-2 => n[a] = m[a]
    PROVE  /\ Layout(n, end, {p \in B : p < lo \/ p >= hi} \cup N)
           /\ \A p \in B : p < lo \/ p >= hi => Held(m, n, p)
<1>1. /\ end \in Int /\ 6 <= end /\ 2..end-1 \subseteq Addr /\ First = 6 /\ heap_listp = 4
      /\ lo \in Int /\ 6 <= lo /\ hi \in Int /\ hi <= end
  BY LayoutFacts
<1>2. ASSUME NEW p \in B, p < lo \/ p >= hi PROVE Held(m, n, p)
  <2>1. /\ p \in Int /\ 6 <= p /\ FTRP(m, p) = NEXT_BLKP(m, p) - 2 /\ NEXT_BLKP(m, p) <= end
        /\ NEXT_BLKP(m, p) \in Int /\ (p < lo => NEXT_BLKP(m, p) <= lo)
    BY LayoutFacts
  <2> SUFFICES ASSUME NEW a \in p-1..FTRP(m, p) PROVE n[a] = m[a]
    BY DEF Held
  <2>2. a \in Addr /\ a \notin lo-1..hi-2
    BY <1>1, <1>2, <2>1
  <2> QED
    BY <2>2
<1> DEFINE L == {p \in B : p < lo}
           H == {p \in {q \in B : q >= lo} : p >= hi}
<1>3. Segment(m, First, lo, L) /\ Segment(m, lo, end, {q \in B : q >= lo})
  BY SegmentCut DEF Layout
<1>4. hi \in {q \in B : q >= lo} \cup {end}
  BY <1>1
<1>5. Segment(m, hi, end, H)
  BY <1>3, <1>4, SegmentCut
<1>6. \A p \in B : Held(m, n, p) => n[p-1] = m[p-1] /\ n[FTRP(m, p)] = m[FTRP(m, p)]
  <2> SUFFICES ASSUME NEW p \in B, Held(m, n, p)
               PROVE  n[p-1] = m[p-1] /\ n[FTRP(m, p)] = m[FTRP(m, p)]
    OBVIOUS
  <2>1. p - 1 \in p-1..FTRP(m, p) /\ FTRP(m, p) \in p-1..FTRP(m, p)
    BY LayoutFacts
  <2> QED
    BY <2>1 DEF Held
<1>7. Segment(n, First, lo, L) /\ Segment(n, hi, end, H)
  <2>1. \A p \in L : n[p-1] = m[p-1] /\ n[FTRP(m, p)] = m[FTRP(m, p)]
    BY <1>2, <1>6
  <2>2. \A p \in H : n[p-1] = m[p-1] /\ n[FTRP(m, p)] = m[FTRP(m, p)]
    BY <1>2, <1>6
  <2> HIDE DEF L, H
  <2> QED
    BY <1>3, <1>5, <2>1, <2>2, SegmentKept
<1>8. Segment(n, First, end, (L \cup N) \cup H)
  <2> HIDE DEF L, H
  <2>1. Segment(n, First, hi, L \cup N)
    BY <1>7, SegmentsJoin
  <2> QED
    BY <1>7, <2>1, SegmentsJoin
<1>9. (L \cup N) \cup H = {p \in B : p < lo \/ p >= hi} \cup N
  BY <1>1, LayoutFacts
<1>10. n[heap_listp-1] = 3 /\ n[heap_listp] = 3 /\ n[end-1] = 1
  <2>1. /\ heap_listp - 1 \in Addr /\ heap_listp - 1 \notin lo-1..hi-2
        /\ heap_listp \in Addr /\ heap_listp \notin lo-1..hi-2
        /\ end - 1 \in Addr /\ end - 1 \notin lo-1..hi-2
    BY <1>1
  <2> QED
    BY <2>1 DEF Layout
<1>11. Layout(n, end, {p \in B : p < lo \/ p >= hi} \cup N)
  BY <1>8, <1>9, <1>10 DEF Layout
<1> QED
  BY <1>2, <1>11

-----------------------------------------------------------------------------
\* What is in front of a block: the prologue, which is no free block, or the
\* block that the footer there belongs to.
LEMMA InFront ==
    ASSUME NEW m, NEW end, NEW B, Layout(m, end, B), NEW bp \in B
    PROVE  \/ bp = First /\ ~PrevIsFree(m, bp) /\ \A p \in B : NEXT_BLKP(m, p) # bp
           \/ \E p \in B : /\ NEXT_BLKP(m, p) = bp /\ PREV_BLKP(m, bp) = p
                           /\ PrevIsFree(m, bp) <=> IsFree(m, p)
                           /\ \A q \in B : NEXT_BLKP(m, q) = bp => q = p
<1>0. First = 6 /\ heap_listp = 4
  BY LayoutFacts
<1>1. /\ First = 6 /\ heap_listp = 4 /\ m[3] = 3 /\ m[4] = 3
      /\ bp = First \/ \E p \in B : NEXT_BLKP(m, p) = bp
  <2>1. m[3] = 3 /\ m[4] = 3
    BY <1>0 DEF Layout
  <2>2. bp = First \/ \E p \in B : NEXT_BLKP(m, p) = bp
    BY DEF Layout, Segment
  <2> QED
    BY <1>0, <2>1, <2>2
<1>2. CASE bp = First
  <2>1. PREV_BLKP(m, bp) = 4
    BY <1>1, <1>2 DEF PREV_BLKP, TagSize
  <2>2. FTRP(m, 4) = 4
    BY <1>1 DEF FTRP, Size, TagSize
  <2>3. ~PrevIsFree(m, bp)
    BY <1>1, <2>1, <2>2 DEF PrevIsFree
  <2>4. \A p \in B : NEXT_BLKP(m, p) # bp
    <3> SUFFICES ASSUME NEW p \in B PROVE NEXT_BLKP(m, p) # bp
      OBVIOUS
    <3>1. p \in 6..end-1 /\ Size(m, p) \in Int /\ Size(m, p) >= 4 /\ NEXT_BLKP(m, p) = p + Size(m, p)
      BY LayoutFacts
    <3> QED
      BY <1>1, <1>2, <3>1
  <2> QED
    BY <1>2, <2>3, <2>4
<1>3. ASSUME NEW p \in B, NEXT_BLKP(m, p) = bp
      PROVE  /\ PREV_BLKP(m, bp) = p
             /\ PrevIsFree(m, bp) <=> IsFree(m, p)
             /\ \A q \in B : NEXT_BLKP(m, q) = bp => q = p
  <2>1. /\ p \in Int /\ bp \in Int /\ Size(m, p) \in Int /\ bp = p + Size(m, p)
        /\ FTRP(m, p) = bp - 2 /\ m[bp-2] = m[p-1]
    BY <1>3, LayoutFacts
  <2>2. PREV_BLKP(m, bp) = p
    BY <2>1 DEF PREV_BLKP, Size
  <2>3. PrevIsFree(m, bp) <=> IsFree(m, p)
    BY <2>1, <2>2 DEF PrevIsFree, IsFree
  <2>4. ASSUME NEW q \in B, NEXT_BLKP(m, q) = bp PROVE q = p
    <3>1. q \in Int /\ q < bp /\ p < bp
      BY <1>3, <2>4, LayoutFacts
    <3>2. ~(q < p) /\ ~(p < q)
      BY <1>3, <2>4, <3>1, LayoutFacts
    <3> QED
      BY <2>1, <3>1, <3>2
  <2> QED
    BY <2>2, <2>3, <2>4
<1> QED
  BY <1>1, <1>2, <1>3

\* No two neighbours are free, but for bp and a neighbour of it.
NearlyApart(m, B, bp) ==
    \A p \in B : IsFree(m, p) /\ IsFree(m, NEXT_BLKP(m, p)) => p = bp \/ NEXT_BLKP(m, p) = bp

\* What coalesce puts together: from a block that no free block is in front of
\* to a block that is not free, and nothing between them is in use.
LEMMA MergedPart ==
    ASSUME NEW m, NEW end, NEW B, Layout(m, end, B), NEW bp \in B, IsFree(m, bp),
           NearlyApart(m, B, bp)
    PROVE  LET lo == MergedStart(m, bp)
               hi == lo + MergedSize(m, bp)
           IN  /\ lo \in B /\ hi \in B \cup {end} /\ lo <= bp /\ bp < hi
               /\ MergedSize(m, bp) \in Int /\ MergedSize(m, bp) % 2 = 0 /\ MergedSize(m, bp) >= 4
               /\ \A p \in B : lo <= p /\ p < hi => IsFree(m, p)
               /\ \A p \in B : NEXT_BLKP(m, p) = lo => ~IsFree(m, p)
               /\ ~IsFree(m, hi)
<1> DEFINE lo == MergedStart(m, bp)
           size == MergedSize(m, bp)
           next == NEXT_BLKP(m, bp)
           hi == IF NextIsFree(m, bp) THEN NEXT_BLKP(m, next) ELSE next
<1>0. \/ bp = First /\ ~PrevIsFree(m, bp) /\ \A p \in B : NEXT_BLKP(m, p) # bp
      \/ \E p \in B : /\ NEXT_BLKP(m, p) = bp /\ PREV_BLKP(m, bp) = p
                      /\ PrevIsFree(m, bp) <=> IsFree(m, p)
                      /\ \A q \in B : NEXT_BLKP(m, q) = bp => q = p
  BY InFront
<1>1. /\ bp \in Int /\ bp % 2 = 0 /\ next \in B \cup {end} /\ next = bp + Size(m, bp)
      /\ Size(m, bp) \in Int /\ Size(m, bp) >= 4 /\ next \in Int /\ end \in Int /\ end % 2 = 0
  BY LayoutFacts DEF Layout
<1>2. NextIsFree(m, bp) <=> IsFree(m, next)
  BY DEF NextIsFree
<1>3. /\ hi \in B \cup {end} /\ ~IsFree(m, hi) /\ hi \in Int /\ hi >= next
      /\ hi = next + (IF NextIsFree(m, bp) THEN Size(m, next) ELSE 0)
      /\ \A p \in B : bp <= p /\ p < hi => p = bp \/ (p = next /\ NextIsFree(m, bp))
  <2>1. CASE NextIsFree(m, bp)
    <3>1. next \in B /\ next # bp
      BY <1>1, <1>2, <2>1, LayoutFacts
    <3>2. /\ hi = NEXT_BLKP(m, next) /\ hi \in B \cup {end} /\ hi \in Int /\ hi = next + Size(m, next)
          /\ Size(m, next) \in Int /\ Size(m, next) >= 4
      BY <2>1, <3>1, LayoutFacts
    <3>3. ~IsFree(m, hi)
      BY <1>1, <1>2, <2>1, <3>1, <3>2 DEF NearlyApart
    <3>4. ASSUME NEW p \in B, bp <= p, p < hi PROVE p = bp \/ p = next
      <4>1. p \in Int /\ (bp < p => next <= p) /\ (next < p => hi <= p)
        BY <3>1, <3>2, LayoutFacts
      <4> QED
        BY <1>1, <3>2, <3>4, <4>1
    <3> HIDE DEF hi
    <3> QED
      BY <1>1, <2>1, <3>2, <3>3, <3>4
  <2>2. CASE ~NextIsFree(m, bp)
    <3>1. hi = next /\ ~IsFree(m, hi)
      BY <1>2, <2>2
    <3>2. ASSUME NEW p \in B, bp <= p, p < hi PROVE p = bp
      <4>1. p \in Int /\ (bp < p => next <= p)
        BY LayoutFacts
      <4> QED
        BY <1>1, <3>1, <3>2, <4>1
    <3> HIDE DEF hi
    <3> QED
      BY <1>1, <2>2, <3>1, <3>2
  <2> QED
    BY <2>1, <2>2
<1>4. /\ lo \in B /\ lo \in Int /\ lo <= bp /\ lo % 2 = 0
      /\ bp = lo + (IF PrevIsFree(m, bp) THEN Size(m, PREV_BLKP(m, bp)) ELSE 0)
      /\ \A p \in B : NEXT_BLKP(m, p) = lo => ~IsFree(m, p)
      /\ \A p \in B : lo <= p /\ p < bp => IsFree(m, p)
  <2>1. CASE ~PrevIsFree(m, bp)
    <3>1. lo = bp
      BY <2>1 DEF MergedStart
    <3>2. \A p \in B : NEXT_BLKP(m, p) = bp => ~IsFree(m, p)
      BY <1>0, <2>1, Zenon
    <3>3. \A p \in B : p \in Int
      BY LayoutFacts
    <3> HIDE DEF lo
    <3> QED
      BY <1>1, <2>1, <3>1, <3>2, <3>3
  <2>2. CASE PrevIsFree(m, bp)
    <3>1. PICK p \in B : /\ NEXT_BLKP(m, p) = bp /\ PREV_BLKP(m, bp) = p /\ IsFree(m, p)
      BY <1>0, <2>2, Zenon
    <3>2. lo = p
      BY <2>2, <3>1 DEF MergedStart
    <3>3. /\ p \in Int /\ p % 2 = 0 /\ Size(m, p) \in Int /\ Size(m, p) >= 4 /\ bp = p + Size(m, p)
      BY <3>1, LayoutFacts
    <3>4. ASSUME NEW q \in B, NEXT_BLKP(m, q) = p PROVE ~IsFree(m, q)
      <4>1. q \in Int /\ Size(m, q) \in Int /\ Size(m, q) >= 4 /\ p = q + Size(m, q)
        BY <3>4, LayoutFacts
      <4>2. q # bp /\ p # bp
        BY <3>3, <4>1
      <4> QED
        BY <3>1, <3>4, <4>2 DEF NearlyApart
    <3>5. ASSUME NEW q \in B, p <= q, q < bp PROVE q = p
      <4>1. q \in Int /\ (p < q => bp <= q)
        BY <3>1, LayoutFacts
      <4> QED
        BY <1>1, <3>3, <3>5, <4>1
    <3> HIDE DEF lo
    <3> QED
      BY <2>2, <3>1, <3>2, <3>3, <3>4, <3>5
  <2> QED
    BY <2>1, <2>2
<1>5. size = hi - lo
  <2> DEFINE a == IF PrevIsFree(m, bp) THEN Size(m, PREV_BLKP(m, bp)) ELSE 0
             b == IF NextIsFree(m, bp) THEN Size(m, next) ELSE 0
  <2>1. size = Size(m, bp) + a + b
    BY DEF MergedSize
  <2>2. bp = lo + a /\ hi = next + b /\ a = bp - lo /\ b = hi - next
    <3>1. a \in Int
      <4>1. PrevIsFree(m, bp) => PREV_BLKP(m, bp) \in B
        BY <1>0, Zenon
      <4>2. PrevIsFree(m, bp) => Size(m, PREV_BLKP(m, bp)) \in Int
        BY <4>1, LayoutFacts
      <4> QED
        BY <4>2
    <3>2. b \in Int
      <4>1. next \in B \/ ~NextIsFree(m, bp)
        BY <1>1, <1>2, LayoutFacts
      <4> QED
        BY <4>1, LayoutFacts
    <3>3. bp = lo + a /\ hi = next + b
      BY <1>3, <1>4, Zenon
    <3>4. bp \in Int /\ lo \in Int /\ hi \in Int /\ next \in Int
      BY <1>1, <1>3, <1>4
    <3> HIDE DEF a, b, lo, hi, next, size
    <3> QED
      BY <3>1, <3>2, <3>3, <3>4
  <2> HIDE DEF a, b, lo, hi, next, size
  <2> QED
    BY <1>1, <1>3, <1>4, <2>1, <2>2
<1>6. hi % 2 = 0 /\ bp < hi
  <2>1. hi \in B => hi % 2 = 0
    BY LayoutFacts
  <2> HIDE DEF hi, next
  <2> QED
    BY <1>1, <1>3, <2>1
<1>7. \A p \in B : lo <= p /\ p < hi => IsFree(m, p)
  <2> SUFFICES ASSUME NEW p \in B, lo <= p, p < hi PROVE IsFree(m, p)
    OBVIOUS
  <2>1. p \in Int
    BY LayoutFacts
  <2> HIDE DEF lo, hi, next
  <2>2. CASE p < bp
    BY <1>4, <2>2
  <2>3. CASE bp <= p
    BY <1>2, <1>3, <2>3
  <2> QED
    BY <1>1, <2>1, <2>2, <2>3
<1>8. size \in Int /\ size % 2 = 0 /\ size >= 4 /\ lo + size = hi
  <2> HIDE DEF lo, hi, next, size
  <2>1. lo \in Int /\ hi \in Int /\ lo % 2 = 0 /\ hi % 2 = 0
    BY <1>3, <1>4, <1>6
  <2>2. lo + 4 <= hi
    BY <1>1, <1>3, <1>4
  <2>3. (hi - lo) % 2 = 0
    BY <2>1
  <2> QED
    BY <1>5, <2>1, <2>2, <2>3
<1> HIDE DEF hi, next
<1> QED
  BY <1>3, <1>4, <1>6, <1>7, <1>8

-----------------------------------------------------------------------------
\* What a call leaves of the blocks B: each one that is in use and not out is
\* still there, and so is what it holds; used blocks that are new are in new.
Leaves(m, B, n, C, out, new) ==
    /\ \A p \in B \ out : ~IsFree(m, p) => p \in C /\ ~IsFree(n, p) /\ Held(m, n, p)
    /\ \A p \in C : ~IsFree(n, p) => p \in new \/ (p \in B \ out /\ ~IsFree(m, p))

\* coalesce leaves a heap in which no two neighbours are free.
LEMMA Merged ==
    ASSUME NEW m, NEW end, NEW B, Layout(m, end, B), NEW bp \in B, IsFree(m, bp),
           NearlyApart(m, B, bp)
    PROVE  LET lo == MergedStart(m, bp)
               hi == lo + MergedSize(m, bp)
               n == PutMerged(m, bp)
               C == {p \in B : p < lo \/ p >= hi} \cup {lo}
           IN  /\ Layout(n, end, C) /\ Apart(n, C) /\ Leaves(m, B, n, C, {}, {})
               /\ lo \in B /\ lo \in Int /\ hi \in Int /\ IsFree(n, lo)
               /\ Size(n, lo) >= Size(m, bp)
<1> DEFINE lo == MergedStart(m, bp)
           size == MergedSize(m, bp)
           hi == lo + size
           n == PutMerged(m, bp)
           C == {p \in B : p < lo \/ p >= hi} \cup {lo}
<1>1. /\ lo \in B /\ hi \in B \cup {end} /\ lo <= bp /\ bp < hi
      /\ size \in Int /\ size % 2 = 0 /\ size >= 4
      /\ \A p \in B : lo <= p /\ p < hi => IsFree(m, p)
      /\ \A p \in B : NEXT_BLKP(m, p) = lo => ~IsFree(m, p)
      /\ ~IsFree(m, hi)
  BY MergedPart
<1>2. /\ lo \in Int /\ lo % 2 = 0 /\ 6 <= lo /\ end \in Int /\ bp \in Int
      /\ 2..end-1 \subseteq Addr /\ m \in Memory
      /\ \A p \in B : p \in Int /\ p <= end
  BY <1>1, LayoutFacts DEF Layout
<1>3. hi \in Int /\ hi <= end /\ lo < hi /\ lo - 1 \in Addr /\ lo + size - 2 \in Addr
  <2> HIDE DEF lo, size
  <2> QED
    BY <1>1, <1>2
<1>4. /\ n \in Memory /\ n[lo-1] = size + 0 /\ n[lo+size-2] = size + 0
      /\ \A a \in Addr : a # lo - 1 /\ a # lo + size - 2 => n[a] = m[a]
  <2>1. n = PutTags(m, lo, size, 0)
    BY DEF PutMerged
  <2> HIDE DEF n, lo, size
  <2>2. PICK z \in {0, 1} : z = 0
    OBVIOUS
  <2>3. /\ PutTags(m, lo, size, z) \in Memory
        /\ PutTags(m, lo, size, z)[lo-1] = size + z
        /\ PutTags(m, lo, size, z)[lo+size-2] = size + z
        /\ \A a \in Addr : a # lo - 1 /\ a # lo + size - 2 =>
                  PutTags(m, lo, size, z)[a] = m[a]
    BY <1>1, <1>2, <1>3, PutTagsIs
  <2> QED
    BY <2>1, <2>2, <2>3
<1>5. Segment(n, lo, hi, {lo}) /\ Size(n, lo) = size /\ IsFree(n, lo)
  <2> HIDE DEF n, lo, size
  <2>1. PICK z \in {0, 1} : z = 0
    OBVIOUS
  <2>2. n[lo-1] = size + z /\ n[lo+size-2] = size + z
    BY <1>4, <2>1
  <2>3. Segment(n, lo, lo + size, {lo}) /\ Size(n, lo) = size /\ (IsFree(n, lo) <=> z = 0)
    BY <1>1, <1>2, <2>2, OneBlock
  <2> QED
    BY <2>1, <2>3
<1>6. /\ Layout(n, end, C)
      /\ \A p \in B : p < lo \/ p >= hi => Held(m, n, p)
  <2>1. \A a \in Addr : a \notin lo-1..hi-2 => n[a] = m[a]
    <3> HIDE DEF n, lo, size
    <3> QED
      BY <1>1, <1>2, <1>3, <1>4
  <2> HIDE DEF n, lo, hi
  <2> QED
    BY <1>1, <1>3, <1>4, <1>5, <2>1, Recut
<1>7. \A p \in B : p < lo \/ p >= hi =>
          /\ IsFree(n, p) = IsFree(m, p) /\ NEXT_BLKP(n, p) = NEXT_BLKP(m, p)
  <2> HIDE DEF n, lo, hi
  <2> QED
    BY <1>6, HeldTags
<1>8. ~IsFree(n, hi) /\ NEXT_BLKP(n, lo) = hi
  <2>1. hi \in B => IsFree(n, hi) = IsFree(m, hi)
    BY <1>3, <1>7
  <2>2. ~IsFree(n, end)
    BY <1>6, LayoutFacts
  <2>3. NEXT_BLKP(n, lo) = hi
    BY <1>5 DEF NEXT_BLKP
  <2> HIDE DEF n, lo, hi
  <2> QED
    BY <1>1, <2>1, <2>2, <2>3
<1>9. Apart(n, C)
  <2> SUFFICES ASSUME NEW p \in C, IsFree(n, p), IsFree(n, NEXT_BLKP(n, p)) PROVE FALSE
    BY DEF Apart
  <2> DEFINE r == NEXT_BLKP(n, p)
  <2>1. p # lo /\ p \in B /\ (p < lo \/ p >= hi)
    <3> HIDE DEF n, lo, hi
    <3> QED
      BY <1>8
  <2>2. IsFree(m, p) /\ r = NEXT_BLKP(m, p)
    BY <1>7, <2>1
  <2>3. r \in C \cup {end} /\ r # end /\ r # hi
    <3>1. r \in C \cup {end} /\ ~IsFree(n, end)
      BY <1>6, LayoutFacts
    <3> HIDE DEF n, C, lo, hi
    <3> QED
      BY <1>8, <3>1
  <2>4. r # lo
    BY <1>1, <2>1, <2>2
  <2>5. r \in B /\ (r < lo \/ r >= hi)
    BY <2>3, <2>4
  <2>6. IsFree(m, r)
    BY <1>7, <2>5
  <2>7. p = bp \/ r = bp
    BY <2>1, <2>2, <2>6 DEF NearlyApart
  <2> HIDE DEF lo, hi, n, C, r
  <2> QED
    BY <1>1, <1>2, <1>3, <2>1, <2>5, <2>7
<1>10. Leaves(m, B, n, C, {}, {})
  <2>1. ASSUME NEW p \in B, ~IsFree(m, p) PROVE p \in C /\ ~IsFree(n, p) /\ Held(m, n, p)
    <3>1. p < lo \/ p >= hi
      <4> HIDE DEF lo, hi
      <4> QED
        BY <1>1, <1>2, <1>3, <2>1
    <3>2. p \in C
      BY <3>1
    <3> HIDE DEF lo, hi, n, C
    <3> QED
      BY <1>6, <1>7, <2>1, <3>1, <3>2
  <2>2. ASSUME NEW p \in C, ~IsFree(n, p) PROVE p \in B /\ ~IsFree(m, p)
    <3>1. p # lo
      <4> HIDE DEF n, lo
      <4> QED
        BY <1>5, <2>2
    <3>2. p \in B /\ (p < lo \/ p >= hi)
      BY <3>1
    <3> QED
      BY <1>7, <2>2, <3>2
  <2> HIDE DEF n, C
  <2> QED
    BY <2>1, <2>2 DEF Leaves
<1>11. size >= Size(m, bp)
  <2>1. hi \in B \/ hi = end
    BY <1>1
  <2>2. bp + Size(m, bp) <= hi /\ Size(m, bp) \in Int
    <3> HIDE DEF hi
    <3> QED
      BY <1>1, <1>3, <2>1, LayoutFacts
  <2> HIDE DEF lo, size
  <2> QED
    BY <1>1, <1>2, <2>2
<1>12. Size(n, lo) >= Size(m, bp)
  BY <1>5, <1>11
<1> QED
  BY <1>1, <1>2, <1>3, <1>5, <1>6, <1>9, <1>10, <1>12

-----------------------------------------------------------------------------
\* extend_heap, before it coalesces: one more block, and it is free.
LEMMA ExtendedIs ==
    ASSUME NEW m, NEW end, NEW B, Layout(m, end, B), Apart(m, B),
           NEW words \in Nat, words >= 3, CanExtend(end, words)
    PROVE  LET n == Extended(m, end, words)
               C == B \cup {end}
           IN  /\ Layout(n, end + EvenWords(words), C) /\ NearlyApart(n, C, end)
               /\ IsFree(n, end) /\ Size(n, end) >= words
               /\ Leaves(m, B, n, C, {}, {})
<1> DEFINE w == EvenWords(words)
           n == Extended(m, end, words)
           C == B \cup {end}
           t == PutTags(m, end, w, 0)
<1>1. w \in Nat /\ w % 2 = 0 /\ w >= 4 /\ w >= words /\ end + w <= Start + HeapWords
  BY DEF EvenWords, CanExtend
<1> HIDE DEF w
<1>2. /\ Start = 2 /\ First = 6 /\ heap_listp = 4 /\ end \in Int /\ 6 <= end /\ end % 2 = 0
      /\ m \in Memory /\ HeapWords \in Nat /\ 2..end+w-1 \subseteq Addr
  BY <1>1, LayoutFacts, HeapAssumption DEF Layout, Addr, HeapArea
<1>3. end - 1 \in Addr /\ end + w - 2 \in Addr /\ end + w - 1 \in Addr
  BY <1>1, <1>2
<1>4. /\ n \in Memory /\ n[end-1] = w /\ n[end+w-2] = w /\ n[end+w-1] = 1
      /\ \A a \in Addr : a < end - 1 => n[a] = m[a]
  <2>1. PICK z \in {0, 1} : z = 0
    OBVIOUS
  <2>2. /\ PutTags(m, end, w, z) \in Memory
        /\ PutTags(m, end, w, z)[end-1] = w + z
        /\ PutTags(m, end, w, z)[end+w-2] = w + z
        /\ \A a \in Addr : a # end - 1 /\ a # end + w - 2 =>
                  PutTags(m, end, w, z)[a] = m[a]
    BY <1>1, <1>2, <1>3, PutTagsIs
  <2>3. /\ t \in Memory /\ t[end-1] = w /\ t[end+w-2] = w
        /\ \A a \in Addr : a # end - 1 /\ a # end + w - 2 => t[a] = m[a]
    BY <1>1, <2>1, <2>2
  <2>4. n = [t EXCEPT ![end+w-1] = 1]
    BY DEF Extended, w
  <2> HIDE DEF n, t
  <2> QED
    BY <1>1, <1>2, <1>3, <2>3, <2>4 DEF Memory
<1> HIDE DEF n
<1>5. Segment(n, end, end + w, {end}) /\ Size(n, end) = w /\ IsFree(n, end)
  <2>1. PICK z \in {0, 1} : z = 0
    OBVIOUS
  <2>2. n[end-1] = w + z /\ n[end+w-2] = w + z
    BY <1>1, <1>4, <2>1
  <2>3. w \in Int
    BY <1>1
  <2>4. Segment(n, end, end + w, {end}) /\ Size(n, end) = w /\ (IsFree(n, end) <=> z = 0)
    BY <1>1, <1>2, <2>2, <2>3, OneBlock
  <2> QED
    BY <2>1, <2>4
<1>6. \A p \in B : Held(m, n, p)
  <2> SUFFICES ASSUME NEW p \in B, NEW a \in p-1..FTRP(m, p) PROVE n[a] = m[a]
    BY DEF Held
  <2>1. p \in Int /\ 6 <= p /\ FTRP(m, p) = NEXT_BLKP(m, p) - 2 /\ NEXT_BLKP(m, p) <= end
        /\ NEXT_BLKP(m, p) \in Int
    BY LayoutFacts
  <2>2. a \in Addr /\ a < end - 1
    BY <1>1, <1>2, <2>1
  <2> QED
    BY <1>4, <2>2
<1>7. \A p \in B : /\ IsFree(n, p) = IsFree(m, p) /\ NEXT_BLKP(n, p) = NEXT_BLKP(m, p)
                   /\ n[p-1] = m[p-1] /\ n[FTRP(m, p)] = m[FTRP(m, p)]
  <2> SUFFICES ASSUME NEW p \in B
               PROVE  /\ IsFree(n, p) = IsFree(m, p) /\ NEXT_BLKP(n, p) = NEXT_BLKP(m, p)
                      /\ n[p-1] = m[p-1] /\ n[FTRP(m, p)] = m[FTRP(m, p)]
    OBVIOUS
  <2>1. FTRP(m, p) \in p-1..FTRP(m, p)
    BY LayoutFacts
  <2> QED
    BY <1>6, <2>1, HeldTags DEF Held
<1>8. Layout(n, end + w, C)
  <2>1. Segment(n, First, end, B)
    BY <1>7, SegmentKept DEF Layout
  <2>2. Segment(n, First, end + w, C)
    BY <1>5, <2>1, SegmentsJoin
  <2>3. n[heap_listp-1] = 3 /\ n[heap_listp] = 3
    <3>1. heap_listp - 1 \in Addr /\ heap_listp \in Addr
          /\ heap_listp - 1 < end - 1 /\ heap_listp < end - 1
      BY <1>1, <1>2
    <3> QED
      BY <1>4, <3>1 DEF Layout
  <2>4. (end + w) % 2 = 0 /\ end + w <= Start + HeapWords /\ n[(end + w) - 1] = 1
    BY <1>1, <1>2, <1>4
  <2> QED
    BY <1>4, <2>2, <2>3, <2>4 DEF Layout
<1>9. NearlyApart(n, C, end)
  <2> SUFFICES ASSUME NEW p \in C, IsFree(n, p), IsFree(n, NEXT_BLKP(n, p)),
                      p # end, NEXT_BLKP(n, p) # end
               PROVE  FALSE
    BY DEF NearlyApart
  <2>1. p \in B /\ NEXT_BLKP(n, p) = NEXT_BLKP(m, p) /\ IsFree(m, p)
    BY <1>7
  <2>2. NEXT_BLKP(m, p) \in B
    BY <2>1, LayoutFacts
  <2>3. IsFree(m, NEXT_BLKP(m, p))
    BY <1>7, <2>1, <2>2
  <2> QED
    BY <2>1, <2>3 DEF Apart
<1>10. Leaves(m, B, n, C, {}, {})
  <2>1. \A p \in B : ~IsFree(m, p) => p \in C /\ ~IsFree(n, p) /\ Held(m, n, p)
    BY <1>6, <1>7
  <2>2. \A p \in C : ~IsFree(n, p) => p \in B /\ ~IsFree(m, p)
    BY <1>5, <1>7
  <2> QED
    BY <2>1, <2>2 DEF Leaves
<1>11. Size(n, end) >= words
  BY <1>1, <1>5
<1> QED
  BY <1>5, <1>8, <1>9, <1>10, <1>11 DEF n, w

-----------------------------------------------------------------------------
\* A free block, or the front of one, is taken: what is common to both.
LEMMA TakenFrom ==
    ASSUME NEW m, NEW end, NEW B, Layout(m, end, B), Apart(m, B),
           NEW bp \in B, IsFree(m, bp), NEW n \in Memory, NEW N,
           Segment(n, bp, NEXT_BLKP(m, bp), {bp} \cup N), ~IsFree(n, bp),
           \A p \in N : IsFree(n, p) /\ NEXT_BLKP(n, p) = NEXT_BLKP(m, bp),
           bp \notin N,
           \A a \in Addr : a \notin bp-1..FTRP(m, bp) => n[a] = m[a]
    PROVE  LET C == {p \in B : p # bp} \cup ({bp} \cup N)
           IN  Layout(n, end, C) /\ Apart(n, C) /\ Leaves(m, B, n, C, {bp}, {bp})
<1> DEFINE hi == NEXT_BLKP(m, bp)
           C == {p \in B : p # bp} \cup ({bp} \cup N)
           D == {p \in B : p < bp \/ p >= hi} \cup ({bp} \cup N)
<1>1. /\ bp \in Int /\ hi \in B \cup {end} /\ hi \in Int /\ bp < hi /\ FTRP(m, bp) = hi - 2
      /\ \A p \in B : p \in Int /\ (bp < p => hi <= p)
  BY LayoutFacts
<1>2. C = D
  <2>1. \A p \in B : p # bp <=> p < bp \/ p >= hi
    <3> HIDE DEF hi
    <3> QED
      BY <1>1
  <2> HIDE DEF hi
  <2> QED
    BY <2>1
<1>3. Layout(n, end, D) /\ \A p \in B : p < bp \/ p >= hi => Held(m, n, p)
  <2>1. \A a \in Addr : a \notin bp-1..hi-2 => n[a] = m[a]
    BY <1>1
  <2>2. Segment(n, bp, hi, {bp} \cup N)
    OBVIOUS
  <2> DEFINE M == {bp} \cup N
  <2> HIDE DEF hi, M
  <2>3. Segment(n, bp, hi, M)
    BY <2>2 DEF M
  <2>4. /\ Layout(n, end, {p \in B : p < bp \/ p >= hi} \cup M)
        /\ \A p \in B : p < bp \/ p >= hi => Held(m, n, p)
    BY <1>1, <2>1, <2>3, Recut
  <2> QED
    BY <2>4 DEF M
<1>4. Layout(n, end, C) /\ \A p \in B : p # bp => Held(m, n, p)
  <2>1. \A p \in B : p # bp => p < bp \/ p >= hi
    <3> HIDE DEF hi
    <3> QED
      BY <1>1
  <2> QED
    BY <1>2, <1>3, <2>1
<1>5. \A p \in B : p # bp => IsFree(n, p) = IsFree(m, p) /\ NEXT_BLKP(n, p) = NEXT_BLKP(m, p)
  BY <1>4, HeldTags
<1>6. ~IsFree(n, hi) /\ ~IsFree(m, hi)
  <2>1. ~IsFree(m, hi)
    BY DEF Apart
  <2>2. hi # bp
    BY <1>1
  <2>3. hi \in B => ~IsFree(n, hi)
    BY <1>5, <2>1, <2>2
  <2>4. ~IsFree(n, end)
    BY <1>4, LayoutFacts
  <2> HIDE DEF hi
  <2> QED
    BY <1>1, <2>1, <2>3, <2>4
<1>7. Apart(n, C)
  <2> SUFFICES ASSUME NEW p \in C, IsFree(n, p), IsFree(n, NEXT_BLKP(n, p)) PROVE FALSE
    BY DEF Apart
  <2>1. p # bp /\ p \notin N /\ p \in B
    BY <1>6
  <2>2. IsFree(m, p) /\ NEXT_BLKP(n, p) = NEXT_BLKP(m, p)
    BY <1>5, <2>1
  <2>3. NEXT_BLKP(m, p) \in B \cup {end} /\ ~IsFree(n, end)
    BY <1>4, <2>1, LayoutFacts
  <2>4. NEXT_BLKP(m, p) \in B /\ NEXT_BLKP(m, p) # bp
    BY <2>2, <2>3
  <2>5. IsFree(m, NEXT_BLKP(m, p))
    BY <1>5, <2>2, <2>4
  <2> QED
    BY <2>1, <2>2, <2>5 DEF Apart
<1>8. Leaves(m, B, n, C, {bp}, {bp})
  <2>1. \A p \in B \ {bp} : ~IsFree(m, p) => p \in C /\ ~IsFree(n, p) /\ Held(m, n, p)
    BY <1>4, <1>5
  <2>2. \A p \in C : ~IsFree(n, p) => p \in {bp} \/ (p \in B \ {bp} /\ ~IsFree(m, p))
    BY <1>5
  <2> QED
    BY <2>1, <2>2 DEF Leaves
<1> QED
  BY <1>4, <1>7, <1>8

\* place, when the remainder is too small to be a block.
LEMMA TakenWhole ==
    ASSUME NEW m, NEW end, NEW B, Layout(m, end, B), Apart(m, B), NEW bp \in B, IsFree(m, bp)
    PROVE  LET n == PutTags(m, bp, Size(m, bp), 1)
           IN  /\ Layout(n, end, B) /\ Apart(n, B) /\ Leaves(m, B, n, B, {bp}, {bp})
               /\ ~IsFree(n, bp) /\ Size(n, bp) = Size(m, bp)
<1> DEFINE size == Size(m, bp)
           n == PutTags(m, bp, size, 1)
<1>1. /\ bp \in Int /\ bp % 2 = 0 /\ size \in Int /\ size >= 4 /\ NEXT_BLKP(m, bp) = bp + size
      /\ FTRP(m, bp) = bp + size - 2 /\ bp + size <= end /\ 6 <= bp /\ end \in Int
      /\ 2..end-1 \subseteq Addr /\ m \in Memory
  BY LayoutFacts DEF Layout
<1>2. size % 2 = 0
  BY <1>1, LayoutFacts DEF Size, TagSize
<1> HIDE DEF size
<1>3. bp - 1 \in Addr /\ bp + size - 2 \in Addr
  BY <1>1
<1>4. PICK z \in {0, 1} : z = 1
  OBVIOUS
<1>5. /\ n \in Memory /\ n[bp-1] = size + z /\ n[bp+size-2] = size + z
      /\ \A a \in Addr : a # bp - 1 /\ a # bp + size - 2 => n[a] = m[a]
  BY <1>1, <1>3, <1>4, PutTagsIs
<1> HIDE DEF n
<1>6. Segment(n, bp, bp + size, {bp}) /\ Size(n, bp) = size /\ ~IsFree(n, bp)
  <2>1. Segment(n, bp, bp + size, {bp}) /\ Size(n, bp) = size /\ (IsFree(n, bp) <=> z = 0)
    BY <1>1, <1>2, <1>5, OneBlock
  <2> QED
    BY <1>4, <2>1
<1>7. Segment(n, bp, NEXT_BLKP(m, bp), {bp} \cup {})
  <2>1. {bp} \cup {} = {bp}
    OBVIOUS
  <2> QED
    BY <1>1, <1>6, <2>1
<1>8. \A a \in Addr : a \notin bp-1..FTRP(m, bp) => n[a] = m[a]
  BY <1>1, <1>5
<1> DEFINE N == {}
           C == {p \in B : p # bp} \cup ({bp} \cup N)
<1>9. C = B
  OBVIOUS
<1>10. \A p \in N : IsFree(n, p) /\ NEXT_BLKP(n, p) = NEXT_BLKP(m, bp)
  OBVIOUS
<1>11. bp \notin N /\ Segment(n, bp, NEXT_BLKP(m, bp), {bp} \cup N)
  BY <1>7
<1>12. Layout(n, end, C) /\ Apart(n, C) /\ Leaves(m, B, n, C, {bp}, {bp})
  <2> HIDE DEF N
  <2> QED
    BY <1>5, <1>6, <1>8, <1>10, <1>11, TakenFrom
<1> HIDE DEF C
<1>13. Layout(n, end, B) /\ Apart(n, B) /\ Leaves(m, B, n, B, {bp}, {bp})
  BY <1>9, <1>12
<1> QED
  BY <1>6, <1>13 DEF n, size

\* place, when the remainder becomes a free block.
LEMMA TakenFront ==
    ASSUME NEW m, NEW end, NEW B, Layout(m, end, B), Apart(m, B), NEW bp \in B, IsFree(m, bp),
           NEW asize \in Int, asize >= 4, asize % 2 = 0, Size(m, bp) - asize >= 4
    PROVE  LET n == PutTags(PutTags(m, bp, asize, 1), bp + asize, Size(m, bp) - asize, 0)
               C == {p \in B : p # bp} \cup ({bp} \cup {bp + asize})
           IN  /\ Layout(n, end, C) /\ Apart(n, C) /\ Leaves(m, B, n, C, {bp}, {bp})
               /\ ~IsFree(n, bp) /\ Size(n, bp) = asize
<1> DEFINE size == Size(m, bp)
           rest == size - asize
           mid == bp + asize
           t == PutTags(m, bp, asize, 1)
           n == PutTags(t, mid, rest, 0)
<1>1. /\ bp \in Int /\ bp % 2 = 0 /\ size \in Int /\ size >= 4 /\ NEXT_BLKP(m, bp) = bp + size
      /\ FTRP(m, bp) = bp + size - 2 /\ bp + size <= end /\ 6 <= bp /\ end \in Int
      /\ 2..end-1 \subseteq Addr /\ m \in Memory
  BY LayoutFacts DEF Layout
<1>2. size % 2 = 0
  BY <1>1, LayoutFacts DEF Size, TagSize
<1> HIDE DEF size
<1>3. /\ bp - 1 \in Addr /\ bp + asize - 2 \in Addr
      /\ mid \in Int /\ mid % 2 = 0 /\ rest \in Int /\ rest % 2 = 0 /\ rest >= 4
      /\ mid - 1 \in Addr /\ mid + rest - 2 \in Addr /\ mid + rest = bp + size
  <2>1. rest >= 4
    BY DEF size
  <2> QED
    BY <1>1, <1>2, <2>1
<1>4. PICK z \in {0, 1} : z = 1
  OBVIOUS
<1>5. PICK y \in {0, 1} : y = 0
  OBVIOUS
<1>6. /\ t \in Memory /\ t[bp-1] = asize + z /\ t[bp+asize-2] = asize + z
      /\ \A a \in Addr : a # bp - 1 /\ a # bp + asize - 2 => t[a] = m[a]
  BY <1>1, <1>3, <1>4, PutTagsIs
<1> HIDE DEF t, mid, rest
<1>7. /\ n \in Memory /\ n[mid-1] = rest + y /\ n[mid+rest-2] = rest + y
      /\ \A a \in Addr : a # mid - 1 /\ a # mid + rest - 2 => n[a] = t[a]
  BY <1>3, <1>5, <1>6, PutTagsIs
<1> HIDE DEF n
<1>8. n[bp-1] = asize + z /\ n[bp+asize-2] = asize + z
  <2>1. bp - 1 # mid - 1 /\ bp - 1 # mid + rest - 2 /\ bp + asize - 2 # mid - 1
        /\ bp + asize - 2 # mid + rest - 2
    BY <1>1, <1>3 DEF mid
  <2> QED
    BY <1>3, <1>6, <1>7, <2>1
<1>9. Segment(n, bp, mid, {bp}) /\ Size(n, bp) = asize /\ ~IsFree(n, bp)
  <2>1. Segment(n, bp, bp + asize, {bp}) /\ Size(n, bp) = asize /\ (IsFree(n, bp) <=> z = 0)
    <3>1. bp \in Int /\ bp % 2 = 0
      BY <1>1
    <3>2. PICK q \in Int : q = bp /\ q % 2 = 0
      BY <3>1
    <3>3. n[q-1] = asize + z /\ n[q+asize-2] = asize + z
      BY <1>8, <3>2
    <3>4. Segment(n, q, q + asize, {q}) /\ Size(n, q) = asize /\ (IsFree(n, q) <=> z = 0)
      BY <3>2, <3>3, OneBlock
    <3> QED
      BY <3>2, <3>4
  <2> QED
    BY <1>4, <2>1 DEF mid
<1>10. Segment(n, mid, mid + rest, {mid}) /\ Size(n, mid) = rest /\ IsFree(n, mid)
  <2>1. Segment(n, mid, mid + rest, {mid}) /\ Size(n, mid) = rest /\ (IsFree(n, mid) <=> y = 0)
    BY <1>3, <1>7, OneBlock
  <2> QED
    BY <1>5, <2>1
<1>11. Segment(n, bp, NEXT_BLKP(m, bp), {bp} \cup {mid})
  <2>1. Segment(n, bp, mid + rest, {bp} \cup {mid})
    BY <1>9, <1>10, SegmentsJoin
  <2> QED
    BY <1>1, <1>3, <2>1
<1>12. NEXT_BLKP(n, mid) = NEXT_BLKP(m, bp)
  BY <1>1, <1>3, <1>10 DEF NEXT_BLKP
<1>13. \A a \in Addr : a \notin bp-1..FTRP(m, bp) => n[a] = m[a]
  <2> SUFFICES ASSUME NEW a \in Addr, a \notin bp-1..FTRP(m, bp) PROVE n[a] = m[a]
    OBVIOUS
  <2>1. a \in Int
    BY HeapAssumption DEF Addr, HeapArea, Start
  <2>2. a # bp - 1 /\ a # bp + asize - 2 /\ a # mid - 1 /\ a # mid + rest - 2
    BY <1>1, <1>3, <2>1 DEF mid
  <2> QED
    BY <1>6, <1>7, <2>2
<1> DEFINE N == {mid}
           C == {p \in B : p # bp} \cup ({bp} \cup N)
<1>14. \A p \in N : IsFree(n, p) /\ NEXT_BLKP(n, p) = NEXT_BLKP(m, bp)
  BY <1>10, <1>12
<1>15. bp \notin N /\ Segment(n, bp, NEXT_BLKP(m, bp), {bp} \cup N)
  BY <1>1, <1>11 DEF mid
<1>16. Layout(n, end, C) /\ Apart(n, C) /\ Leaves(m, B, n, C, {bp}, {bp})
  <2> HIDE DEF N
  <2> QED
    BY <1>7, <1>9, <1>13, <1>14, <1>15, TakenFrom
<1> QED
  BY <1>9, <1>16 DEF n, t, mid, rest, size

-----------------------------------------------------------------------------
\* A block that is given back, before it is merged.
LEMMA Freed ==
    ASSUME NEW m, NEW end, NEW B, Layout(m, end, B), Apart(m, B), NEW bp \in B
    PROVE  LET n == PutTags(m, bp, Size(m, bp), 0)
           IN  /\ Layout(n, end, B) /\ NearlyApart(n, B, bp) /\ Leaves(m, B, n, B, {bp}, {})
               /\ IsFree(n, bp)
<1> DEFINE size == Size(m, bp)
           n == PutTags(m, bp, size, 0)
<1>1. /\ bp \in Int /\ bp % 2 = 0 /\ size \in Int /\ size >= 4 /\ NEXT_BLKP(m, bp) = bp + size
      /\ FTRP(m, bp) = bp + size - 2 /\ bp + size <= end /\ 6 <= bp /\ end \in Int
      /\ 2..end-1 \subseteq Addr /\ m \in Memory /\ NEXT_BLKP(m, bp) \in B \cup {end}
      /\ \A p \in B : p \in Int /\ (bp < p => NEXT_BLKP(m, bp) <= p)
  BY LayoutFacts DEF Layout
<1>2. size % 2 = 0
  BY <1>1, LayoutFacts DEF Size, TagSize
<1> HIDE DEF size
<1>3. bp - 1 \in Addr /\ bp + size - 2 \in Addr
  BY <1>1
<1>4. PICK z \in {0, 1} : z = 0
  OBVIOUS
<1>5. /\ n \in Memory /\ n[bp-1] = size + z /\ n[bp+size-2] = size + z
      /\ \A a \in Addr : a # bp - 1 /\ a # bp + size - 2 => n[a] = m[a]
  BY <1>1, <1>3, <1>4, PutTagsIs
<1> HIDE DEF n
<1> DEFINE hi == bp + size
<1>6. Segment(n, bp, hi, {bp}) /\ IsFree(n, bp)
  <2>1. Segment(n, bp, bp + size, {bp}) /\ Size(n, bp) = size /\ (IsFree(n, bp) <=> z = 0)
    BY <1>1, <1>2, <1>5, OneBlock
  <2> QED
    BY <1>4, <2>1
<1>7. \A a \in Addr : a \notin bp-1..hi-2 => n[a] = m[a]
  BY <1>1, <1>5
<1>8. hi \in B \cup {end} /\ bp < hi /\ \A p \in B : p # bp <=> p < bp \/ p >= hi
  BY <1>1
<1> HIDE DEF hi
<1>9. /\ Layout(n, end, {p \in B : p < bp \/ p >= hi} \cup {bp})
      /\ \A p \in B : p < bp \/ p >= hi => Held(m, n, p)
  BY <1>5, <1>6, <1>7, <1>8, Recut
<1>10. {p \in B : p < bp \/ p >= hi} \cup {bp} = B
  BY <1>8
<1>11. Layout(n, end, B) /\ \A p \in B : p # bp => Held(m, n, p)
  BY <1>8, <1>9, <1>10
<1>12. \A p \in B : p # bp => IsFree(n, p) = IsFree(m, p) /\ NEXT_BLKP(n, p) = NEXT_BLKP(m, p)
  BY <1>11, HeldTags
<1>13. NearlyApart(n, B, bp)
  <2> SUFFICES ASSUME NEW p \in B, IsFree(n, p), IsFree(n, NEXT_BLKP(n, p)),
                      p # bp, NEXT_BLKP(n, p) # bp
               PROVE  FALSE
    BY DEF NearlyApart
  <2>1. IsFree(m, p) /\ NEXT_BLKP(n, p) = NEXT_BLKP(m, p)
    BY <1>12
  <2>2. NEXT_BLKP(m, p) \in B \cup {end} /\ ~IsFree(n, end)
    BY <1>11, LayoutFacts
  <2>3. IsFree(m, NEXT_BLKP(m, p))
    BY <1>12, <2>1, <2>2
  <2> QED
    BY <2>1, <2>3 DEF Apart
<1>14. Leaves(m, B, n, B, {bp}, {})
  <2>1. \A p \in B \ {bp} : ~IsFree(m, p) => p \in B /\ ~IsFree(n, p) /\ Held(m, n, p)
    BY <1>11, <1>12
  <2>2. \A p \in B : ~IsFree(n, p) => p \in B \ {bp} /\ ~IsFree(m, p)
    BY <1>6, <1>12
  <2> QED
    BY <2>1, <2>2 DEF Leaves
<1> QED
  BY <1>6, <1>11, <1>13, <1>14 DEF n, size

-----------------------------------------------------------------------------
\* What is written into the payload of the blocks S.
LEMMA PayloadWritten ==
    ASSUME NEW m, NEW end, NEW B, Layout(m, end, B), Apart(m, B), NEW n \in Memory,
           NEW S \in SUBSET B,
           \A a \in Addr : n[a] = m[a] \/ \E p \in S : a \in p..FTRP(m, p)-1
    PROVE  /\ Layout(n, end, B) /\ Apart(n, B) /\ Leaves(m, B, n, B, S, S)
           /\ \A p \in B : IsFree(n, p) = IsFree(m, p) /\ Size(n, p) = Size(m, p)
           /\ \A p \in B \ S : Held(m, n, p)
<1>1. /\ end \in Int /\ 6 <= end /\ 2..end-1 \subseteq Addr /\ heap_listp = 4
      /\ \A p \in B : /\ p \in Int /\ 6 <= p /\ FTRP(m, p) \in Int /\ FTRP(m, p) <= end - 2
                      /\ p <= FTRP(m, p)
  <2>1. \A p \in B : /\ p \in Int /\ 6 <= p /\ Size(m, p) \in Int /\ Size(m, p) >= 4
                     /\ FTRP(m, p) = p + Size(m, p) - 2 /\ p + Size(m, p) <= end
    BY LayoutFacts
  <2> QED
    BY <2>1, LayoutFacts
<1>2. \A p, q \in B : p < q => FTRP(m, p) < q - 1
  <2> SUFFICES ASSUME NEW p \in B, NEW q \in B, p < q PROVE FTRP(m, p) < q - 1
    OBVIOUS
  <2>1. /\ p \in Int /\ q \in Int /\ Size(m, p) \in Int /\ FTRP(m, p) = p + Size(m, p) - 2
        /\ NEXT_BLKP(m, p) = p + Size(m, p) /\ NEXT_BLKP(m, p) <= q
    BY LayoutFacts
  <2> QED
    BY <2>1
<1>3. \A p \in B : n[p-1] = m[p-1] /\ n[FTRP(m, p)] = m[FTRP(m, p)]
  <2> SUFFICES ASSUME NEW p \in B PROVE n[p-1] = m[p-1] /\ n[FTRP(m, p)] = m[FTRP(m, p)]
    OBVIOUS
  <2>1. p - 1 \in Addr /\ FTRP(m, p) \in Addr
    BY <1>1
  <2>2. \A q \in S : p - 1 \notin q..FTRP(m, q)-1 /\ FTRP(m, p) \notin q..FTRP(m, q)-1
    <3> SUFFICES ASSUME NEW q \in S
                 PROVE  p - 1 \notin q..FTRP(m, q)-1 /\ FTRP(m, p) \notin q..FTRP(m, q)-1
      OBVIOUS
    <3>1. q \in B /\ q \in Int /\ p \in Int
      BY <1>1
    <3>2. (p < q => FTRP(m, p) < q - 1) /\ (q < p => FTRP(m, q) < p - 1)
      BY <1>2, <3>1
    <3>3. p = q \/ p < q \/ q < p
      BY <3>1
    <3> QED
      BY <1>1, <3>1, <3>2, <3>3
  <2> QED
    BY <2>1, <2>2
<1>4. \A p \in B : /\ IsFree(n, p) = IsFree(m, p) /\ Size(n, p) = Size(m, p)
                   /\ NEXT_BLKP(n, p) = NEXT_BLKP(m, p)
  BY <1>3 DEF IsFree, Size, NEXT_BLKP
<1>5. Layout(n, end, B)
  <2>1. Segment(n, First, end, B)
    BY <1>3, SegmentKept DEF Layout
  <2>2. n[heap_listp-1] = 3 /\ n[heap_listp] = 3 /\ n[end-1] = 1
    <3>1. heap_listp - 1 \in Addr /\ heap_listp \in Addr /\ end - 1 \in Addr
      BY <1>1
    <3>2. \A q \in S : heap_listp < q /\ FTRP(m, q) <= end - 2 /\ q \in Int /\ FTRP(m, q) \in Int
      BY <1>1
    <3>3. \A q \in S : /\ heap_listp - 1 \notin q..FTRP(m, q)-1 /\ heap_listp \notin q..FTRP(m, q)-1
                       /\ end - 1 \notin q..FTRP(m, q)-1
      BY <1>1, <3>2
    <3> QED
      BY <3>1, <3>3 DEF Layout
  <2> QED
    BY <2>1, <2>2 DEF Layout
<1>6. Apart(n, B)
  <2> SUFFICES ASSUME NEW p \in B, IsFree(n, p), IsFree(n, NEXT_BLKP(n, p)) PROVE FALSE
    BY DEF Apart
  <2>1. IsFree(m, p) /\ NEXT_BLKP(n, p) = NEXT_BLKP(m, p)
    BY <1>4
  <2>2. NEXT_BLKP(m, p) \in B \cup {end} /\ ~IsFree(n, end)
    BY <1>5, LayoutFacts
  <2>3. IsFree(m, NEXT_BLKP(m, p))
    BY <1>4, <2>1, <2>2
  <2> QED
    BY <2>1, <2>3 DEF Apart
<1>7. \A p \in B \ S : Held(m, n, p)
  <2> SUFFICES ASSUME NEW p \in B \ S, NEW a \in p-1..FTRP(m, p) PROVE n[a] = m[a]
    BY DEF Held
  <2>1. a \in Addr
    BY <1>1
  <2>2. \A q \in S : a \notin q..FTRP(m, q)-1
    <3> SUFFICES ASSUME NEW q \in S PROVE a \notin q..FTRP(m, q)-1
      OBVIOUS
    <3>1. q \in B /\ q \in Int /\ p \in Int /\ p # q
      BY <1>1
    <3>2. (p < q => FTRP(m, p) < q - 1) /\ (q < p => FTRP(m, q) < p - 1)
      BY <1>2, <3>1
    <3>3. p < q \/ q < p
      BY <3>1
    <3> QED
      BY <1>1, <3>1, <3>2, <3>3
  <2> QED
    BY <2>1, <2>2
<1>8. Leaves(m, B, n, B, S, S)
  <2>1. \A p \in B \ S : ~IsFree(m, p) => p \in B /\ ~IsFree(n, p) /\ Held(m, n, p)
    BY <1>4, <1>7
  <2>2. \A p \in B : ~IsFree(n, p) => p \in S \/ (p \in B \ S /\ ~IsFree(m, p))
    BY <1>4
  <2> QED
    BY <2>1, <2>2 DEF Leaves
<1> QED
  BY <1>4, <1>5, <1>6, <1>7, <1>8

\* Scrubbing touches no tag and no block that is in use.
LEMMA ScrubbedIs ==
    ASSUME NEW m, NEW end, NEW B, Layout(m, end, B), Apart(m, B), NEW links \in Nat
    PROVE  LET n == Scrubbed(m, links)
           IN  /\ Layout(n, end, B) /\ Apart(n, B) /\ Leaves(m, B, n, B, {}, {})
               /\ \A p \in B : IsFree(n, p) = IsFree(m, p) /\ Size(n, p) = Size(m, p)
<1> DEFINE n == Scrubbed(m, links)
           S == {p \in B : IsFree(m, p)}
           interior == UNION {bp+links..FTRP(m, bp)-1 : bp \in S}
<1>1. NEXT_BLKP(m, heap_listp) = First /\ BlocksFrom(m, First) = B
  BY BlocksOfLayout
<1>2. BlocksFrom(m, NEXT_BLKP(m, heap_listp)) = B
  BY <1>1
<1>3. n = [a \in Addr |-> IF a \in interior THEN 0 ELSE m[a]]
  BY <1>2 DEF Scrubbed
<1>4. m \in Memory
  BY DEF Layout
<1>5. \A a \in Addr : n[a] = m[a] \/ \E p \in S : a \in p..FTRP(m, p)-1
  <2> SUFFICES ASSUME NEW a \in Addr, n[a] # m[a] PROVE \E p \in S : a \in p..FTRP(m, p)-1
    OBVIOUS
  <2>1. a \in interior
    <3> HIDE DEF interior, n
    <3> QED
      BY <1>3
  <2>2. PICK p \in S : a \in p+links..FTRP(m, p)-1
    BY <2>1
  <2>3. p \in Int /\ FTRP(m, p) \in Int
    <3>1. p \in Int /\ Size(m, p) \in Int /\ FTRP(m, p) = p + Size(m, p) - 2
      BY LayoutFacts
    <3> QED
      BY <3>1
  <2> QED
    BY <2>2, <2>3
<1>6. n \in Memory
  <2> HIDE DEF interior
  <2> QED
    BY <1>3, <1>4 DEF Memory
<1>7. S \in SUBSET B
  OBVIOUS
<1> HIDE DEF n
<1>8. /\ Layout(n, end, B) /\ Apart(n, B)
      /\ \A p \in B : IsFree(n, p) = IsFree(m, p) /\ Size(n, p) = Size(m, p)
      /\ \A p \in B \ S : Held(m, n, p)
  <2> HIDE DEF S
  <2> QED
    BY <1>5, <1>6, <1>7, PayloadWritten
<1>9. Leaves(m, B, n, B, {}, {})
  BY <1>8 DEF Leaves
<1> QED
  BY <1>8, <1>9 DEF n

\* Two steps of a call, one after the other.
LEMMA LeavesThen ==
    ASSUME NEW m, NEW end, NEW B, Layout(m, end, B), NEW n, NEW C, NEW o, NEW D,
           NEW out1, NEW new1, NEW out2, NEW new2,
           Leaves(m, B, n, C, out1, new1), Leaves(n, C, o, D, out2, new2)
    PROVE  Leaves(m, B, o, D, out1 \cup out2, (new1 \ out2) \cup new2)
<1>1. ASSUME NEW p \in B \ (out1 \cup out2), ~IsFree(m, p)
      PROVE  p \in D /\ ~IsFree(o, p) /\ Held(m, o, p)
  <2>1. p \in C /\ ~IsFree(n, p) /\ Held(m, n, p)
    BY <1>1 DEF Leaves
  <2>2. p \in D /\ ~IsFree(o, p) /\ Held(n, o, p)
    BY <1>1, <2>1 DEF Leaves
  <2>3. FTRP(n, p) = FTRP(m, p)
    BY <2>1, HeldTags
  <2>4. Held(m, o, p)
    BY <2>1, <2>2, <2>3 DEF Held
  <2> QED
    BY <2>2, <2>4
<1>2. ASSUME NEW p \in D, ~IsFree(o, p)
      PROVE  p \in (new1 \ out2) \cup new2 \/ (p \in B \ (out1 \cup out2) /\ ~IsFree(m, p))
  <2>1. p \in new2 \/ (p \in C \ out2 /\ ~IsFree(n, p))
    BY <1>2 DEF Leaves
  <2>2. p \in C /\ ~IsFree(n, p) => p \in new1 \/ (p \in B \ out1 /\ ~IsFree(m, p))
    BY DEF Leaves
  <2> QED
    BY <2>1, <2>2
<1> QED
  BY <1>1, <1>2 DEF Leaves

-----------------------------------------------------------------------------
\* n words at p of the memory o: as far as was they are those at q of m, the
\* others are the stamp.
Payload(o, p, n, m, q, was, stamp) ==
    \A k \in 1..n : IF k <= was THEN o[p+k-1] = m[q+k-1] ELSE o[p+k-1] = stamp

\* Between two calls: the tags are in order, and the blocks in use are those of
\* the calling program, one for each, with room for what was asked.
HeapInv ==
    /\ Layout(mem, brk, Blocks) /\ Apart(mem, Blocks) /\ brk # First
    /\ blocks \in [Ids -> Int] /\ sizes \in [Ids -> Nat]
    /\ \A id \in Ids : blocks[id] = Null => sizes[id] = 0
    /\ \A id \in Live : /\ blocks[id] \in Blocks /\ ~IsFree(mem, blocks[id])
                        /\ sizes[id] + 2 <= Size(mem, blocks[id])
    /\ \A id, other \in Live : blocks[id] = blocks[other] => id = other
    /\ \A p \in Blocks : ~IsFree(mem, p) => \E id \in Live : blocks[id] = p

\* What follows for the heap as mm_checkheap and the driver look at it.
LEMMA HeapIsSound ==
    ASSUME HeapInv
    PROVE  TagsSound
<1> DEFINE used == {p \in Blocks : ~IsFree(mem, p)}
<1>1. Layout(mem, brk, Blocks) /\ Apart(mem, Blocks)
  BY DEF HeapInv
<1>2. /\ Start + 4 <= brk /\ brk <= Start + HeapWords
      /\ mem[heap_listp-1] = 3 /\ mem[heap_listp] = 3 /\ mem[brk-1] = 1
  BY <1>1, LayoutFacts DEF Layout
<1>3. \E p \in Blocks : NEXT_BLKP(mem, p) = brk
  <2>1. brk # First
    BY DEF HeapInv
  <2> QED
    BY <1>1, <2>1 DEF Layout, Segment
<1>4. \A p \in Blocks :
        /\ p % 2 = 0 /\ Size(mem, p) >= 4 /\ NEXT_BLKP(mem, p) <= brk
        /\ mem[FTRP(mem, p)] = mem[p-1]
        /\ IsFree(mem, p) => ~NextIsFree(mem, p)
  BY <1>1, LayoutFacts DEF Apart, NextIsFree
<1>5. used = {blocks[id] : id \in Live}
  <2>1. \A p \in used : p \in {blocks[id] : id \in Live}
    BY DEF HeapInv
  <2>2. \A id \in Live : blocks[id] \in used
    BY DEF HeapInv
  <2> QED
    BY <2>1, <2>2
<1>6. Cardinality(used) = Cardinality(Live)
  <2>1. IsFiniteSet(Live)
    BY HeapAssumption, FS_Subset DEF Live
  <2> DEFINE f == [id \in Live |-> blocks[id]]
  <2>2. f \in Bijection(Live, used)
    <3>1. f \in [Live -> used]
      BY <1>5
    <3>2. \A id, other \in Live : f[id] = f[other] => id = other
      BY DEF HeapInv
    <3>3. \A p \in used : \E id \in Live : f[id] = p
      BY DEF HeapInv
    <3> HIDE DEF f, used
    <3> QED
      BY <3>1, <3>2, <3>3, Fun_IsBij
  <2>3. ExistsBijection(Live, used)
    BY <2>2 DEF ExistsBijection
  <2> QED
    BY <2>1, <2>3, FS_Bijection
<1>7. \A id \in Live : sizes[id] + 2 <= Size(mem, blocks[id])
  BY DEF HeapInv
<1> QED
  BY <1>2, <1>3, <1>4, <1>5, <1>6, <1>7 DEF TagsSound

\* The greatest element, where there is one.
LEMMA GreatestIs ==
    ASSUME NEW S \in SUBSET Int, NEW x \in S, \A y \in S : y <= x
    PROVE  Max(S) = x
<1> DEFINE c == CHOOSE z \in S : \A y \in S : z >= y
<1>1. \A y \in S : x >= y
  OBVIOUS
<1>2. c \in S /\ \A y \in S : c >= y
  BY <1>1, Zenon
<1> HIDE DEF c
<1>3. c = x
  BY <1>1, <1>2
<1> QED
  BY <1>3 DEF c, Max

\* The least element of a set of naturals.
LEMMA LeastIn ==
    ASSUME NEW S \in SUBSET Nat, S # {}
    PROVE  Min(S) \in S /\ \A y \in S : Min(S) <= y
<1> DEFINE c == CHOOSE z \in S : \A y \in S : z <= y
<1>1. \E z \in S : \A y \in S : z <= y
  BY LeastElement
<1>2. c \in S /\ \A y \in S : c <= y
  BY <1>1, Zenon
<1> QED
  BY <1>2 DEF Min

\* mm_checkheap finds a heap in order.
LEMMA NothingToReport ==
    ASSUME HeapInv
    PROVE  CheckTags(mem)
<1>1. Layout(mem, brk, Blocks) /\ brk # First
  BY DEF HeapInv
<1>2. BlocksFrom(mem, heap_listp) = {heap_listp} \cup Blocks
  BY <1>1, BlocksOfLayout
<1> DEFINE all == {heap_listp} \cup Blocks
<1>3. PICK last \in Blocks : NEXT_BLKP(mem, last) = brk
  BY <1>1 DEF Layout, Segment
<1>4. Max(all) = last
  <2>1. \A p \in all : p \in Int /\ p <= last
    <3> SUFFICES ASSUME NEW p \in all PROVE p \in Int /\ p <= last
      OBVIOUS
    <3>1. last \in Int /\ 6 <= last /\ heap_listp = 4
      BY <1>1, LayoutFacts
    <3>2. CASE p = heap_listp
      BY <3>1, <3>2
    <3>3. CASE p \in Blocks
      <4>1. p \in Int /\ p < brk /\ brk \in Int
        BY <1>1, <3>3, LayoutFacts
      <4>2. last < p => brk <= p
        BY <1>1, <1>3, <3>3, LayoutFacts
      <4> QED
        BY <3>1, <4>1, <4>2
    <3> QED
      BY <3>2, <3>3
  <2>2. all \in SUBSET Int
    BY <2>1
  <2> QED
    BY <2>1, <2>2, GreatestIs
<1>5. Size(mem, heap_listp) = 2 /\ ~IsFree(mem, heap_listp)
  BY <1>1 DEF Layout, Size, TagSize, IsFree
<1>6. \A bp \in all : CheckBlock(mem, bp)
  <2>1. CheckBlock(mem, heap_listp)
    <3>1. heap_listp = 4 /\ FTRP(mem, heap_listp) = 4
      BY <1>1, <1>5, LayoutFacts DEF FTRP
    <3>2. mem[heap_listp-1] = mem[FTRP(mem, heap_listp)]
      BY <1>1, <3>1 DEF Layout
    <3> QED
      BY <3>1, <3>2 DEF CheckBlock
  <2>2. \A p \in Blocks : CheckBlock(mem, p)
    BY <1>1, LayoutFacts DEF CheckBlock
  <2> QED
    BY <2>1, <2>2
<1>7. Size(mem, brk) = 0 /\ ~IsFree(mem, brk)
  BY <1>1, LayoutFacts
<1> HIDE DEF all
<1> QED
  BY <1>2, <1>3, <1>4, <1>5, <1>6, <1>7 DEF CheckTags, all

-----------------------------------------------------------------------------
\* The words that the calling program uses of a block are payload.
LEMMA PayloadOf ==
    ASSUME HeapInv, NEW id \in Live, NEW k \in 1..sizes[id]
    PROVE  /\ blocks[id] + k - 1 \in blocks[id]-1..FTRP(mem, blocks[id])
           /\ blocks[id] + k - 1 \in Addr
<1>1. /\ Layout(mem, brk, Blocks) /\ blocks[id] \in Blocks /\ id \in Ids
      /\ sizes[id] \in Nat /\ sizes[id] + 2 <= Size(mem, blocks[id])
  BY DEF HeapInv, Live
<1>2. /\ blocks[id] \in Int /\ Size(mem, blocks[id]) \in Int /\ 6 <= blocks[id]
      /\ FTRP(mem, blocks[id]) = blocks[id] + Size(mem, blocks[id]) - 2
      /\ blocks[id] + Size(mem, blocks[id]) <= brk /\ brk \in Int /\ 2..brk-1 \subseteq Addr
  BY <1>1, LayoutFacts
<1> QED
  BY <1>1, <1>2

\* id is given a block of its own, in place of the one that it had.
LEMMA GivenStep ==
    ASSUME HeapInv, NEW C, Layout(mem', brk', C), Apart(mem', C), brk' # First,
           NEW id \in Ids, NEW n \in Nat, NEW p \in C, n # 0,
           ~IsFree(mem', p), n + 2 <= Size(mem', p),
           Leaves(mem, Blocks, mem', C, {blocks[id], p}, {p}),
           \A q \in Blocks : ~IsFree(mem, q) => q # p,
           Owns(id, p, n)
    PROVE  HeapInv'
<1>1. Blocks' = C
  BY BlocksOfLayout DEF Blocks
<1>2. blocks' \in [Ids -> Int] /\ sizes' \in [Ids -> Nat]
  <2>1. p \in Int
    BY LayoutFacts
  <2> QED
    BY <2>1 DEF HeapInv, Owns
<1>3. /\ blocks'[id] = p /\ sizes'[id] = n
      /\ \A other \in Ids \ {id} : blocks'[other] = blocks[other] /\ sizes'[other] = sizes[other]
  BY DEF HeapInv, Owns
<1>4. p # Null
  BY LayoutFacts DEF Null
<1>5. Live' = Live \cup {id} /\ id \in Live'
  BY <1>3, <1>4 DEF Live
<1>6. \A other \in Live \ {id} :
          /\ other \in Ids /\ blocks'[other] = blocks[other] /\ sizes'[other] = sizes[other]
          /\ blocks[other] \in C /\ ~IsFree(mem', blocks[other])
          /\ sizes[other] + 2 <= Size(mem', blocks[other])
          /\ blocks[other] # p
  <2> SUFFICES ASSUME NEW other \in Live \ {id}
               PROVE  /\ other \in Ids /\ blocks'[other] = blocks[other]
                      /\ sizes'[other] = sizes[other]
                      /\ blocks[other] \in C /\ ~IsFree(mem', blocks[other])
                      /\ sizes[other] + 2 <= Size(mem', blocks[other])
                      /\ blocks[other] # p
    OBVIOUS
  <2>1. /\ other \in Ids /\ blocks[other] \in Blocks /\ ~IsFree(mem, blocks[other])
        /\ sizes[other] + 2 <= Size(mem, blocks[other])
    BY DEF HeapInv, Live
  <2>2. blocks[other] # blocks[id]
    <3>1. CASE id \in Live
      BY <3>1 DEF HeapInv
    <3>2. CASE id \notin Live
      BY <3>2 DEF Live
    <3> QED
      BY <3>1, <3>2
  <2>3. blocks[other] # p
    BY <2>1
  <2>4. /\ blocks[other] \in C /\ ~IsFree(mem', blocks[other])
        /\ Held(mem, mem', blocks[other])
    BY <2>1, <2>2, <2>3 DEF Leaves
  <2>5. Size(mem', blocks[other]) = Size(mem, blocks[other])
    BY <2>1, <2>4, HeldTags DEF HeapInv
  <2> QED
    BY <1>3, <2>1, <2>3, <2>4, <2>5
<1>7. \A o \in Ids : blocks'[o] = Null => sizes'[o] = 0
  BY <1>3, <1>4 DEF HeapInv
<1>8. \A o \in Live' : /\ blocks'[o] \in C /\ ~IsFree(mem', blocks'[o])
                       /\ sizes'[o] + 2 <= Size(mem', blocks'[o])
  BY <1>3, <1>5, <1>6
<1>9. \A o, other \in Live' : blocks'[o] = blocks'[other] => o = other
  <2> SUFFICES ASSUME NEW o \in Live', NEW other \in Live', blocks'[o] = blocks'[other], o # other
               PROVE  FALSE
    OBVIOUS
  <2>1. CASE o # id /\ other # id
    BY <1>5, <1>6, <2>1 DEF HeapInv
  <2>2. CASE o = id \/ other = id
    BY <1>3, <1>5, <1>6, <2>2
  <2> QED
    BY <2>1, <2>2
<1>10. \A q \in C : ~IsFree(mem', q) => \E o \in Live' : blocks'[o] = q
  <2> SUFFICES ASSUME NEW q \in C, ~IsFree(mem', q) PROVE \E o \in Live' : blocks'[o] = q
    OBVIOUS
  <2>1. CASE q = p
    BY <1>3, <1>5, <2>1
  <2>2. CASE q # p
    <3>1. q \in Blocks \ {blocks[id], p} /\ ~IsFree(mem, q)
      BY <2>2 DEF Leaves
    <3>2. PICK o \in Live : blocks[o] = q
      BY <3>1 DEF HeapInv
    <3>3. o # id
      BY <3>1, <3>2
    <3> QED
      BY <1>5, <1>6, <3>2, <3>3
  <2> QED
    BY <2>1, <2>2
<1> QED
  BY <1>1, <1>2, <1>7, <1>8, <1>9, <1>10 DEF HeapInv

\* id gives its block back.
LEMMA ReturnedStep ==
    ASSUME HeapInv, NEW C, Layout(mem', brk', C), Apart(mem', C), brk' # First,
           NEW id \in Live, Leaves(mem, Blocks, mem', C, {blocks[id]}, {}),
           Owns(id, Null, 0)
    PROVE  HeapInv'
<1>1. Blocks' = C
  BY BlocksOfLayout DEF Blocks
<1>2. blocks' \in [Ids -> Int] /\ sizes' \in [Ids -> Nat] /\ id \in Ids
  BY DEF HeapInv, Owns, Null, Live
<1>3. /\ blocks'[id] = Null /\ sizes'[id] = 0
      /\ \A other \in Ids \ {id} : blocks'[other] = blocks[other] /\ sizes'[other] = sizes[other]
  BY <1>2 DEF HeapInv, Owns
<1>4. Live' = Live \ {id}
  BY <1>3 DEF Live
<1>5. \A other \in Live \ {id} :
          /\ other \in Ids /\ blocks'[other] = blocks[other] /\ sizes'[other] = sizes[other]
          /\ blocks[other] \in C /\ ~IsFree(mem', blocks[other])
          /\ sizes[other] + 2 <= Size(mem', blocks[other])
  <2> SUFFICES ASSUME NEW other \in Live \ {id}
               PROVE  /\ other \in Ids /\ blocks'[other] = blocks[other]
                      /\ sizes'[other] = sizes[other]
                      /\ blocks[other] \in C /\ ~IsFree(mem', blocks[other])
                      /\ sizes[other] + 2 <= Size(mem', blocks[other])
    OBVIOUS
  <2>1. /\ other \in Ids /\ blocks[other] \in Blocks /\ ~IsFree(mem, blocks[other])
        /\ sizes[other] + 2 <= Size(mem, blocks[other]) /\ blocks[other] # blocks[id]
    BY DEF HeapInv, Live
  <2>2. /\ blocks[other] \in C /\ ~IsFree(mem', blocks[other])
        /\ Held(mem, mem', blocks[other])
    BY <2>1 DEF Leaves
  <2>3. Size(mem', blocks[other]) = Size(mem, blocks[other])
    BY <2>1, <2>2, HeldTags DEF HeapInv
  <2> QED
    BY <1>3, <2>1, <2>2, <2>3
<1>6. \A o \in Ids : blocks'[o] = Null => sizes'[o] = 0
  BY <1>3 DEF HeapInv
<1>7. \A o \in Live' : /\ blocks'[o] \in C /\ ~IsFree(mem', blocks'[o])
                       /\ sizes'[o] + 2 <= Size(mem', blocks'[o])
  BY <1>4, <1>5
<1>8. \A o, other \in Live' : blocks'[o] = blocks'[other] => o = other
  BY <1>4, <1>5 DEF HeapInv
<1>9. \A q \in C : ~IsFree(mem', q) => \E o \in Live' : blocks'[o] = q
  <2> SUFFICES ASSUME NEW q \in C, ~IsFree(mem', q) PROVE \E o \in Live' : blocks'[o] = q
    OBVIOUS
  <2>1. q \in Blocks \ {blocks[id]} /\ ~IsFree(mem, q)
    BY DEF Leaves
  <2>2. PICK o \in Live : blocks[o] = q
    BY <2>1 DEF HeapInv
  <2> QED
    BY <1>4, <1>5, <2>1, <2>2
<1> QED
  BY <1>1, <1>2, <1>6, <1>7, <1>8, <1>9 DEF HeapInv

-----------------------------------------------------------------------------
\* What is in the block of another is what was in it.
LEMMA OthersKept ==
    ASSUME HeapInv, NEW id \in Ids, NEW C, NEW out, NEW new, blocks[id] \in out,
           Leaves(mem, Blocks, mem', C, out, new),
           \A other \in Live \ {id} : blocks[other] \notin out,
           NEW other \in Ids \ {id}, blocks'[other] = blocks[other], sizes'[other] = sizes[other]
    PROVE  Contents'[other] = Contents[other]
<1>1. /\ Contents'[other] = [k \in 1..sizes'[other] |-> mem'[blocks'[other] + k - 1]]
      /\ Contents[other] = [k \in 1..sizes[other] |-> mem[blocks[other] + k - 1]]
  BY DEF Contents
<1>2. \A k \in 1..sizes[other] : mem'[blocks[other] + k - 1] = mem[blocks[other] + k - 1]
  <2> SUFFICES ASSUME NEW k \in 1..sizes[other]
               PROVE  mem'[blocks[other] + k - 1] = mem[blocks[other] + k - 1]
    OBVIOUS
  <2>1. other \in Live
    <3>1. blocks[other] = Null => sizes[other] = 0
      BY DEF HeapInv
    <3>2. sizes[other] # 0
      OBVIOUS
    <3> QED
      BY <3>1, <3>2 DEF Live
  <2>2. blocks[other] \in Blocks /\ ~IsFree(mem, blocks[other]) /\ blocks[other] \notin out
    BY <2>1 DEF HeapInv
  <2>3. Held(mem, mem', blocks[other])
    BY <2>2 DEF Leaves
  <2> QED
    BY <2>1, <2>3, PayloadOf DEF Held
<1> QED
  BY <1>1, <1>2

\* Giving id a block keeps the promise.
LEMMA GivenKeepsPromise ==
    ASSUME HeapInv, NEW C, Layout(mem', brk', C), Apart(mem', C), brk' # First,
           NEW id \in Ids, NEW n \in Nat, NEW p \in C, n # 0, n \in Requests,
           ~IsFree(mem', p), n + 2 <= Size(mem', p),
           Leaves(mem, Blocks, mem', C, {blocks[id], p}, {p}),
           \A q \in Blocks : ~IsFree(mem, q) => q # p,
           Owns(id, p, n),
           Payload(mem', p, n, mem, blocks[id], sizes[id], id)
    PROVE  Promise!Next
<1>1. HeapInv'
  BY GivenStep
<1>2. /\ blocks'[id] = p /\ sizes'[id] = n
      /\ \A other \in Ids \ {id} : blocks'[other] = blocks[other] /\ sizes'[other] = sizes[other]
      /\ sizes[id] \in Nat
  BY DEF HeapInv, Owns
<1>3. \A other \in Live \ {id} : blocks[other] \notin {blocks[id], p}
  <2> SUFFICES ASSUME NEW other \in Live \ {id} PROVE blocks[other] \notin {blocks[id], p}
    OBVIOUS
  <2>1. blocks[other] \in Blocks /\ ~IsFree(mem, blocks[other])
    BY DEF HeapInv
  <2>2. blocks[other] # blocks[id]
    <3>1. CASE id \in Live
      BY <3>1 DEF HeapInv
    <3>2. CASE id \notin Live
      BY <3>2 DEF Live
    <3> QED
      BY <3>1, <3>2
  <2> QED
    BY <2>1, <2>2
<1>4. \A other \in Ids \ {id} : Contents'[other] = Contents[other]
  <2> DEFINE out == {blocks[id], p}
             new == {p}
  <2>1. /\ blocks[id] \in out /\ Leaves(mem, Blocks, mem', C, out, new)
        /\ \A other \in Live \ {id} : blocks[other] \notin out
    BY <1>3
  <2> HIDE DEF out, new
  <2> QED
    BY <1>2, <2>1, OthersKept
<1>5. Contents'[id] = [k \in 1..n |-> IF k <= sizes[id] THEN Contents[id][k] ELSE id]
  <2>1. Contents'[id] = [k \in 1..n |-> mem'[p+k-1]]
    BY <1>2 DEF Contents
  <2>2. \A k \in 1..n : k <= sizes[id] => Contents[id][k] = mem[blocks[id]+k-1]
    BY <1>2 DEF Contents
  <2>3. \A k \in 1..n : mem'[p+k-1] = IF k <= sizes[id] THEN Contents[id][k] ELSE id
    BY <2>2 DEF Payload
  <2> QED
    BY <2>1, <2>3
<1>6. Contents' = [Contents EXCEPT ![id] =
          [k \in 1..n |-> IF k <= sizes[id] THEN Contents[id][k] ELSE id]]
  <2> DEFINE c == [k \in 1..n |-> IF k <= sizes[id] THEN Contents[id][k] ELSE id]
             before == Contents
             after == Contents'
  <2>1. before = [o \in Ids |-> before[o]] /\ after = [o \in Ids |-> after[o]]
    BY DEF Contents
  <2>2. after[id] = c /\ \A o \in Ids \ {id} : after[o] = before[o]
    BY <1>4, <1>5
  <2> HIDE DEF c, before, after
  <2>3. after = [before EXCEPT ![id] = c]
    BY <2>1, <2>2
  <2> QED
    BY <2>3 DEF c, before, after
<1>7. /\ p \in Int /\ 6 <= p /\ p % 2 = 0 /\ Size(mem', p) \in Int /\ p + Size(mem', p) <= brk'
      /\ brk' \in Int /\ 2..brk'-1 \subseteq HeapArea
      /\ \A q \in C : q \in Int /\ Size(mem', q) \in Int
                      /\ (p < q => p + Size(mem', p) <= q) /\ (q < p => q + Size(mem', q) <= p)
  BY LayoutFacts
<1>8. p \in HeapArea /\ p..p+n-1 \subseteq HeapArea
  <2> DEFINE end == brk'
             size == Size(mem', p)
  <2>1. p \in Int /\ 6 <= p /\ size \in Int /\ n + 2 <= size /\ p + size <= end /\ end \in Int
    BY <1>7
  <2> HIDE DEF end, size
  <2>2. p \in 2..end-1 /\ \A a \in p..p+n-1 : a \in 2..end-1
    BY <2>1
  <2>3. p \in 2..brk'-1 /\ \A a \in p..p+n-1 : a \in 2..brk'-1
    BY <2>2 DEF end
  <2> QED
    BY <1>7, <2>3
<1>9. \A other \in Live \ {id} : (p..p+n-1) \cap (blocks[other]..blocks[other]+sizes[other]-1) = {}
  <2> SUFFICES ASSUME NEW other \in Live \ {id}, NEW a \in p..p+n-1,
                      a \in blocks[other]..blocks[other]+sizes[other]-1
               PROVE  FALSE
    OBVIOUS
  <2>1. other \in Ids \ {id} /\ blocks[other] # p
    BY <1>3 DEF Live
  <2> DEFINE q == blocks[other]
  <2>2. q \in C /\ sizes[other] + 2 <= Size(mem', q) /\ sizes[other] \in Nat
    <3>1. blocks'[other] # Null
      BY <1>2, <2>1 DEF Live
    <3>2. other \in Live'
      BY <2>1, <3>1 DEF Live
    <3>3. Blocks' = C
      BY BlocksOfLayout DEF Blocks
    <3> QED
      BY <1>1, <1>2, <2>1, <3>2, <3>3 DEF HeapInv
  <2>3. q \in Int /\ Size(mem', q) \in Int /\ (p < q => p + Size(mem', p) <= q)
        /\ (q < p => q + Size(mem', q) <= p) /\ q # p
    BY <1>7, <2>1, <2>2
  <2>4. a \in Int /\ a >= p /\ a <= p + n - 1 /\ a >= q /\ a <= q + sizes[other] - 1
    BY <1>7, <2>2, <2>3
  <2> HIDE DEF q
  <2> QED
    BY <1>7, <2>2, <2>3, <2>4
<1>10. Promise!Give(id, p, n)
  <2>1. Promise!Live = Live
    BY DEF Promise!Live, Live, Null
  <2> QED
    BY <1>6, <1>7, <1>8, <1>9, <2>1 DEF Promise!Give, Promise!Extent, Owns
<1> QED
  BY <1>8, <1>10 DEF Promise!Next

\* Taking a block back keeps it as well.
LEMMA ReturnedKeepsPromise ==
    ASSUME HeapInv, NEW C, NEW id \in Live, Leaves(mem, Blocks, mem', C, {blocks[id]}, {}),
           Owns(id, Null, 0)
    PROVE  Promise!Next
<1>1. id \in Ids /\ blocks'[id] = Null /\ sizes'[id] = 0
      /\ \A other \in Ids \ {id} : blocks'[other] = blocks[other] /\ sizes'[other] = sizes[other]
  BY DEF HeapInv, Owns, Live
<1>2. \A other \in Ids \ {id} : Contents'[other] = Contents[other]
  <2> DEFINE out == {blocks[id]}
             new == {}
  <2>1. /\ blocks[id] \in out /\ Leaves(mem, Blocks, mem', C, out, new)
        /\ \A other \in Live \ {id} : blocks[other] \notin out
    BY DEF HeapInv
  <2> HIDE DEF out, new
  <2> QED
    BY <1>1, <2>1, OthersKept
<1>3. Contents'[id] = <<>>
  BY <1>1 DEF Contents
<1>4. Contents' = [Contents EXCEPT ![id] = <<>>]
  <2> DEFINE before == Contents
             after == Contents'
  <2>1. before = [o \in Ids |-> before[o]] /\ after = [o \in Ids |-> after[o]]
    BY DEF Contents
  <2>2. after[id] = <<>> /\ \A o \in Ids \ {id} : after[o] = before[o]
    BY <1>2, <1>3
  <2> HIDE DEF before, after
  <2>3. after = [before EXCEPT ![id] = <<>>]
    BY <2>1, <2>2
  <2> QED
    BY <2>3 DEF before, after
<1>5. Promise!Free(id)
  BY <1>4 DEF Promise!Free, Owns, Null
<1> QED
  BY <1>1, <1>5 DEF Promise!Next

-----------------------------------------------------------------------------
\* The calling program fills its block; what free blocks hold is forgotten.
LEMMA FilledIs ==
    ASSUME NEW m, NEW end, NEW B, Layout(m, end, B), Apart(m, B),
           NEW p \in B, ~IsFree(m, p), NEW n \in Nat, n + 2 <= Size(m, p),
           NEW id \in Ids, sizes[id] \in Nat, NEW links \in Nat
    PROVE  LET o == Scrubbed(Fill(m, id, p, n), links)
           IN  /\ Layout(o, end, B) /\ Apart(o, B) /\ Leaves(m, B, o, B, {p}, {p})
               /\ ~IsFree(o, p) /\ Size(o, p) = Size(m, p)
               /\ Payload(o, p, n, m, p, sizes[id], id)
<1> DEFINE f == Fill(m, id, p, n)
           o == Scrubbed(f, links)
           S == {p}
           none == {}
<1>1. f = [a \in Addr |-> IF a \in p+sizes[id]..p+n-1 THEN id ELSE m[a]]
  BY DEF Fill
<1>2. m \in Memory /\ id \in Int
  BY HeapAssumption DEF Layout
<1>3. f \in Memory
  BY <1>1, <1>2 DEF Memory
<1>4. /\ p \in Int /\ 6 <= p /\ Size(m, p) \in Int /\ FTRP(m, p) = p + Size(m, p) - 2
      /\ p + Size(m, p) <= end /\ end \in Int /\ 2..end-1 \subseteq Addr
  BY LayoutFacts
<1>5. \A a \in Addr : f[a] = m[a] \/ \E q \in S : a \in q..FTRP(m, q)-1
  <2> SUFFICES ASSUME NEW a \in Addr, f[a] # m[a] PROVE a \in p..FTRP(m, p)-1
    OBVIOUS
  <2>1. a \in p+sizes[id]..p+n-1
    BY <1>1
  <2> QED
    BY <1>4, <2>1
<1>6. \A k \in 1..n : f[p+k-1] = IF k <= sizes[id] THEN m[p+k-1] ELSE id
  <2> SUFFICES ASSUME NEW k \in 1..n PROVE f[p+k-1] = IF k <= sizes[id] THEN m[p+k-1] ELSE id
    OBVIOUS
  <2>1. p + k - 1 \in Addr
    BY <1>4
  <2>2. p + k - 1 \in p+sizes[id]..p+n-1 <=> ~(k <= sizes[id])
    BY <1>4
  <2> QED
    BY <1>1, <2>1, <2>2
<1> HIDE DEF f
<1>7. /\ Layout(f, end, B) /\ Apart(f, B) /\ Leaves(m, B, f, B, S, S)
      /\ IsFree(f, p) = IsFree(m, p) /\ Size(f, p) = Size(m, p)
  <2>1. S \in SUBSET B
    OBVIOUS
  <2> HIDE DEF S
  <2> QED
    BY <1>3, <1>5, <2>1, PayloadWritten
<1>8. /\ Layout(o, end, B) /\ Apart(o, B) /\ Leaves(f, B, o, B, none, none)
      /\ IsFree(o, p) = IsFree(f, p) /\ Size(o, p) = Size(f, p)
  BY <1>7, ScrubbedIs
<1> HIDE DEF o
<1>9. Leaves(m, B, o, B, {p}, {p})
  <2> HIDE DEF S, none
  <2>1. Leaves(m, B, o, B, S \cup none, (S \ none) \cup none)
    BY <1>7, <1>8, LeavesThen
  <2> QED
    BY <2>1 DEF S, none
<1>10. \A k \in 1..n : o[p+k-1] = f[p+k-1]
  <2> SUFFICES ASSUME NEW k \in 1..n PROVE o[p+k-1] = f[p+k-1]
    OBVIOUS
  <2>1. Held(f, o, p)
    BY <1>7, <1>8 DEF Leaves
  <2>2. FTRP(f, p) = FTRP(m, p)
    BY <1>7 DEF FTRP
  <2>3. p + k - 1 \in p-1..FTRP(f, p)
    BY <1>4, <2>2
  <2> QED
    BY <2>1, <2>3 DEF Held
<1>11. Payload(o, p, n, m, p, sizes[id], id)
  BY <1>6, <1>10 DEF Payload
<1> QED
  BY <1>7, <1>8, <1>9, <1>11 DEF o, f

\* memcpy into a block that is long enough.
LEMMA CopiedIs ==
    ASSUME NEW m, NEW end, NEW B, Layout(m, end, B), Apart(m, B),
           NEW p \in B, NEW q \in B, NEW n \in Nat, n + 2 <= Size(m, p),
           NEW kept \in Nat, kept <= n, kept <= Size(m, q)
    PROVE  LET o == Copy(m, p, q, kept)
           IN  /\ Layout(o, end, B) /\ Apart(o, B) /\ Leaves(m, B, o, B, {p}, {p})
               /\ \A r \in B : IsFree(o, r) = IsFree(m, r) /\ Size(o, r) = Size(m, r)
               /\ Payload(o, p, kept, m, q, kept, 0)
<1> DEFINE o == Copy(m, p, q, kept)
           S == {p}
<1>1. o = [a \in Addr |-> IF a \in p..p+kept-1 THEN m[q + (a - p)] ELSE m[a]]
  BY DEF Copy
<1>2. /\ p \in Int /\ 6 <= p /\ Size(m, p) \in Int /\ FTRP(m, p) = p + Size(m, p) - 2
      /\ p + Size(m, p) <= end /\ end \in Int /\ 2..end-1 \subseteq Addr
      /\ q \in Int /\ 6 <= q /\ Size(m, q) \in Int /\ q + Size(m, q) <= end
  BY LayoutFacts
<1>3. \A a \in p..p+kept-1 : q + (a - p) \in Addr
  BY <1>2
<1>4. o \in Memory
  <2>1. m \in Memory
    BY DEF Layout
  <2>2. \A a \in Addr : (IF a \in p..p+kept-1 THEN m[q + (a - p)] ELSE m[a]) \in Int
    BY <1>3, <2>1 DEF Memory
  <2> HIDE DEF o
  <2> QED
    BY <1>1, <2>2 DEF Memory
<1> HIDE DEF o
<1>5. \A a \in Addr : o[a] = m[a] \/ \E r \in S : a \in r..FTRP(m, r)-1
  <2> SUFFICES ASSUME NEW a \in Addr, o[a] # m[a] PROVE a \in p..FTRP(m, p)-1
    OBVIOUS
  <2>1. a \in p..p+kept-1
    BY <1>1
  <2> QED
    BY <1>2, <2>1
<1>6. Payload(o, p, kept, m, q, kept, 0)
  <2> SUFFICES ASSUME NEW k \in 1..kept PROVE o[p+k-1] = m[q+k-1]
    BY DEF Payload
  <2>1. p + k - 1 \in Addr /\ p + k - 1 \in p..p+kept-1 /\ q + ((p + k - 1) - p) = q + k - 1
    BY <1>2
  <2> QED
    BY <1>1, <2>1
<1>7. /\ Layout(o, end, B) /\ Apart(o, B) /\ Leaves(m, B, o, B, S, S)
      /\ \A r \in B : IsFree(o, r) = IsFree(m, r) /\ Size(o, r) = Size(m, r)
  <2>1. S \in SUBSET B
    OBVIOUS
  <2> HIDE DEF S
  <2> QED
    BY <1>4, <1>5, <2>1, PayloadWritten
<1> QED
  BY <1>6, <1>7 DEF o

\* An empty heap.
LEMMA EmptyHeapIs ==
    Layout(EmptyHeap, Start + 4, {}) /\ Apart(EmptyHeap, {})
<1>1. Start = 2 /\ heap_listp = 4 /\ First = 6 /\ HeapWords \in Nat /\ HeapWords >= 4
  BY HeapAssumption DEF Start, heap_listp, First
<1>2. 3 \in Addr /\ 4 \in Addr /\ 5 \in Addr
  BY <1>1 DEF Addr, HeapArea
<1>3. /\ EmptyHeap \in Memory
      /\ EmptyHeap[3] = 3 /\ EmptyHeap[4] = 3 /\ EmptyHeap[5] = 1
  BY <1>1, <1>2 DEF EmptyHeap, Memory
<1>4. Segment(EmptyHeap, First, Start + 4, {})
  BY <1>1 DEF Segment
<1> HIDE DEF EmptyHeap
<1> QED
  BY <1>1, <1>3, <1>4 DEF Layout, Apart

-----------------------------------------------------------------------------
\* The implicit list: what coalesce, place, extend_heap and find_fit do to a heap,
\* and what malloc, free and realloc make of that.

HeapRecord == [mem : Memory, brk : Int, rover : Int, bp : Int]

\* A heap between two functions: rover is at a block or at the prologue.
Sound(h, B) ==
    /\ h \in HeapRecord
    /\ Layout(h.mem, h.brk, B) /\ Apart(h.mem, B) /\ h.brk # First
    /\ h.rover \in B \cup {heap_listp}

\* coalesce returns the merged block, and rover is not left inside of it.
LEMMA CoalesceIs ==
    ASSUME NEW h \in HeapRecord, NEW B, Layout(h.mem, h.brk, B), h.brk # First,
           h.rover \in B \cup {heap_listp},
           NEW bp \in B, IsFree(h.mem, bp), NearlyApart(h.mem, B, bp)
    PROVE  LET r == Coalesce(h, bp)
           IN  \E C : /\ Sound(r, C) /\ Leaves(h.mem, B, r.mem, C, {}, {})
                      /\ r.bp \in C /\ IsFree(r.mem, r.bp)
                      /\ Size(r.mem, r.bp) >= Size(h.mem, bp) /\ r.brk = h.brk
<1> DEFINE m == h.mem
           lo == MergedStart(m, bp)
           hi == lo + MergedSize(m, bp)
           n == PutMerged(m, bp)
           v == IF lo < h.rover /\ h.rover < hi THEN lo ELSE h.rover
           r == Coalesce(h, bp)
           C == {p \in B : p < lo \/ p >= hi} \cup {lo}
<1>1. /\ Layout(n, h.brk, C) /\ Apart(n, C) /\ Leaves(m, B, n, C, {}, {})
      /\ lo \in B /\ lo \in Int /\ hi \in Int /\ IsFree(n, lo)
      /\ Size(n, lo) >= Size(m, bp)
  BY Merged
<1>2. r = [h EXCEPT !.mem = n, !.bp = lo, !.rover = v]
  BY DEF Coalesce
<1>3. n \in Memory
  BY <1>1 DEF Layout
<1>4. v \in C \cup {heap_listp} /\ v \in Int
  <2>1. heap_listp = 4 /\ \A p \in B : p \in Int /\ 6 <= p
    BY LayoutFacts
  <2>2. CASE lo < h.rover /\ h.rover < hi
    BY <1>1, <2>2
  <2>3. CASE ~(lo < h.rover /\ h.rover < hi)
    <3>1. v = h.rover
      BY <2>3
    <3> HIDE DEF v, lo, hi
    <3>2. h.rover \in B => h.rover < lo \/ h.rover >= hi \/ h.rover = lo
      <4>1. h.rover \in Int /\ lo \in Int /\ hi \in Int
        BY <1>1 DEF HeapRecord
      <4> QED
        BY <2>3, <4>1
    <3> QED
      BY <2>1, <3>1, <3>2
  <2> QED
    BY <2>2, <2>3
<1> HIDE DEF n, lo, v, C
<1>5. r \in HeapRecord /\ r.mem = n /\ r.bp = lo /\ r.rover = v /\ r.brk = h.brk
  BY <1>1, <1>2, <1>3, <1>4 DEF HeapRecord
<1>6. lo \in C
  BY DEF C
<1> HIDE DEF r
<1>7. Sound(r, C)
  BY <1>1, <1>4, <1>5 DEF Sound
<1>8. /\ Sound(r, C) /\ Leaves(h.mem, B, r.mem, C, {}, {})
      /\ r.bp \in C /\ IsFree(r.mem, r.bp)
      /\ Size(r.mem, r.bp) >= Size(h.mem, bp) /\ r.brk = h.brk
  BY <1>1, <1>5, <1>6, <1>7
<1> QED
  BY <1>8 DEF r

\* extend_heap returns a free block that is long enough, or fails.
LEMMA ExtendHeapIs ==
    ASSUME NEW h, NEW B, Layout(h.mem, h.brk, B), Apart(h.mem, B), h \in HeapRecord,
           h.rover \in B \cup {heap_listp},
           NEW words \in Nat, words >= 3
    PROVE  LET r == ExtendHeap(h, words)
           IN  \/ r.bp = Null /\ ~CanExtend(h.brk, words)
               \/ \E C : /\ Sound(r, C) /\ Leaves(h.mem, B, r.mem, C, {}, {})
                         /\ r.bp \in C /\ IsFree(r.mem, r.bp)
                         /\ Size(r.mem, r.bp) >= words
<1> DEFINE r == ExtendHeap(h, words)
<1>1. CASE ~CanExtend(h.brk, words)
  <2>1. r = [h EXCEPT !.bp = Null]
    BY <1>1 DEF ExtendHeap
  <2> HIDE DEF r
  <2>2. r.bp = Null
    BY <2>1 DEF HeapRecord
  <2> QED
    BY <1>1, <2>2 DEF r
<1>2. CASE CanExtend(h.brk, words)
  <2> DEFINE end == h.brk
             n == Extended(h.mem, end, words)
             g == [h EXCEPT !.mem = n, !.brk = end + EvenWords(words)]
             C == B \cup {end}
  <2>1. r = Coalesce(g, end)
    BY <1>2 DEF ExtendHeap
  <2>2. /\ Layout(n, end + EvenWords(words), C) /\ NearlyApart(n, C, end)
        /\ IsFree(n, end) /\ Size(n, end) >= words
        /\ Leaves(h.mem, B, n, C, {}, {})
    BY <1>2, ExtendedIs
  <2>3. n \in Memory /\ end + EvenWords(words) \in Int
    <3>1. n \in Memory
      BY <2>2 DEF Layout
    <3>2. end \in Int
      BY DEF HeapRecord
    <3> QED
      BY <3>1, <3>2 DEF EvenWords
  <2>4. g \in HeapRecord /\ g.mem = n /\ g.brk = end + EvenWords(words) /\ g.rover = h.rover
    <3> HIDE DEF n
    <3> QED
      BY <2>3 DEF HeapRecord
  <2>5. g.brk # First
    <3>1. \A p \in C : p < g.brk
      BY <2>2, <2>4, LayoutFacts
    <3>2. end >= First /\ end \in C /\ end \in Int
      BY LayoutFacts
    <3>3. g.brk \in Int /\ First \in Int
      BY <2>3, <2>4, LayoutFacts
    <3> HIDE DEF g, end
    <3> QED
      BY <3>1, <3>2, <3>3
  <2>6. end \in C /\ g.rover \in C \cup {heap_listp}
    BY <2>4
  <2> HIDE DEF n, g, C, end, r
  <2>7. PICK D : /\ Sound(Coalesce(g, end), D) /\ Leaves(g.mem, C, Coalesce(g, end).mem, D, {}, {})
                 /\ Coalesce(g, end).bp \in D /\ IsFree(Coalesce(g, end).mem, Coalesce(g, end).bp)
                 /\ Size(Coalesce(g, end).mem, Coalesce(g, end).bp) >= Size(g.mem, end)
    BY <2>2, <2>4, <2>5, <2>6, CoalesceIs
  <2>8. /\ Sound(r, D) /\ Leaves(n, C, r.mem, D, {}, {})
        /\ r.bp \in D /\ IsFree(r.mem, r.bp) /\ Size(r.mem, r.bp) >= Size(n, end)
    BY <2>1, <2>4, <2>7
  <2>9. Size(r.mem, r.bp) >= words
    <3>1. Size(r.mem, r.bp) \in Int /\ Size(n, end) \in Int
      BY <2>2, <2>6, <2>8, LayoutFacts DEF Sound
    <3> QED
      BY <2>2, <2>8, <3>1
  <2>10. Leaves(h.mem, B, r.mem, D, {}, {})
    <3> DEFINE none == {}
    <3>1. Leaves(h.mem, B, n, C, none, none) /\ Leaves(n, C, r.mem, D, none, none)
      BY <2>2, <2>8
    <3> HIDE DEF none
    <3>2. Leaves(h.mem, B, r.mem, D, none \cup none, (none \ none) \cup none)
      BY <3>1, LeavesThen
    <3> QED
      BY <3>2 DEF none
  <2> QED
    BY <2>8, <2>9, <2>10 DEF r
<1> QED
  BY <1>1, <1>2

-----------------------------------------------------------------------------
\* find_fit finds a free block that is long enough if there is one.
LEMMA FindFitIs ==
    ASSUME NEW h, NEW B, Sound(h, B), NEW asize \in Nat
    PROVE  LET fit == FindFit(h, asize)
           IN  \/ fit = Null /\ \A p \in B : IsFree(h.mem, p) => Size(h.mem, p) < asize
               \/ fit \in B /\ IsFree(h.mem, fit) /\ asize <= Size(h.mem, fit)
<1> DEFINE m == h.mem
           fits == {p \in B : Fits(m, p, asize)}
           after == {bp \in BlocksFrom(m, h.rover) : Fits(m, bp, asize)}
           before == {bp \in BlocksFrom(m, heap_listp) : bp < h.rover /\ Fits(m, bp, asize)}
           fit == FindFit(h, asize)
<1>1. Layout(m, h.brk, B) /\ h.rover \in B \cup {heap_listp}
  BY DEF Sound
<1>2. /\ BlocksFrom(m, heap_listp) = {heap_listp} \cup B
      /\ \A p \in B : BlocksFrom(m, p) = {q \in B : q >= p}
  BY <1>1, BlocksOfLayout
<1>3. ~IsFree(m, heap_listp) /\ heap_listp = 4
      /\ \A p \in B : p \in Nat /\ Size(m, p) \in Int
  <2>1. ~IsFree(m, heap_listp)
    BY <1>1 DEF Layout, IsFree
  <2>2. heap_listp = 4 /\ \A p \in B : p \in Int /\ p >= 6 /\ Size(m, p) \in Int
    BY <1>1, LayoutFacts
  <2> QED
    BY <2>1, <2>2
<1>4. \A p \in after : p \in fits
  <2>1. CASE h.rover \in B
    BY <1>2, <2>1
  <2>2. CASE h.rover = heap_listp
    BY <1>2, <1>3, <2>2 DEF Fits
  <2> QED
    BY <1>1, <2>1, <2>2
<1>5. \A p \in before : p \in fits
  BY <1>2, <1>3 DEF Fits
<1>6. \A p \in fits : p \in after \cup before
  <2> SUFFICES ASSUME NEW p \in fits PROVE p \in after \cup before
    OBVIOUS
  <2>1. CASE h.rover \in B
    <3>1. p \in Int /\ h.rover \in Int
      BY <1>3, <2>1
    <3>2. CASE p >= h.rover
      BY <1>2, <2>1, <3>2
    <3>3. CASE p < h.rover
      BY <1>2, <3>3
    <3> QED
      BY <3>1, <3>2, <3>3
  <2>2. CASE h.rover = heap_listp
    BY <1>2, <2>2
  <2> QED
    BY <1>1, <2>1, <2>2
<1>7. fit = IF after # {} THEN Min(after) ELSE IF before # {} THEN Min(before) ELSE Null
  BY DEF FindFit
<1>8. after \in SUBSET Nat /\ before \in SUBSET Nat
  <2>1. \A p \in fits : p \in Nat
    BY <1>3
  <2> HIDE DEF after, before, fits
  <2> QED
    BY <1>4, <1>5, <2>1
<1>9. CASE after # {} \/ before # {}
  <2> HIDE DEF after, before, fits, fit
  <2>1. fit \in after \/ fit \in before
    BY <1>7, <1>8, <1>9, LeastIn
  <2>2. fit \in fits
    BY <1>4, <1>5, <2>1
  <2> QED
    BY <2>2 DEF fits, Fits, fit
<1>10. CASE after = {} /\ before = {}
  <2> HIDE DEF after, before, fits, fit
  <2>1. fit = Null
    BY <1>7, <1>10
  <2>2. \A p \in B : p \notin fits
    BY <1>6, <1>10
  <2>3. \A p \in B : IsFree(m, p) => Size(m, p) < asize
    <3> SUFFICES ASSUME NEW p \in B, IsFree(m, p) PROVE Size(m, p) < asize
      OBVIOUS
    <3>1. ~(asize <= Size(m, p))
      BY <2>2 DEF fits, Fits
    <3> QED
      BY <1>3, <3>1
  <2> QED
    BY <2>1, <2>3 DEF fit
<1> QED
  BY <1>9, <1>10

\* The block size for a request: even, and the two tags fit in as well.
LEMMA AdjustedSizeIs ==
    ASSUME NEW n \in Nat
    PROVE  /\ AdjustedSize(n) \in Nat /\ AdjustedSize(n) % 2 = 0
           /\ AdjustedSize(n) >= 4 /\ AdjustedSize(n) >= n + 2
BY DEF AdjustedSize

\* place takes a free block that is long enough, or the front of it.
LEMMA PlaceIs ==
    ASSUME NEW m, NEW end, NEW B, Layout(m, end, B), Apart(m, B), NEW bp \in B, IsFree(m, bp),
           NEW asize \in Nat, asize % 2 = 0, asize >= 4, asize <= Size(m, bp)
    PROVE  LET n == Place(m, bp, asize)
           IN  \E C : /\ Layout(n, end, C) /\ Apart(n, C) /\ Leaves(m, B, n, C, {bp}, {bp})
                      /\ B \subseteq C /\ ~IsFree(n, bp) /\ Size(n, bp) >= asize
<1>1. CASE Size(m, bp) - asize >= 4
  <2> DEFINE n == PutTags(PutTags(m, bp, asize, 1), bp + asize, Size(m, bp) - asize, 0)
             C == {p \in B : p # bp} \cup ({bp} \cup {bp + asize})
  <2>1. /\ Layout(n, end, C) /\ Apart(n, C) /\ Leaves(m, B, n, C, {bp}, {bp})
        /\ ~IsFree(n, bp) /\ Size(n, bp) = asize
    BY <1>1, TakenFront
  <2>2. Place(m, bp, asize) = n
    BY <1>1 DEF Place
  <2>3. B \subseteq C
    OBVIOUS
  <2>4. Size(n, bp) >= asize
    BY <2>1
  <2> HIDE DEF n, C
  <2> QED
    BY <2>1, <2>2, <2>3, <2>4
<1>2. CASE ~(Size(m, bp) - asize >= 4)
  <2> DEFINE n == PutTags(m, bp, Size(m, bp), 1)
  <2>1. /\ Layout(n, end, B) /\ Apart(n, B) /\ Leaves(m, B, n, B, {bp}, {bp})
        /\ ~IsFree(n, bp) /\ Size(n, bp) = Size(m, bp)
    BY TakenWhole
  <2>2. Place(m, bp, asize) = n
    BY <1>2 DEF Place
  <2> HIDE DEF n
  <2> QED
    BY <2>1, <2>2
<1> QED
  BY <1>1, <1>2

-----------------------------------------------------------------------------
\* What a call of malloc brings about when it succeeds.
Serves(h, B, r, C, n) ==
    /\ Sound(r, C) /\ Leaves(h.mem, B, r.mem, C, {}, {r.bp})
    /\ r.bp \in C /\ ~IsFree(r.mem, r.bp) /\ Size(r.mem, r.bp) >= n + 2
    /\ \A p \in B : ~IsFree(h.mem, p) => p # r.bp
    /\ \/ r.brk = h.brk
       \/ \A p \in B : IsFree(h.mem, p) => Size(h.mem, p) < AdjustedSize(n)

LEMMA MallocIs ==
    ASSUME NEW h, NEW B, Sound(h, B), NEW n \in Nat
    PROVE  LET r == mm_malloc(h, n)
           IN  r.bp = Null \/ \E C : Serves(h, B, r, C, n)
<1> DEFINE asize == AdjustedSize(n)
           fit == FindFit(h, asize)
           words == ExtendSize(asize)
           got == IF fit # Null THEN [h EXCEPT !.bp = fit, !.rover = fit]
                  ELSE ExtendHeap(h, words)
           r == mm_malloc(h, n)
<1>1. asize \in Nat /\ asize % 2 = 0 /\ asize >= 4 /\ asize >= n + 2
  BY AdjustedSizeIs
<1>2. words \in Nat /\ words >= asize
  <2>1. CHUNKSIZE \in Nat
    BY HeapAssumption
  <2> DEFINE S == {asize, CHUNKSIZE}
  <2> HIDE DEF asize
  <2>2. S \in SUBSET Int
    BY <1>1, <2>1
  <2>3. CASE asize <= CHUNKSIZE
    <3>1. CHUNKSIZE \in S /\ \A y \in S : y <= CHUNKSIZE
      BY <1>1, <2>1, <2>3
    <3>2. Max(S) = CHUNKSIZE
      BY <2>2, <3>1, GreatestIs
    <3> QED
      BY <2>1, <2>3, <3>2 DEF ExtendSize
  <2>4. CASE asize > CHUNKSIZE
    <3>1. asize \in S /\ \A y \in S : y <= asize
      BY <1>1, <2>1, <2>4
    <3>2. Max(S) = asize
      BY <2>2, <3>1, GreatestIs
    <3> QED
      BY <1>1, <3>2 DEF ExtendSize
  <2> QED
    BY <1>1, <2>1, <2>3, <2>4
<1> HIDE DEF asize, words
<1>3. h \in HeapRecord /\ Layout(h.mem, h.brk, B) /\ Apart(h.mem, B)
      /\ h.rover \in B \cup {heap_listp}
  BY DEF Sound
<1>4. \/ got.bp = Null
      \/ \E C : /\ Sound(got, C) /\ Leaves(h.mem, B, got.mem, C, {}, {})
                /\ got.bp \in C /\ IsFree(got.mem, got.bp) /\ Size(got.mem, got.bp) >= asize
                /\ \/ got.brk = h.brk
                   \/ \A p \in B : IsFree(h.mem, p) => Size(h.mem, p) < asize
  <2>1. \/ fit = Null /\ \A p \in B : IsFree(h.mem, p) => Size(h.mem, p) < asize
        \/ fit \in B /\ IsFree(h.mem, fit) /\ asize <= Size(h.mem, fit)
    BY <1>1, FindFitIs
  <2> HIDE DEF fit
  <2>2. CASE fit # Null
    <3>1. fit \in B /\ IsFree(h.mem, fit) /\ Size(h.mem, fit) >= asize
      <4>1. fit \in B /\ IsFree(h.mem, fit) /\ asize <= Size(h.mem, fit)
        BY <2>1, <2>2
      <4>2. Size(h.mem, fit) \in Int
        BY <1>3, <4>1, LayoutFacts
      <4> QED
        BY <1>1, <4>1, <4>2
    <3>2. fit \in Int
      BY <1>3, <3>1, LayoutFacts
    <3>3. got = [h EXCEPT !.bp = fit, !.rover = fit]
      BY <2>2
    <3> HIDE DEF got
    <3>4. got \in HeapRecord /\ got.mem = h.mem /\ got.brk = h.brk /\ got.bp = fit /\ got.rover = fit
      BY <1>3, <3>2, <3>3 DEF HeapRecord
    <3>5. Sound(got, B)
      BY <1>3, <3>1, <3>4 DEF Sound
    <3>6. Leaves(h.mem, B, got.mem, B, {}, {})
      BY <3>4 DEF Leaves, Held
    <3> QED
      BY <3>1, <3>4, <3>5, <3>6
  <2>3. CASE fit = Null
    <3>1. \A p \in B : IsFree(h.mem, p) => Size(h.mem, p) < asize
      <4>1. Null \notin B
        BY <1>3, LayoutFacts DEF Null
      <4> QED
        BY <2>1, <2>3, <4>1
    <3>2. got = ExtendHeap(h, words)
      BY <2>3
    <3>3. words >= 3
      BY <1>1, <1>2
    <3> HIDE DEF got
    <3>4. \/ got.bp = Null
          \/ \E C : /\ Sound(got, C) /\ Leaves(h.mem, B, got.mem, C, {}, {})
                    /\ got.bp \in C /\ IsFree(got.mem, got.bp)
                    /\ Size(got.mem, got.bp) >= words
      BY <1>2, <1>3, <3>2, <3>3, ExtendHeapIs
    <3>5. CASE got.bp # Null
      <4>1. PICK C : /\ Sound(got, C) /\ Leaves(h.mem, B, got.mem, C, {}, {})
                     /\ got.bp \in C /\ IsFree(got.mem, got.bp)
                     /\ Size(got.mem, got.bp) >= words
        BY <3>4, <3>5
      <4>2. Size(got.mem, got.bp) \in Int
        BY <4>1, LayoutFacts DEF Sound
      <4>3. Size(got.mem, got.bp) >= asize
        BY <1>1, <1>2, <4>1, <4>2
      <4> QED
        BY <3>1, <4>1, <4>3
    <3> QED
      BY <3>5
  <2> QED
    BY <2>2, <2>3
<1>5. r = IF got.bp = Null THEN got ELSE [got EXCEPT !.mem = Place(@, got.bp, asize)]
  BY DEF mm_malloc, asize, words
<1> HIDE DEF got, r
<1>6. CASE got.bp = Null
  BY <1>5, <1>6 DEF r
<1>7. CASE got.bp # Null
  <2>1. PICK C : /\ Sound(got, C) /\ Leaves(h.mem, B, got.mem, C, {}, {})
                 /\ got.bp \in C /\ IsFree(got.mem, got.bp) /\ Size(got.mem, got.bp) >= asize
                 /\ \/ got.brk = h.brk
                    \/ \A p \in B : IsFree(h.mem, p) => Size(h.mem, p) < asize
    BY <1>4, <1>7
  <2> DEFINE bp == got.bp
             n1 == Place(got.mem, bp, asize)
  <2>2. /\ got \in HeapRecord /\ Layout(got.mem, got.brk, C) /\ Apart(got.mem, C)
        /\ got.brk # First /\ got.rover \in C \cup {heap_listp}
    BY <2>1 DEF Sound
  <2>3. asize <= Size(got.mem, bp)
    <3>1. Size(got.mem, bp) \in Int
      BY <2>1, <2>2, LayoutFacts
    <3> QED
      BY <1>1, <2>1, <3>1
  <2>4. PICK D : /\ Layout(n1, got.brk, D) /\ Apart(n1, D)
                 /\ Leaves(got.mem, C, n1, D, {bp}, {bp})
                 /\ C \subseteq D /\ ~IsFree(n1, bp) /\ Size(n1, bp) >= asize
    BY <1>1, <2>1, <2>2, <2>3, PlaceIs
  <2>5. r = [got EXCEPT !.mem = n1]
    BY <1>5, <1>7
  <2>6. n1 \in Memory
    BY <2>4 DEF Layout
  <2> HIDE DEF n1
  <2>7. r \in HeapRecord /\ r.mem = n1 /\ r.brk = got.brk /\ r.rover = got.rover /\ r.bp = bp
    BY <2>2, <2>5, <2>6 DEF HeapRecord
  <2> HIDE DEF bp
  <2>8. Sound(r, D)
    BY <2>2, <2>4, <2>7 DEF Sound
  <2>9. \A p \in B : ~IsFree(h.mem, p) => p # bp
    BY <2>1 DEF Leaves, bp
  <2>10. Leaves(h.mem, B, n1, D, {}, {bp})
    <3> DEFINE none == {}
               one == {bp}
    <3>1. Leaves(h.mem, B, got.mem, C, none, none) /\ Leaves(got.mem, C, n1, D, one, one)
      BY <2>1, <2>4
    <3> HIDE DEF none, one
    <3>2. Leaves(h.mem, B, n1, D, none \cup one, (none \ one) \cup one)
      BY <1>3, <3>1, LeavesThen
    <3>3. Leaves(h.mem, B, n1, D, {bp}, {bp})
      BY <3>2 DEF none, one
    <3> QED
      BY <2>9, <3>3 DEF Leaves
  <2>11. Size(n1, bp) >= n + 2 /\ bp \in D
    <3>1. bp \in D
      BY <2>1, <2>4 DEF bp
    <3>2. Size(n1, bp) \in Int
      BY <2>4, <3>1, LayoutFacts
    <3> QED
      BY <1>1, <2>4, <3>1, <3>2
  <2>12. Serves(h, B, r, D, n)
    BY <2>1, <2>4, <2>7, <2>8, <2>9, <2>10, <2>11 DEF Serves, asize
  <2> QED
    BY <2>12 DEF r
<1> QED
  BY <1>6, <1>7

\* What a call of free brings about.
LEMMA FreeIs ==
    ASSUME NEW h, NEW B, Sound(h, B), NEW bp \in B
    PROVE  LET r == mm_free(h, bp)
           IN  \E C : Sound(r, C) /\ Leaves(h.mem, B, r.mem, C, {bp}, {}) /\ r.brk = h.brk
<1> DEFINE n == PutTags(h.mem, bp, Size(h.mem, bp), 0)
           g == [h EXCEPT !.mem = n]
           r == Coalesce(g, bp)
<1>1. /\ h \in HeapRecord /\ Layout(h.mem, h.brk, B) /\ Apart(h.mem, B) /\ h.brk # First
      /\ h.rover \in B \cup {heap_listp}
  BY DEF Sound
<1>2. /\ Layout(n, h.brk, B) /\ NearlyApart(n, B, bp) /\ Leaves(h.mem, B, n, B, {bp}, {})
      /\ IsFree(n, bp)
  BY <1>1, Freed
<1>3. mm_free(h, bp) = r
  BY DEF mm_free
<1>4. n \in Memory
  BY <1>2 DEF Layout
<1> HIDE DEF n
<1>5. g \in HeapRecord /\ g.mem = n /\ g.brk = h.brk /\ g.rover = h.rover
  BY <1>1, <1>4 DEF HeapRecord
<1> HIDE DEF g, r
<1>6. PICK C : Sound(r, C) /\ Leaves(g.mem, B, r.mem, C, {}, {}) /\ r.brk = g.brk
  BY <1>1, <1>2, <1>5, CoalesceIs DEF r
<1>7. Leaves(h.mem, B, r.mem, C, {bp}, {})
  <2> DEFINE none == {}
             one == {bp}
  <2>1. Leaves(h.mem, B, n, B, one, none) /\ Leaves(n, B, r.mem, C, none, none)
    BY <1>2, <1>5, <1>6
  <2> HIDE DEF none, one
  <2>2. Leaves(h.mem, B, r.mem, C, one \cup none, (none \ none) \cup none)
    BY <1>1, <2>1, LeavesThen
  <2> QED
    BY <2>2 DEF none, one
<1> QED
  BY <1>3, <1>5, <1>6, <1>7

-----------------------------------------------------------------------------
ImplicitInv == HeapInv /\ rover \in Blocks \cup {heap_listp}

\* A call begins with a heap that is in order.
LEMMA NowIsSound ==
    ASSUME ImplicitInv
    PROVE  /\ Sound(Now, Blocks) /\ Now.mem = mem /\ Now.brk = brk
           /\ \A p \in Blocks : p # Null
<1>1. Layout(mem, brk, Blocks) /\ Apart(mem, Blocks) /\ brk # First
  BY DEF ImplicitInv, HeapInv
<1>2. /\ heap_listp = 4 /\ brk \in Int /\ mem \in Memory
      /\ \A p \in Blocks : p \in Int /\ p >= 6
  BY <1>1, LayoutFacts DEF Layout
<1>3. rover \in Int /\ rover \in Blocks \cup {heap_listp}
  BY <1>2 DEF ImplicitInv
<1>4. Now \in HeapRecord /\ Now.mem = mem /\ Now.brk = brk /\ Now.rover = rover
  BY <1>2, <1>3 DEF Now, HeapRecord, Null
<1>5. Sound(Now, Blocks)
  BY <1>1, <1>3, <1>4 DEF Sound
<1> QED
  BY <1>2, <1>4, <1>5 DEF Null

\* mm_init leaves one free block.
LEMMA InitIsSound ==
    ASSUME Init
    PROVE  ImplicitInv
<1> DEFINE h0 == [mem |-> EmptyHeap, brk |-> Start + 4, rover |-> heap_listp, bp |-> Null]
           h == ExtendHeap(h0, CHUNKSIZE)
           none == {}
<1>1. mem = h.mem /\ brk = h.brk /\ rover = h.rover
  BY DEF Init
<1>2. Layout(EmptyHeap, Start + 4, none) /\ Apart(EmptyHeap, none)
  BY EmptyHeapIs
<1>3. Start = 2 /\ heap_listp = 4 /\ CHUNKSIZE \in Nat /\ CHUNKSIZE >= 3
      /\ CanExtend(Start + 4, CHUNKSIZE)
  BY HeapAssumption DEF Start, heap_listp, CanExtend, EvenWords
<1>4. /\ h0 \in HeapRecord /\ h0.mem = EmptyHeap /\ h0.brk = Start + 4
      /\ h0.rover \in none \cup {heap_listp}
  <2>1. EmptyHeap \in Memory
    BY <1>2 DEF Layout
  <2> HIDE DEF EmptyHeap, none
  <2> QED
    BY <1>3, <2>1 DEF HeapRecord, Null
<1> HIDE DEF h0, none
<1>5. PICK C : Sound(h, C) /\ Leaves(EmptyHeap, none, h.mem, C, {}, {})
  BY <1>2, <1>3, <1>4, ExtendHeapIs
<1> HIDE DEF h
<1>6. Layout(mem, brk, C) /\ Apart(mem, C) /\ brk # First /\ rover \in C \cup {heap_listp}
  BY <1>1, <1>5 DEF Sound
<1>7. Blocks = C
  BY <1>6, BlocksOfLayout DEF Blocks
<1>8. \A p \in C : IsFree(mem, p)
  BY <1>1, <1>5 DEF Leaves, none
<1>9. /\ blocks \in [Ids -> Int] /\ sizes \in [Ids -> Nat]
      /\ \A id \in Ids : blocks[id] = Null /\ sizes[id] = 0
  BY DEF Init, ClientInit, Null
<1>10. Live = {}
  BY <1>9 DEF Live
<1> QED
  BY <1>6, <1>7, <1>8, <1>9, <1>10 DEF ImplicitInv, HeapInv

\* What the three calls do to the heap, once their results are forgotten where
\* they are free: a block for id, with what it is to hold,
Gives(id, n) ==
    \E C : \E p \in C :
        /\ Layout(mem', brk', C) /\ Apart(mem', C) /\ brk' # First
        /\ rover' \in C \cup {heap_listp}
        /\ ~IsFree(mem', p) /\ n + 2 <= Size(mem', p)
        /\ Leaves(mem, Blocks, mem', C, {blocks[id], p}, {p})
        /\ \A q \in Blocks : ~IsFree(mem, q) => q # p
        /\ Owns(id, p, n)
        /\ Payload(mem', p, n, mem, blocks[id], sizes[id], id)

\* or the block of id taken back.
TakesBack(id) ==
    \E C : /\ Layout(mem', brk', C) /\ Apart(mem', C) /\ brk' # First
           /\ rover' \in C \cup {heap_listp}
           /\ Leaves(mem, Blocks, mem', C, {blocks[id]}, {})
           /\ Owns(id, Null, 0)

\* A stamp for a new block.
LEMMA NewIdIs ==
    ASSUME Live # Ids
    PROVE  NewId \in Ids /\ NewId \notin Live
<1>1. (Ids \ Live) \in SUBSET Nat /\ Ids \ Live # {}
  BY HeapAssumption DEF Live
<1> QED
  BY <1>1, LeastIn DEF NewId

\* malloc.
LEMMA MallocStep ==
    ASSUME ImplicitInv, NEW n \in Requests, Malloc(n)
    PROVE  NewId \in Ids /\ Gives(NewId, n) /\ brk' = mm_malloc(Now, n).brk
<1> DEFINE h == mm_malloc(Now, n)
           f == Fill(h.mem, NewId, h.bp, n)
           g == [h EXCEPT !.mem = f]
           id == NewId
           o == Scrubbed(f, 0)
<1>1. /\ h.bp # Null /\ Becomes(g) /\ Owns(id, h.bp, n) /\ n \in Nat /\ Live # Ids
  BY HeapAssumption DEF Malloc
<1>2. id \in Ids /\ id \notin Live /\ blocks[id] = Null /\ sizes[id] = 0
  BY <1>1, NewIdIs DEF Live, ImplicitInv, HeapInv
<1> HIDE DEF id
<1>3. Sound(Now, Blocks) /\ Now.mem = mem /\ Now.brk = brk /\ \A p \in Blocks : p # Null
  BY NowIsSound
<1>4. PICK C : Serves(Now, Blocks, h, C, n)
  BY <1>1, <1>3, MallocIs
<1> HIDE DEF h
<1> DEFINE p == h.bp
<1>5. /\ h \in HeapRecord /\ Layout(h.mem, h.brk, C) /\ Apart(h.mem, C) /\ h.brk # First
      /\ h.rover \in C \cup {heap_listp}
      /\ Leaves(mem, Blocks, h.mem, C, {}, {p})
      /\ p \in C /\ ~IsFree(h.mem, p) /\ Size(h.mem, p) >= n + 2
      /\ \A q \in Blocks : ~IsFree(mem, q) => q # p
  BY <1>3, <1>4 DEF Serves, Sound
<1>6. n + 2 <= Size(h.mem, p)
  BY <1>1, <1>5, LayoutFacts
<1>7. f = Fill(h.mem, id, p, n)
  BY DEF id
<1>8. g.mem = f /\ g.brk = h.brk /\ g.rover = h.rover
  <2> HIDE DEF f
  <2> QED
    BY <1>5 DEF HeapRecord
<1>9. mem' = o /\ brk' = h.brk /\ rover' = h.rover
  <2> HIDE DEF g, f
  <2> QED
    BY <1>1, <1>8 DEF Becomes
<1>10. /\ Layout(o, h.brk, C) /\ Apart(o, C) /\ Leaves(h.mem, C, o, C, {p}, {p})
       /\ ~IsFree(o, p) /\ Size(o, p) = Size(h.mem, p)
       /\ Payload(o, p, n, h.mem, p, sizes[id], id)
  <2>1. sizes[id] \in Nat /\ 0 \in Nat
    BY <1>2
  <2> HIDE DEF p, f
  <2>2. PICK z \in Nat : z = 0
    OBVIOUS
  <2> DEFINE x == Scrubbed(Fill(h.mem, id, p, n), z)
  <2>3. o = x
    BY <1>7, <2>2
  <2>4. /\ Layout(x, h.brk, C) /\ Apart(x, C) /\ Leaves(h.mem, C, x, C, {p}, {p})
        /\ ~IsFree(x, p) /\ Size(x, p) = Size(h.mem, p)
        /\ Payload(x, p, n, h.mem, p, sizes[id], id)
    <3>1. Layout(h.mem, h.brk, C) /\ Apart(h.mem, C) /\ p \in C /\ ~IsFree(h.mem, p)
      BY <1>5
    <3> QED
      BY <1>1, <1>2, <1>6, <2>1, <3>1, FilledIs
  <2> HIDE DEF o, x
  <2> QED
    BY <2>3, <2>4
<1> HIDE DEF o, p, f, g
<1>11. Leaves(mem, Blocks, o, C, {blocks[id], p}, {p})
  <2> DEFINE none == {}
             one == {p}
  <2>1. Leaves(mem, Blocks, h.mem, C, none, one) /\ Leaves(h.mem, C, o, C, one, one)
    BY <1>5, <1>10
  <2> HIDE DEF none, one
  <2>2. Leaves(mem, Blocks, o, C, none \cup one, (one \ one) \cup one)
    BY <2>1, LeavesThen DEF ImplicitInv, HeapInv
  <2>3. Leaves(mem, Blocks, o, C, {p}, {p})
    BY <2>2 DEF none, one
  <2>4. Blocks \ {p} = Blocks \ {blocks[id], p}
    BY <1>2, <1>3
  <2> QED
    BY <2>3, <2>4 DEF Leaves
<1>12. Payload(o, p, n, mem, blocks[id], sizes[id], id)
  BY <1>2, <1>10 DEF Payload
<1>13. n + 2 <= Size(o, p)
  BY <1>6, <1>10
<1>14. /\ p \in C
       /\ Layout(mem', brk', C) /\ Apart(mem', C) /\ brk' # First
       /\ rover' \in C \cup {heap_listp}
       /\ ~IsFree(mem', p) /\ n + 2 <= Size(mem', p)
       /\ Leaves(mem, Blocks, mem', C, {blocks[id], p}, {p})
       /\ \A q \in Blocks : ~IsFree(mem, q) => q # p
       /\ Owns(id, p, n)
       /\ Payload(mem', p, n, mem, blocks[id], sizes[id], id)
  BY <1>1, <1>5, <1>9, <1>10, <1>11, <1>12, <1>13 DEF p
<1>15. Gives(id, n)
  BY <1>14, Zenon DEF Gives
<1> QED
  BY <1>2, <1>9, <1>15 DEF id, h

\* free.
LEMMA FreeStep ==
    ASSUME ImplicitInv, NEW id \in Ids, Free(id)
    PROVE  id \in Live /\ TakesBack(id)
<1> DEFINE h == mm_free(Now, blocks[id])
           o == Scrubbed(h.mem, 0)
<1>1. id \in Live /\ mem' = o /\ brk' = h.brk /\ rover' = h.rover /\ Owns(id, Null, 0)
  BY DEF Free, Becomes
<1>2. Sound(Now, Blocks) /\ Now.mem = mem /\ Now.brk = brk
  BY NowIsSound
<1>3. blocks[id] \in Blocks
  BY <1>1 DEF ImplicitInv, HeapInv
<1>4. PICK C : Sound(h, C) /\ Leaves(mem, Blocks, h.mem, C, {blocks[id]}, {})
  BY <1>2, <1>3, FreeIs
<1> HIDE DEF h
<1>5. /\ Layout(h.mem, h.brk, C) /\ Apart(h.mem, C) /\ h.brk # First
      /\ h.rover \in C \cup {heap_listp}
  BY <1>4 DEF Sound
<1>6. Layout(o, h.brk, C) /\ Apart(o, C) /\ Leaves(h.mem, C, o, C, {}, {})
  <2>1. PICK z \in Nat : z = 0
    OBVIOUS
  <2>2. o = Scrubbed(h.mem, z)
    BY <2>1
  <2> HIDE DEF o
  <2> QED
    BY <1>5, <2>2, ScrubbedIs
<1> HIDE DEF o
<1>7. Leaves(mem, Blocks, o, C, {blocks[id]}, {})
  <2> DEFINE none == {}
             one == {blocks[id]}
  <2>1. Leaves(mem, Blocks, h.mem, C, one, none) /\ Leaves(h.mem, C, o, C, none, none)
    BY <1>4, <1>6
  <2> HIDE DEF none, one
  <2>2. Leaves(mem, Blocks, o, C, one \cup none, (none \ none) \cup none)
    BY <2>1, LeavesThen DEF ImplicitInv, HeapInv
  <2> QED
    BY <2>2 DEF none, one
<1> QED
  BY <1>1, <1>5, <1>6, <1>7 DEF TakesBack

\* realloc.
LEMMA ReallocStep ==
    ASSUME ImplicitInv, NEW id \in Ids, NEW n \in Requests, Realloc(id, n)
    PROVE  Gives(id, n) /\ brk' = mm_malloc(Now, n).brk
<1> DEFINE old == blocks[id]
           new == mm_malloc(Now, n)
           kept == Kept(new.mem, old, n)
           c == Copy(new.mem, new.bp, old, kept)
           g == [new EXCEPT !.mem = c]
           h == mm_free(g, old)
           f == Fill(h.mem, id, new.bp, n)
           o == Scrubbed(f, 0)
           p == new.bp
<1>1. /\ id \in Live /\ n \in Nat /\ p # Null /\ Becomes([h EXCEPT !.mem = f]) /\ Owns(id, p, n)
  BY HeapAssumption DEF Realloc
<1>2. /\ Sound(Now, Blocks) /\ Now.mem = mem /\ Now.brk = brk
      /\ Layout(mem, brk, Blocks)
      /\ old \in Blocks /\ ~IsFree(mem, old) /\ sizes[id] \in Nat
      /\ sizes[id] + 2 <= Size(mem, old)
  BY <1>1, NowIsSound DEF ImplicitInv, HeapInv
<1>3. PICK C : Serves(Now, Blocks, new, C, n)
  BY <1>1, <1>2, MallocIs
<1> HIDE DEF new
<1>4. /\ new \in HeapRecord /\ Layout(new.mem, new.brk, C) /\ Apart(new.mem, C)
      /\ new.brk # First /\ new.rover \in C \cup {heap_listp}
      /\ Leaves(mem, Blocks, new.mem, C, {}, {p})
      /\ p \in C /\ ~IsFree(new.mem, p) /\ Size(new.mem, p) >= n + 2
      /\ \A q \in Blocks : ~IsFree(mem, q) => q # p
  BY <1>2, <1>3 DEF Serves, Sound
<1> HIDE DEF p
<1>5. /\ n + 2 <= Size(new.mem, p) /\ Size(new.mem, p) \in Int
      /\ old \in C /\ ~IsFree(new.mem, old) /\ Held(mem, new.mem, old) /\ old # p
  <2>1. Size(new.mem, p) \in Int
    BY <1>4, LayoutFacts
  <2>2. old \in C /\ ~IsFree(new.mem, old) /\ Held(mem, new.mem, old)
    BY <1>2, <1>4 DEF Leaves
  <2> QED
    BY <1>1, <1>2, <1>4, <2>1, <2>2
<1>6. Size(new.mem, old) = Size(mem, old) /\ Size(new.mem, old) \in Nat
  <2>1. Size(new.mem, old) = Size(mem, old)
    BY <1>2, <1>5, HeldTags
  <2>2. Size(mem, old) \in Int /\ Size(mem, old) >= 4
    BY <1>2, LayoutFacts
  <2> QED
    BY <2>1, <2>2
<1> HIDE DEF old
<1>7. /\ kept \in Nat /\ kept <= n /\ kept <= Size(new.mem, old)
      /\ \A k \in 1..n : k <= sizes[id] => k \in 1..kept
  <2> DEFINE S == {n, Size(new.mem, old)}
             least == Min(S)
  <2>1. S \in SUBSET Nat /\ S # {}
    BY <1>1, <1>6
  <2>2. least \in S /\ \A y \in S : least <= y
    BY <2>1, LeastIn
  <2>3. kept = least
    BY DEF Kept
  <2> HIDE DEF least, kept
  <2>4. (least = n \/ least = Size(new.mem, old)) /\ least <= n /\ least <= Size(new.mem, old)
    BY <2>2
  <2> QED
    BY <1>1, <1>2, <1>6, <2>3, <2>4
<1> HIDE DEF kept
<1>8. /\ Layout(c, new.brk, C) /\ Apart(c, C) /\ Leaves(new.mem, C, c, C, {p}, {p})
      /\ \A r \in C : IsFree(c, r) = IsFree(new.mem, r) /\ Size(c, r) = Size(new.mem, r)
      /\ Payload(c, p, kept, new.mem, old, kept, 0)
  <2>1. c = Copy(new.mem, p, old, kept)
    BY DEF p
  <2> HIDE DEF c
  <2> QED
    BY <1>1, <1>4, <1>5, <1>7, <2>1, CopiedIs
<1>9. c \in Memory
  BY <1>8 DEF Layout
<1> HIDE DEF c
<1>10. /\ g \in HeapRecord /\ g.mem = c /\ g.brk = new.brk /\ g.rover = new.rover
  BY <1>4, <1>9 DEF HeapRecord
<1> HIDE DEF g
<1>11. Sound(g, C)
  BY <1>4, <1>8, <1>10 DEF Sound
<1>12. PICK D : Sound(h, D) /\ Leaves(c, C, h.mem, D, {old}, {}) /\ h.brk = g.brk
  BY <1>5, <1>10, <1>11, FreeIs
<1> HIDE DEF h
<1>13. /\ h \in HeapRecord /\ Layout(h.mem, h.brk, D) /\ Apart(h.mem, D) /\ h.brk # First
       /\ h.rover \in D \cup {heap_listp}
  BY <1>12 DEF Sound
<1>14. /\ p \in D /\ ~IsFree(h.mem, p) /\ Held(c, h.mem, p)
       /\ Size(c, p) = Size(new.mem, p) /\ Size(h.mem, p) = Size(c, p)
  <2>1. ~IsFree(c, p) /\ Size(c, p) = Size(new.mem, p)
    BY <1>4, <1>8
  <2>2. p \in D /\ ~IsFree(h.mem, p) /\ Held(c, h.mem, p)
    BY <1>4, <1>5, <1>12, <2>1 DEF Leaves
  <2>3. Size(h.mem, p) = Size(c, p)
    BY <1>4, <1>8, <2>2, HeldTags
  <2> QED
    BY <2>1, <2>2, <2>3
<1>15. n + 2 <= Size(h.mem, p)
  BY <1>5, <1>14
<1>16. mem' = o /\ brk' = h.brk /\ rover' = h.rover
  <2> DEFINE e == [h EXCEPT !.mem = f]
  <2>1. Becomes(e)
    BY <1>1 DEF h
  <2>2. e.mem = f /\ e.brk = h.brk /\ e.rover = h.rover
    <3> HIDE DEF f
    <3> QED
      BY <1>13 DEF HeapRecord
  <2> HIDE DEF e, f
  <2> QED
    BY <2>1, <2>2 DEF Becomes
<1>17. /\ Layout(o, h.brk, D) /\ Apart(o, D) /\ Leaves(h.mem, D, o, D, {p}, {p})
       /\ ~IsFree(o, p) /\ Size(o, p) = Size(h.mem, p)
       /\ Payload(o, p, n, h.mem, p, sizes[id], id)
  <2>1. PICK z \in Nat : z = 0
    OBVIOUS
  <2> DEFINE x == Scrubbed(Fill(h.mem, id, p, n), z)
  <2>2. o = x
    BY <2>1 DEF p
  <2>3. /\ Layout(x, h.brk, D) /\ Apart(x, D) /\ Leaves(h.mem, D, x, D, {p}, {p})
        /\ ~IsFree(x, p) /\ Size(x, p) = Size(h.mem, p)
        /\ Payload(x, p, n, h.mem, p, sizes[id], id)
    BY <1>1, <1>2, <1>13, <1>14, <1>15, FilledIs
  <2> HIDE DEF o, x
  <2> QED
    BY <2>2, <2>3
<1> HIDE DEF o, f
<1>18. Leaves(mem, Blocks, o, D, {old, p}, {p})
  <2> DEFINE none == {}
             one == {p}
             was == {old}
  <2>1. /\ Leaves(mem, Blocks, new.mem, C, none, one) /\ Leaves(new.mem, C, c, C, one, one)
        /\ Leaves(c, C, h.mem, D, was, none) /\ Leaves(h.mem, D, o, D, one, one)
    BY <1>4, <1>8, <1>12, <1>17
  <2> DEFINE out1 == none \cup one
             new1 == (one \ one) \cup one
             out2 == out1 \cup was
             new2 == (new1 \ was) \cup none
             out3 == out2 \cup one
             new3 == (new2 \ one) \cup one
  <2>2. out3 = {old, p} /\ new3 = {p}
    BY <1>5
  <2> HIDE DEF none, one, was
  <2>3. Leaves(mem, Blocks, c, C, out1, new1)
    BY <1>2, <2>1, LeavesThen
  <2> HIDE DEF out1, new1
  <2>4. Leaves(mem, Blocks, h.mem, D, out2, new2)
    BY <1>2, <2>1, <2>3, LeavesThen
  <2> HIDE DEF out2, new2
  <2>5. Leaves(mem, Blocks, o, D, out3, new3)
    BY <1>2, <2>1, <2>4, LeavesThen
  <2> HIDE DEF out3, new3
  <2> QED
    BY <2>2, <2>5
<1>19. Payload(o, p, n, mem, old, sizes[id], id)
  <2>1. \A k \in 1..n : k <= sizes[id] => o[p+k-1] = h.mem[p+k-1]
    BY <1>17 DEF Payload
  <2>2. \A k \in 1..n : ~(k <= sizes[id]) => o[p+k-1] = id
    BY <1>17 DEF Payload
  <2>3. \A k \in 1..n : h.mem[p+k-1] = c[p+k-1]
    <3>1. p \in Int /\ Size(c, p) \in Int /\ FTRP(c, p) = p + Size(c, p) - 2
      BY <1>4, <1>8, LayoutFacts
    <3>2. \A k \in 1..n : p + k - 1 \in p-1..FTRP(c, p)
      BY <1>1, <1>5, <1>14, <3>1
    <3> QED
      BY <1>14, <3>2 DEF Held
  <2>4. \A k \in 1..kept : c[p+k-1] = new.mem[old+k-1]
    BY <1>8 DEF Payload
  <2>5. \A k \in 1..n : k <= sizes[id] => new.mem[old+k-1] = mem[old+k-1]
    <3>1. old \in Int /\ Size(mem, old) \in Int /\ FTRP(mem, old) = old + Size(mem, old) - 2
      BY <1>2, LayoutFacts
    <3>2. \A k \in 1..n : k <= sizes[id] => old + k - 1 \in old-1..FTRP(mem, old)
      BY <1>1, <1>2, <3>1
    <3> QED
      BY <1>5, <3>2 DEF Held
  <2>6. \A k \in 1..n : k <= sizes[id] => o[p+k-1] = mem[old+k-1]
    BY <1>7, <2>1, <2>3, <2>4, <2>5
  <2> QED
    BY <2>2, <2>6 DEF Payload
<1>20. n + 2 <= Size(o, p)
  BY <1>15, <1>17
<1>21. \A q \in Blocks : ~IsFree(mem, q) => q # p
  BY <1>4
<1>22. /\ p \in D
       /\ Layout(mem', brk', D) /\ Apart(mem', D) /\ brk' # First
       /\ rover' \in D \cup {heap_listp}
       /\ ~IsFree(mem', p) /\ n + 2 <= Size(mem', p)
       /\ Leaves(mem, Blocks, mem', D, {blocks[id], p}, {p})
       /\ \A q \in Blocks : ~IsFree(mem, q) => q # p
       /\ Owns(id, p, n)
       /\ Payload(mem', p, n, mem, blocks[id], sizes[id], id)
  BY <1>1, <1>13, <1>14, <1>16, <1>17, <1>18, <1>19, <1>20, <1>21 DEF old
<1>23. Gives(id, n)
  BY <1>22, Zenon DEF Gives
<1> QED
  BY <1>10, <1>12, <1>16, <1>23 DEF new

-----------------------------------------------------------------------------
\* Every step keeps the invariant.
LEMMA ImplicitInvKept ==
    ASSUME ImplicitInv, [Next]_vars
    PROVE  ImplicitInv'
<1>1. ASSUME NEW id \in Ids, NEW n \in Requests, Gives(id, n), n # 0 PROVE ImplicitInv'
  <2>1. PICK C : \E p \in C :
            /\ Layout(mem', brk', C) /\ Apart(mem', C) /\ brk' # First
            /\ rover' \in C \cup {heap_listp}
            /\ ~IsFree(mem', p) /\ n + 2 <= Size(mem', p)
            /\ Leaves(mem, Blocks, mem', C, {blocks[id], p}, {p})
            /\ \A q \in Blocks : ~IsFree(mem, q) => q # p
            /\ Owns(id, p, n)
    BY <1>1, Zenon DEF Gives
  <2>2. HeapInv /\ n \in Nat
    BY HeapAssumption DEF ImplicitInv
  <2>3. HeapInv'
    BY <1>1, <2>1, <2>2, GivenStep
  <2>4. Blocks' = C
    BY <2>1, BlocksOfLayout DEF Blocks
  <2> QED
    BY <2>1, <2>3, <2>4 DEF ImplicitInv
<1>2. ASSUME NEW id \in Live, TakesBack(id) PROVE ImplicitInv'
  <2>1. PICK C : /\ Layout(mem', brk', C) /\ Apart(mem', C) /\ brk' # First
                 /\ rover' \in C \cup {heap_listp}
                 /\ Leaves(mem, Blocks, mem', C, {blocks[id]}, {})
                 /\ Owns(id, Null, 0)
    BY <1>2, Zenon DEF TakesBack
  <2>2. HeapInv
    BY DEF ImplicitInv
  <2>3. HeapInv'
    BY <2>1, <2>2, ReturnedStep
  <2>4. Blocks' = C
    BY <2>1, BlocksOfLayout DEF Blocks
  <2> QED
    BY <2>1, <2>3, <2>4 DEF ImplicitInv
<1>3. ASSUME NEW n \in Requests, Malloc(n) PROVE ImplicitInv'
  <2>1. n # 0
    BY <1>3 DEF Malloc
  <2> QED
    BY <1>1, <1>3, <2>1, MallocStep
<1>4. ASSUME NEW id \in Ids, Free(id) PROVE ImplicitInv'
  BY <1>2, <1>4, FreeStep
<1>5. ASSUME NEW id \in Ids, NEW n \in Requests, Realloc(id, n) PROVE ImplicitInv'
  <2>1. n # 0
    BY <1>5 DEF Realloc
  <2> QED
    BY <1>1, <1>5, <2>1, ReallocStep
<1>6. CASE UNCHANGED vars
  <2>1. /\ mem' = mem /\ brk' = brk /\ blocks' = blocks /\ sizes' = sizes /\ rover' = rover
    BY <1>6 DEF vars, heapVars, clientVars
  <2>2. Blocks' = Blocks /\ Live' = Live
    BY <2>1 DEF Blocks, Live
  <2> QED
    BY <2>1, <2>2 DEF ImplicitInv, HeapInv
<1> QED
  BY <1>3, <1>4, <1>5, <1>6, Zenon DEF Next

\* The invariant: the tags divide the heap without a gap, no two neighbours are
\* free, the blocks in use are those of the program, one for each and with room
\* for what it asked, and rover is at a block.
THEOREM ImplicitInvariant == Spec => []ImplicitInv
<1>1. Init => ImplicitInv
  BY InitIsSound
<1>2. ImplicitInv /\ [Next]_vars => ImplicitInv'
  BY ImplicitInvKept
<1> QED
  BY <1>1, <1>2, PTL DEF Spec

\* After every call of malloc, free and realloc the heap that mm_implicit_list.c
\* keeps is in order, and its used blocks are those of the calling program.
THEOREM TagsStaySound == Spec => []TagsSound
<1>1. ImplicitInv => TagsSound
  BY HeapIsSound DEF ImplicitInv
<1> QED
  BY <1>1, ImplicitInvariant, PTL

\* mm_checkheap of mm_implicit_list.c never reports an error.
THEOREM CheckheapStaysQuiet == Spec => []CheckheapQuiet
<1>1. ImplicitInv => CheckheapQuiet
  BY NothingToReport DEF ImplicitInv, CheckheapQuiet
<1> QED
  BY <1>1, ImplicitInvariant, PTL

\* The next search begins at a block, however blocks were merged meanwhile.
THEOREM RoverStaysOnABlock == Spec => []RoverOnBlock
<1>1. ImplicitInv => RoverOnBlock
  BY DEF ImplicitInv, RoverOnBlock
<1> QED
  BY <1>1, ImplicitInvariant, PTL

\* Every call of the implicit list is one that the abstract allocator allows:
\* blocks lie in the heap, are aligned and overlap no other, and what a block
\* holds is changed by no call but the one that it is given to.
THEOREM ImplicitListImplementsAllocator == Spec => ImplementsAllocator
<1>1. Init => Promise!Init
  <2> SUFFICES ASSUME Init PROVE Promise!Init
    OBVIOUS
  <2>1. blocks = [id \in Ids |-> 0] /\ sizes = [id \in Ids |-> 0]
    BY DEF Init, ClientInit, Null
  <2>2. \A id \in Ids : [k \in 1..sizes[id] |-> mem[blocks[id] + k - 1]] = <<>>
    BY <2>1
  <2>3. Contents = [id \in Ids |-> <<>>]
    BY <2>2 DEF Contents
  <2> QED
    BY <2>1, <2>3 DEF Promise!Init
<1>2. ImplicitInv /\ [Next]_vars => [Promise!Next]_Promise!vars
  <2> SUFFICES ASSUME ImplicitInv, [Next]_vars PROVE [Promise!Next]_Promise!vars
    OBVIOUS
  <2>1. ASSUME NEW id \in Ids, NEW n \in Requests, Gives(id, n), n # 0 PROVE Promise!Next
    <3>1. PICK C : \E p \in C :
              /\ Layout(mem', brk', C) /\ Apart(mem', C) /\ brk' # First
              /\ ~IsFree(mem', p) /\ n + 2 <= Size(mem', p)
              /\ Leaves(mem, Blocks, mem', C, {blocks[id], p}, {p})
              /\ \A q \in Blocks : ~IsFree(mem, q) => q # p
              /\ Owns(id, p, n)
              /\ Payload(mem', p, n, mem, blocks[id], sizes[id], id)
      BY <2>1, Zenon DEF Gives
    <3>2. HeapInv /\ n \in Nat
      BY HeapAssumption DEF ImplicitInv
    <3> QED
      BY <2>1, <3>1, <3>2, GivenKeepsPromise
  <2>2. ASSUME NEW id \in Live, TakesBack(id) PROVE Promise!Next
    <3>1. PICK C : /\ Leaves(mem, Blocks, mem', C, {blocks[id]}, {})
                   /\ Owns(id, Null, 0)
      BY <2>2, Zenon DEF TakesBack
    <3>2. HeapInv
      BY DEF ImplicitInv
    <3> QED
      BY <3>1, <3>2, ReturnedKeepsPromise
  <2>3. ASSUME NEW n \in Requests, Malloc(n) PROVE Promise!Next
    <3>1. n # 0
      BY <2>3 DEF Malloc
    <3> QED
      BY <2>1, <2>3, <3>1, MallocStep
  <2>4. ASSUME NEW id \in Ids, Free(id) PROVE Promise!Next
    BY <2>2, <2>4, FreeStep
  <2>5. ASSUME NEW id \in Ids, NEW n \in Requests, Realloc(id, n) PROVE Promise!Next
    <3>1. n # 0
      BY <2>5 DEF Realloc
    <3> QED
      BY <2>1, <2>5, <3>1, ReallocStep
  <2>6. CASE UNCHANGED vars
    <3>1. mem' = mem /\ blocks' = blocks /\ sizes' = sizes
      BY <2>6 DEF vars, heapVars, clientVars
    <3> QED
      BY <3>1 DEF Promise!vars, Contents
  <2> QED
    BY <2>3, <2>4, <2>5, <2>6, Zenon DEF Next
<1> QED
  BY <1>1, <1>2, ImplicitInvariant, PTL DEF Spec, ImplementsAllocator, Promise!Spec

\* The heap grows only for a call that no free block would have served: next fit
\* has looked at every block, before and behind rover, when it gives up.
THEOREM GrowsOnlyForWant ==
    Spec => [][\A n \in Requests :
                   (Malloc(n) \/ \E id \in Ids : Realloc(id, n)) /\ brk' # brk =>
                       \A bp \in FreeBlocks : Size(mem, bp) < AdjustedSize(n)]_vars
<1> DEFINE A == \A n \in Requests :
                   (Malloc(n) \/ \E id \in Ids : Realloc(id, n)) /\ brk' # brk =>
                       \A bp \in FreeBlocks : Size(mem, bp) < AdjustedSize(n)
<1>1. ImplicitInv => A
  <2> SUFFICES ASSUME ImplicitInv, NEW n \in Requests, brk' # brk, NEW bp \in Blocks, IsFree(mem, bp),
                      Malloc(n) \/ \E id \in Ids : Realloc(id, n)
               PROVE  Size(mem, bp) < AdjustedSize(n)
    BY DEF FreeBlocks
  <2> DEFINE new == mm_malloc(Now, n)
  <2>1. n \in Nat /\ Sound(Now, Blocks) /\ Now.mem = mem /\ Now.brk = brk
    BY HeapAssumption, NowIsSound
  <2>2. new.bp # Null
    BY DEF Malloc, Realloc
  <2>3. brk' = new.brk
    BY MallocStep, ReallocStep
  <2>4. PICK C : Serves(Now, Blocks, new, C, n)
    BY <2>1, <2>2, MallocIs
  <2> HIDE DEF new
  <2> QED
    BY <2>1, <2>3, <2>4 DEF Serves
<1> QED
  BY <1>1, ImplicitInvariant, PTL

=============================================================================
