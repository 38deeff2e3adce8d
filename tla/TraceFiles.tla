----------------------------- MODULE TraceFiles -----------------------------
(***************************************************************************)
(* The traces the malloc driver is given: the scripts gen_*.pl that write  *)
(* them, and checktrace.pl, which refuses a trace that is not consistent   *)
(* and appends the requests to free what a trace leaves allocated.         *)
(***************************************************************************)
EXTENDS Naturals, SequencesExt

\* A line of a trace.
a(id, n) == [type |-> "ALLOC", index |-> id, size |-> n]
r(id, n) == [type |-> "REALLOC", index |-> id, size |-> n]
f(id) == [type |-> "FREE", index |-> id, size |-> 0]

\* The header's two numbers that are used, and the lines.
File(num_ids, num_ops, ops) == [num_ids |-> num_ids, num_ops |-> num_ops, ops |-> ops]

-----------------------------------------------------------------------------
\* The scripts; n is num_iters.  gen_binary2 and gen_realloc2 differ from
\* gen_binary and gen_realloc in the sizes only.
gen_binary(n, blk_size1, blk_size2) ==
    File(3*n, 4*n,
         FlattenSeq([i \in 1..n |-> <<a(2*i - 2, blk_size1), a(2*i - 1, blk_size2)>>])
         \o [i \in 1..n |-> f(2*i - 1)]
         \o [i \in 1..n |-> a(2*n + i - 1, blk_size1 + blk_size2)])

gen_coalescing(n, blk_size) ==
    File(3*n, 6*n,
         FlattenSeq([i \in 1..n |->
             LET blk == 3 * (i-1)
             IN  <<a(blk, blk_size), a(blk+1, blk_size), f(blk), f(blk+1),
                   a(blk+2, 2*blk_size), f(blk+2)>>]))

gen_realloc(n, realloc_size, size_increment, malloc_size) ==
    File(n+1, 3*n + 1,
         <<a(0, realloc_size), a(1, malloc_size)>>
         \o FlattenSeq([i \in 1..n-1 |->
                <<r(0, realloc_size + i*size_increment), a(i+1, malloc_size), f(i)>>])
         \o <<f(n), f(0)>>)

\* gen_random begins with one block after the other, of random sizes, and then
\* inserts for each in turn the line that frees it.
RandomBlocks(size) ==
    LET n == Len(size) IN File(n, 2*n, [i \in 1..n |-> a(i-1, size[i])])

\* A slip: the line that allocates the block is not skipped.
FreePositionsEarly(ops, i) ==
    LET minval == (CHOOSE k \in DOMAIN ops : ops[k].type = "ALLOC" /\ ops[k].index = i) - 1
    IN  {minval + k : k \in 0..Len(ops) - minval - 1}

\* minval is the place of the line that allocates block i, places counted from
\* 0; rand(k) is below k, and below 1 when k is 0.
FreePositions(ops, i) ==
    LET minval == (CHOOSE k \in DOMAIN ops : ops[k].type = "ALLOC" /\ ops[k].index = i) - 1
        span == Len(ops) - minval - 1
    IN  {minval + 1 + k : k \in 0..(IF span = 0 THEN 0 ELSE span - 1)}

WithFree(trace, i, pos) == [trace EXCEPT !.ops = InsertAt(@, pos + 1, f(i))]

-----------------------------------------------------------------------------
\* checktrace.pl reads a trace line by line; HASH holds the blocks that are
\* allocated and not freed.  The two tests that should find a block number
\* that is used again, or freed twice, look for an entry "f", which is never
\* made: a number that has been freed may be used again.
Tally(tally, op) ==
    LET known == op.index \in tally.HASH
    IN  CASE tally.died -> tally
          [] ~tally.died /\ known = (op.type = "ALLOC") -> [tally EXCEPT !.died = TRUE]
          [] OTHER -> [tally EXCEPT !.HASH =
                 IF op.type = "FREE" THEN @ \ {op.index} ELSE @ \cup {op.index}]

Checked(trace) == FoldLeft(Tally, [HASH |-> {}, died |-> FALSE], trace.ops)

\* The frees that are appended; the script sorts them as text.
Balanced(trace) ==
    LET left == SetToSeq(Checked(trace).HASH)
    IN  File(trace.num_ids, trace.num_ops + Len(left),
             trace.ops \o [k \in 1..Len(left) |-> f(left[k])])
=============================================================================
