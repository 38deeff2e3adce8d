------------------------------- MODULE MDriver -------------------------------
(***************************************************************************)
(* mdriver.c: a trace is written, balanced, read, run once to see whether  *)
(* the malloc package is right, once for its utilization and again for its *)
(* speed.  The package is any package: one that keeps what it promises, or *)
(* one that returns whatever it likes, or libc's, which is only run.       *)
(*                                                                         *)
(* The heap is Heap words that mem_sbrk has handed out; an address is      *)
(* aligned when it is even.                                                *)
(***************************************************************************)
EXTENDS Integers, TraceFiles

CONSTANTS
    HeapSize,       \* words of the heap
    Sizes,          \* sizes of blocks, in words
    HandWritten,    \* traces that no script wrote
    NumTraces       \* traces that are run one after the other

VARIABLES
    stage,      \* what is done next with the trace
    file,       \* the trace
    step,       \* lines of it that are done, or blocks that gen_random has freed
    package,    \* "right": it keeps what it promises; "any"; "libc"
    blocks, block_sizes,        \* trace->blocks, trace->block_sizes
    ranges,     \* the range list, the newest first
    mem,        \* the words of the heap
    errors,     \* malloc_errors
    numcorrect, \* traces that were valid
    util,       \* sum of the utilizations, in words of the heap
    perfindex,  \* what is printed in the end
    left        \* traces that main has not come to yet

evalVars == <<blocks, block_sizes, ranges, mem>>
statVars == <<numcorrect, util, perfindex>>
driverVars == <<stage, file, step, package, evalVars, errors, statVars, left>>

NULL == -1
keeps == package # "any"
HeapArea == 0..HeapSize-1
Ids == 0..2
Extent(lo, n) == lo..lo+n-1

-----------------------------------------------------------------------------
\* A line, and the blocks that are allocated after the first k lines.
Line == file.ops[step + 1]
Allocated(k) == Checked([file EXCEPT !.ops = SubSeq(@, 1, k)]).HASH
Held == Allocated(step)

\* Where a package may put a block.  One that is right finds room: MAX_HEAP is
\* far more than the traces need.
Answers(id, n) ==
    IF ~keeps THEN {NULL} \cup 0..HeapSize
    ELSE {p \in HeapArea : p % 2 = 0 /\ Extent(p, n) \subseteq HeapArea
            /\ \A other \in Held \ {id} :
                 Extent(p, n) \cap Extent(blocks[other], block_sizes[other]) = {}}

Filled(m, lo, n, id) == [w \in HeapArea |-> IF w \in Extent(lo, n) THEN id ELSE m[w]]
Moved(m, to, from, n) ==
    [w \in HeapArea |-> IF w \in Extent(to, n) /\ from + (w - to) \in HeapArea
                        THEN m[from + (w - to)] ELSE m[w]]

\* add_range: what it has nothing against.
RangeAccepted(list, lo, n) ==
    LET hi == lo + n - 1
    IN  /\ lo % 2 = 0
        /\ {lo, hi} \subseteq HeapArea
        /\ \A k \in DOMAIN list : {lo, hi} \cap list[k].lo..list[k].hi = {}
WithRange(list, lo, n) == <<[lo |-> lo, hi |-> lo + n - 1]>> \o list

\* A slip: the newest range goes, whatever it is.
WithoutNewest(list, lo) == IF list = <<>> THEN list ELSE Tail(list)

\* remove_range: the first range that begins at lo, if there is one.
WithoutRange(list, lo) ==
    IF \E k \in DOMAIN list : list[k].lo = lo
    THEN RemoveAt(list, SelectInSeq(list, LAMBDA x : x.lo = lo))
    ELSE list

-----------------------------------------------------------------------------
DriverInit ==
    /\ stage = "write" /\ file = File(0, 0, <<>>) /\ step = 0
    /\ package \in {"right", "any", "libc"}
    /\ blocks = [id \in Ids |-> NULL] /\ block_sizes = [id \in Ids |-> 0]
    /\ ranges = <<>> /\ mem = [w \in HeapArea |-> 0]
    /\ errors = 0 /\ numcorrect = 0 /\ util = 0 /\ perfindex = 0 /\ left = NumTraces

WriteTrace ==
    /\ stage = "write" /\ left > 0
    /\ left' = left - 1 /\ step' = 0
    /\ \/ /\ file' \in HandWritten \cup {gen_binary(1, 1, 2), gen_coalescing(1, 1),
                                         gen_realloc(2, 1, 1, 1)}
          /\ stage' = "balance"
       \/ /\ \E n \in 1..2 : \E size \in [1..n -> Sizes \cup {0}] : file' = RandomBlocks(size)
          /\ stage' = "insert"
    /\ UNCHANGED <<package, evalVars, errors, statVars>>

\* gen_random: the line that frees the next block.
InsertFree ==
    /\ stage = "insert"
    /\ \E pos \in FreePositions(file.ops, step) : file' = WithFree(file, step, pos)
    /\ step' = step + 1
    /\ stage' = IF step + 1 = file.num_ids THEN "balance" ELSE "insert"
    /\ UNCHANGED <<package, evalVars, errors, statVars, left>>

checktrace ==
    /\ stage = "balance"
    /\ IF Checked(file).died
       THEN stage' = "refused" /\ UNCHANGED file
       ELSE stage' = "read" /\ file' = Balanced(file)
    /\ UNCHANGED <<step, package, evalVars, errors, statVars, left>>

\* read_trace, with its two assertions, and the reset of the heap and of the range
\* list in eval_mm_valid.  What the heap's words hold is of no interest any more.
MaxIndex == Max({0} \cup {file.ops[k].index : k \in {j \in DOMAIN file.ops :
                                                       file.ops[j].type # "FREE"}})

read_trace ==
    /\ stage = "read"
    /\ IF MaxIndex = file.num_ids - 1 /\ file.num_ops = Len(file.ops)
       THEN /\ stage' = (IF package = "libc" THEN "libc valid" ELSE "init") /\ step' = 0
            /\ ranges' = <<>> /\ mem' = [w \in HeapArea |-> 0]
            /\ blocks' = [id \in Ids |-> NULL] /\ block_sizes' = [id \in Ids |-> 0]
       ELSE stage' = "exited" /\ UNCHANGED <<step, evalVars>>
    /\ UNCHANGED <<file, package, errors, statVars, left>>

-----------------------------------------------------------------------------
\* eval_mm_valid.  malloc_error ends it; main goes on to the next trace.
malloc_error == errors' = errors + 1 /\ stage' = "write" /\ UNCHANGED <<step, evalVars>>

mm_init ==
    /\ stage = "init"
    /\ \/ stage' = "valid" /\ UNCHANGED <<step, evalVars, errors>>
       \/ ~keeps /\ malloc_error
    /\ UNCHANGED <<file, package, statVars, left>>

\* What follows when the package has returned p for a block of n words, with m
\* in memory and list left of the range list.
Remembered(id, p, n, m, list) ==
    /\ ranges' = WithRange(list, p, n)
    /\ mem' = Filled(m, p, n, id)
    /\ blocks' = [blocks EXCEPT ![id] = p]
    /\ block_sizes' = [block_sizes EXCEPT ![id] = n]
    /\ step' = step + 1
    /\ UNCHANGED <<stage, errors>>

\* A package that is right refuses a request for nothing, as the lab's do.
Returned(id, n) == IF n = 0 /\ keeps THEN {NULL} ELSE Answers(id, n)

\* add_range begins with assert(size > 0), which ends the driver.
Aborts == stage' = "exited" /\ UNCHANGED <<errors, step, evalVars>>

Judged(p, n, good, Remember) ==
    \/ p # NULL /\ n = 0 /\ Aborts
    \/ (p # NULL => n > 0 /\ ~good) /\ malloc_error
    \/ p # NULL /\ n > 0 /\ good /\ Remember

EvalAlloc ==
    /\ Line.type = "ALLOC"
    /\ \E p \in Returned(Line.index, Line.size) :
         Judged(p, Line.size, RangeAccepted(ranges, p, Line.size),
                Remembered(Line.index, p, Line.size, mem, ranges))

\* The words that were there must have moved with the block.
EvalRealloc ==
    /\ Line.type = "REALLOC"
    /\ LET id == Line.index
           n == Line.size
           kept == Min({n, block_sizes[id]})
           list == WithoutRange(ranges, blocks[id])
       IN  \E p \in Returned(id, n), copies \in {TRUE, keeps} :
             LET m == IF p # NULL /\ copies THEN Moved(mem, p, blocks[id], kept) ELSE mem
             IN  Judged(p, n, RangeAccepted(list, p, n) /\ \A w \in Extent(p, kept) : m[w] = id,
                        Remembered(id, p, n, m, list))

EvalFree ==
    /\ Line.type = "FREE"
    /\ ranges' = WithoutRange(ranges, blocks[Line.index])
    /\ step' = step + 1
    /\ UNCHANGED <<stage, errors, mem, blocks, block_sizes>>

eval_mm_valid ==
    /\ stage = "valid"
    /\ IF step < Len(file.ops) THEN (EvalAlloc \/ EvalRealloc \/ EvalFree) /\ UNCHANGED numcorrect
       ELSE /\ stage' = "util" /\ numcorrect' = numcorrect + 1
            /\ UNCHANGED <<step, evalVars, errors>>
    /\ UNCHANGED <<file, package, util, perfindex, left>>

-----------------------------------------------------------------------------
\* total_size, max_total_size and block_sizes after one more line.
Total(total, op) ==
    LET now == CASE op.type = "ALLOC" -> total.now + op.size
                 [] op.type = "REALLOC" -> total.now + (op.size - total.sizes[op.index])
                 [] op.type = "FREE" -> total.now - total.sizes[op.index]
    IN  [now |-> now,
         max |-> IF op.type = "FREE" THEN total.max ELSE Max({now, total.max}),
         sizes |-> IF op.type = "FREE" THEN total.sizes
                   ELSE [total.sizes EXCEPT ![op.index] = op.size]]

\* eval_mm_util and eval_mm_speed run the trace again and do not look at what
\* they are given; a package that fails now ends the program.
eval_mm_util ==
    /\ stage = "util"
    /\ util' = util + FoldLeft(Total, [now |-> 0, max |-> 0, sizes |-> block_sizes], file.ops).max
    /\ stage' \in {"speed"} \cup (IF keeps THEN {} ELSE {"exited"})
    /\ UNCHANGED <<file, step, package, evalVars, errors, numcorrect, perfindex, left>>

eval_mm_speed ==
    /\ stage = "speed"
    /\ stage' \in {"write"} \cup (IF keeps THEN {} ELSE {"exited"})
    /\ UNCHANGED <<file, step, package, evalVars, errors, statVars, left>>

-----------------------------------------------------------------------------
\* libc, which mdriver expects to succeed: a failure ends the program.  It gives
\* something for a request for nothing, and frees a block that is to have
\* nothing, and returns a null pointer.
LibcFails == Line.type = "REALLOC" /\ Line.size = 0

LibcStep(then) ==
    IF step = Len(file.ops) THEN step' = 0 /\ stage' = then /\ UNCHANGED errors
    ELSE IF LibcFails THEN stage' = "exited" /\ errors' = errors + 1 /\ UNCHANGED step
    ELSE step' = step + 1 /\ UNCHANGED <<stage, errors>>

eval_libc_valid ==
    /\ stage = "libc valid"
    /\ LibcStep("libc speed")
    /\ UNCHANGED <<file, package, evalVars, statVars, left>>

eval_libc_speed ==
    /\ stage = "libc speed"
    /\ LibcStep("write")
    /\ UNCHANGED <<file, package, evalVars, statVars, left>>

-----------------------------------------------------------------------------
\* The end of main.  A throughput above libc's counts as libc's.
AVG_LIBC_THRUPUT == 2
UTIL_WEIGHT == 60

PerfIndex ==
    /\ stage = "write" /\ left = 0 /\ package # "libc"
    /\ \E throughput \in 0..AVG_LIBC_THRUPUT + 1 :
         perfindex' = IF errors # 0 THEN 0
                      ELSE (UTIL_WEIGHT * util) \div (NumTraces * HeapSize)
                           + ((100 - UTIL_WEIGHT) * Min({throughput, AVG_LIBC_THRUPUT}))
                                \div AVG_LIBC_THRUPUT
    /\ stage' = "done"
    /\ UNCHANGED <<file, step, package, evalVars, errors, numcorrect, util, left>>

DriverNext ==
    \/ WriteTrace \/ InsertFree \/ checktrace \/ read_trace
    \/ eval_libc_valid \/ eval_libc_speed
    \/ mm_init \/ eval_mm_valid \/ eval_mm_util \/ eval_mm_speed \/ PerfIndex

DriverSpec == DriverInit /\ [][DriverNext]_driverVars

-----------------------------------------------------------------------------
\* A package that is right is never reported, and no trace is lost on the way:
\* what the scripts write is consistent, its header counts what follows, and
\* balancing keeps it so.  The utilization is at most one, the index at most a
\* hundred, and nothing unless all traces were valid.  The exception is a
\* block of no bytes, which gen_random asks for once in a while, and which no
\* package can give; and mdriver never gets to them when libc fails, which it
\* does when a block is to have nothing, and only then.
AsksForNothing(type) ==
    \E k \in DOMAIN file.ops : file.ops[k].type = type /\ file.ops[k].size = 0

RightPackagePasses ==
    [][/\ stage' = "refused" => file \in HandWritten
       /\ stage = "read" /\ stage' = "exited" => file \in {Balanced(x) : x \in HandWritten}
       /\ package = "right" /\ stage # "read" => stage' # "exited" /\ util' <= util + HeapSize
       /\ package = "right" /\ errors' # errors =>
              AsksForNothing("ALLOC") \/ AsksForNothing("REALLOC")
       /\ package = "libc" /\ stage # "read" /\ stage' = "exited" => AsksForNothing("REALLOC")
       /\ stage' = "done" /\ perfindex' > 0 => numcorrect = NumTraces
       /\ stage' = "done" /\ package = "right" => perfindex' <= 100
      ]_driverVars

\* While a trace is run, whatever the package returns, the driver knows every
\* block it holds by one range; two of them overlap only where the newer one
\* encloses the older, which add_range does not see.
RangesKnown ==
    stage = "valid" =>
        /\ Len(ranges) = Cardinality(Held)
        /\ ToSet(ranges) =
             {[lo |-> blocks[id], hi |-> blocks[id] + block_sizes[id] - 1] : id \in Held}
        /\ \A new, old \in DOMAIN ranges : new < old =>
             \/ (ranges[new].lo..ranges[new].hi) \cap (ranges[old].lo..ranges[old].hi) = {}
             \/ ranges[new].lo < ranges[old].lo /\ ranges[old].hi < ranges[new].hi
=============================================================================
