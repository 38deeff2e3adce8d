---------------------------- MODULE MCSequential ----------------------------
(***************************************************************************)
(* The programs of the labs that run on one thread, for TLC.  A behaviour  *)
(* is of one of them: the transposes on the cache of test-trans.c, which   *)
(* the constants s, E and b describe; the cache simulator on every short   *)
(* trace of a small cache of two sets and two ways; btest on the bit       *)
(* puzzles; mdriver on traces and malloc packages, and its timing package; *)
(* processes that call csapp.c; the shell that reads its input.            *)
(***************************************************************************)
EXTENDS Transpose

CONSTANT SmallAddrs

VARIABLES
    program,
    puzzle, tested, failures,
    stage, file, step, package, blocks, block_sizes, ranges, mem, errors,
    numcorrect, util, perfindex, left,
    status, failed, errno, printed, helper, fds, kept,
    timer, phase, runs, params, cache_bytes, cache_buf, cyc_per_tick, gap, values, taken,
    input, shell, evaluated, typed,
    process, rioErrno, transfer, returned, unread, received

puzzleVars == <<puzzle, tested, failures>>
traceVars == <<stage, file, step, package, blocks, block_sizes, ranges, mem, errors,
               numcorrect, util, perfindex, left>>
callVars == <<status, failed, errno, printed, helper, fds, kept>>
timeVars == <<timer, phase, runs, params, cache_bytes, cache_buf, cyc_per_tick, gap, values, taken>>
lineVars == <<input, shell, evaluated, typed>>
rioVars == <<process, rioErrno, transfer, returned, unread, received>>
vars == <<transVars, program, puzzleVars, traceVars, callVars, timeVars, lineVars, rioVars>>

Small == INSTANCE CacheSim WITH
    s <- 1, E <- 2, b <- 1, TagBits <- 4, Addrs <- SmallAddrs, MaxAccesses <- 8

\* Any words may be the random ones.  Here they are runs of ones, and such
\* runs with one bit turned where a puzzle has an edge.
Ones == {lo..hi : lo, hi \in 0..31}
Puzzles == INSTANCE Bits WITH
    TestRange <- <<64, 8, 3>>,
    RandomWords <- <<{(w \ {k}) \cup ({k} \ w) : w \in Ones, k \in {0, 7, 8, 9, 31}},
                     {lo..hi : lo \in {0, 5, 31}, hi \in {4, 30, 31}},
                     {{0, 31}, 3..20}>>

\* Traces that no script wrote: one to be balanced, one that uses a number
\* again and reallocates, one that reallocates to nothing, one that frees
\* twice, one that reallocates what is not there, and two whose headers count
\* wrong.
Traces == INSTANCE TraceFiles
Written == LET a(id, n) == Traces!a(id, n)
               r(id, n) == Traces!r(id, n)
               f(id) == Traces!f(id)
           IN  {Traces!File(3, 3, <<a(0, 1), a(1, 3), a(2, 1)>>),
                Traces!File(2, 6, <<a(0, 2), a(1, 1), f(0), a(0, 3), r(1, 3), r(0, 1)>>),
                Traces!File(1, 2, <<a(0, 1), r(0, 0)>>),
                Traces!File(1, 3, <<a(0, 1), f(0), f(0)>>),
                Traces!File(2, 2, <<a(0, 1), r(1, 1)>>),
                Traces!File(2, 1, <<a(0, 1)>>),
                Traces!File(1, 2, <<a(0, 1)>>)}
Driver == INSTANCE MDriver WITH HeapSize <- 8, Sizes <- {1, 3},
                               HandWritten <- Written, NumTraces <- 2

\* A long of six bits, and two addresses for every name.
Calls == INSTANCE SocketHelpers WITH Fds <- {3, 4}, MaxAddresses <- 2, LongBits <- 6

\* A counter of two halves with two bits each, and costs that let the lower half
\* turn over in a run, in an interrupt, and in both.
FcycParameters ==
    {[k |-> 2, maxsamples |-> 3, epsilon |-> 50, compensate |-> TRUE, clear_cache |-> TRUE],
     [k |-> 3, maxsamples |-> 4, epsilon |-> 50, compensate |-> FALSE, clear_cache |-> FALSE],
     [k |-> 2, maxsamples |-> 1, epsilon |-> 50, compensate |-> FALSE, clear_cache |-> TRUE]}
Timing == INSTANCE Timers WITH
    CounterBits <- 2, TickCost <- 6, ReadCost <- 1, THRESHOLD <- 2, RECORDTHRESH <- 4,
    NEVENT <- 2, Costs <- {2, 3, 9}, Parameters <- FcycParameters, CacheSizes <- {1, 2},
    Second <- 4, MAX_ETIME <- 3, MaxRuns <- 2

\* Two lines of up to two words: a program, builtin commands, an ampersand, a
\* word with a blank, and one without characters.  Ten characters fit a line.
Typing == INSTANCE CommandLine WITH
    MAXLINE <- 11, MAXARGS <- 3, MaxWords <- 2, MaxLines <- 2, Gaps <- {0, 1},
    Vocabulary <- {<<"a">>, <<"q">>, <<"j">>, <<"&">>, <<"a", " ", "&">>, <<>>}

Plain == INSTANCE RioUnbuffered WITH StreamLength <- 4, MaxBytes <- 3

NoMatrix == size = NoSize /\ pos = 0 /\ B = <<>>
NoPuzzles == puzzle = 0 /\ tested = <<>> /\ failures = 0
NoTrace ==
    /\ stage = "none" /\ file = <<>> /\ step = 0 /\ package = "none" /\ blocks = <<>>
    /\ block_sizes = <<>> /\ ranges = <<>> /\ mem = <<>> /\ errors = 0
    /\ numcorrect = 0 /\ util = 0 /\ perfindex = 0 /\ left = 0
NoTiming ==
    /\ timer = "none" /\ phase = "none" /\ runs = 0 /\ params = <<>> /\ cache_bytes = 0
    /\ cache_buf = 0 /\ cyc_per_tick = 0 /\ gap = <<>> /\ values = <<>> /\ taken = <<>>
NoLines == input = <<>> /\ shell = "none" /\ evaluated = <<>> /\ typed = <<>>

NoTransfer ==
    /\ process = "none" /\ rioErrno = "none" /\ transfer = <<>> /\ returned = <<>>
    /\ unread = <<>> /\ received = <<>>

Programs == {"test-trans", "csim", "btest", "mdriver", "csapp", "rio", "fsecs", "tsh"}

\* What a program does not use is in its first state, or in one of its own.
MCInit ==
    /\ program \in Programs
    /\ IF program = "test-trans" THEN TransposeInit ELSE Small!Init /\ NoMatrix
    /\ IF program = "btest" THEN Puzzles!Init ELSE NoPuzzles
    /\ IF program = "mdriver" THEN Driver!DriverInit ELSE NoTrace
    /\ Calls!WrappersInit
    /\ IF program = "fsecs" THEN Timing!TimersInit ELSE NoTiming
    /\ IF program = "tsh" THEN Typing!CommandLineInit ELSE NoLines
    /\ IF program = "rio" THEN Plain!UnbufferedInit ELSE NoTransfer

MCTranspose ==
    /\ program = "test-trans" /\ TransposeStep
    /\ UNCHANGED <<program, puzzleVars, traceVars, callVars, timeVars, lineVars, rioVars>>
MCSimulator ==
    /\ program = "csim" /\ Small!Next
    /\ UNCHANGED <<program, size, pos, B, puzzleVars, traceVars, callVars, timeVars, lineVars, rioVars>>
MCPuzzles ==
    /\ program = "btest" /\ Puzzles!Next
    /\ UNCHANGED <<program, transVars, traceVars, callVars, timeVars, lineVars, rioVars>>
MCDriver ==
    /\ program = "mdriver" /\ Driver!DriverNext
    /\ UNCHANGED <<program, transVars, puzzleVars, callVars, timeVars, lineVars, rioVars>>
MCCalls ==
    /\ program = "csapp" /\ Calls!Next
    /\ UNCHANGED <<program, transVars, puzzleVars, traceVars, timeVars, lineVars, rioVars>>
MCTiming ==
    /\ program = "fsecs" /\ Timing!TimersNext
    /\ UNCHANGED <<program, transVars, puzzleVars, traceVars, callVars, lineVars, rioVars>>
MCLines ==
    /\ program = "tsh" /\ Typing!CommandLineNext
    /\ UNCHANGED <<program, transVars, puzzleVars, traceVars, callVars, timeVars, rioVars>>
MCBytes ==
    /\ program = "rio" /\ Plain!UnbufferedNext
    /\ UNCHANGED <<program, transVars, puzzleVars, traceVars, callVars, timeVars, lineVars>>

MCNext ==
    MCTranspose \/ MCSimulator \/ MCPuzzles \/ MCDriver \/ MCCalls \/ MCTiming \/ MCLines
    \/ MCBytes

MCSpec == MCInit /\ [][MCNext]_vars

-----------------------------------------------------------------------------
Simulated(value, otherwise) == IF program = "csim" THEN value ELSE otherwise

SmallDemand == INSTANCE DemandCache WITH
    Blocks <- {a \div 2 : a \in SmallAddrs}, SetCount <- 2, Ways <- 2,
    resident <- Simulated(Small!Resident, {}), order <- Simulated(order, <<>>),
    hits <- Simulated(hits, 0), misses <- Simulated(misses, 0),
    evictions <- Simulated(evictions, 0)

\* csim.c on the small cache counts as a cache with some policy does.
SimulatorIsACache == SmallDemand!Spec

\* Every solution of bits.c gives what the function of tests.c gives, on every
\* combination of arguments that btest may try.
PuzzlesSolved == failures = 0

\* RightPackagePasses and RangesKnown of MDriver: mdriver never blames a
\* package that is right, and knows what a package holds whatever it returns.
RightPackagePasses == Driver!RightPackagePasses
RangesKnown == Driver!RangesKnown

\* Both of Transpose: the assignments transpose the matrix, and the misses stay
\* below what the grader asks for.
TransposesGraded == TransposeCorrect /\ WithinMissLimit

\* FailuresHandled of SocketHelpers and BytesWhole of RioUnbuffered, TimesRight
\* of Timers, CommandsParsed of CommandLine: the wrappers end the process when
\* and only when a call has failed, and those that go on after a short count or
\* an interruption move every byte once; the time that is measured is the time
\* that passed; and a command arrives as it was typed.
FailuresHandled ==
    /\ program = "csapp" => Calls!FailuresHandled
    /\ program = "rio" => Plain!BytesWhole
TimesRight == program = "fsecs" => Timing!TimesRight
CommandsParsed == program = "tsh" => Typing!CommandsParsed
=============================================================================
