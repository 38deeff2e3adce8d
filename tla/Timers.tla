------------------------------- MODULE Timers -------------------------------
(***************************************************************************)
(* The timing package of mdriver.c: fsecs.c, which calls one of            *)
(* - fcyc.c, the K-best scheme on the cycle counter of clock.c, made free  *)
(*   of what timer interrupts take,                                        *)
(* - the two functions of ftimer.c.                                        *)
(*                                                                         *)
(* The cycle counter is two halves of CounterBits bits.  A timer interrupt *)
(* comes at any instant, takes TickCost cycles and adds one to what times  *)
(* returns; two of them are far apart.                                     *)
(***************************************************************************)
EXTENDS Integers, SequencesExt, FiniteSetsExt

CONSTANTS
    CounterBits,    \* a run, with an interrupt in it, takes less than 2^(2 * CounterBits)
    TickCost,       \* more than RECORDTHRESH
    ReadCost,       \* cycles from one reading of the counter to the next
    THRESHOLD,      \* a gap of so many cycles is looked at
    RECORDTHRESH,   \* at least THRESHOLD + ReadCost
    NEVENT,         \* gaps with an interrupt that callibrate waits for
    Costs,          \* what a run of the function may take
    Parameters,     \* what the set_fcyc functions may set
    CacheSizes,     \* sizes of the cache, for clear
    Second,         \* the clock's units in a second
    MAX_ETIME,      \* seconds of the interval timer
    MaxRuns         \* bound on the calls of fsecs

VARIABLES
    timer,          \* "fcyc", "itimer" or "gettod": what config.h selects
    phase,          \* "idle", "sampling", "callibrate", "done", "killed"
    runs,           \* calls of fsecs that are left
    params,         \* k, maxsamples, epsilon (in hundredths), compensate, clear_cache
    cache_bytes,
    cache_buf,      \* bytes of the buffer, 0 when there is none
    cyc_per_tick,
    gap,            \* callibrate, see there
    values,
    taken           \* history: what each run took, and what was measured

timerVars == <<timer, phase, runs, params, cache_bytes, cache_buf, cyc_per_tick, gap,
               values, taken>>

NoGap == [e |-> 0, length |-> 0, ticks |-> 0, free |-> TRUE, due |-> 0]

TimersInit ==
    /\ timer \in {"fcyc", "itimer", "gettod"}
    /\ phase = "idle" /\ runs = MaxRuns
    /\ params \in Parameters
    /\ cache_bytes \in CacheSizes /\ cache_buf = 0
    /\ cyc_per_tick = 0 /\ gap = NoGap
    /\ values = <<>> /\ taken = <<>>

-----------------------------------------------------------------------------
\* clock.c: the counter's halves at the start and now, and the difference, with
\* a borrow from the upper half.
Half == 2^CounterBits
start_counter(count) == [hi |-> count \div Half, lo |-> count % Half]

\* A slip: the halves are subtracted each for itself.
get_counterNoBorrow(cyc, count) ==
    LET ncyc == start_counter(count)
    IN  ((ncyc.hi - cyc.hi) % Half) * Half + ((ncyc.lo - cyc.lo) % Half)

get_counter(cyc, count) ==
    LET ncyc == start_counter(count)
        lo == (ncyc.lo - cyc.lo) % Half
        borrow == IF lo > ncyc.lo THEN 1 ELSE 0
        hi == (ncyc.hi - cyc.hi - borrow) % Half
    IN  hi * Half + lo

\* What is read when the counter stood at `from` and `cycles` have passed.
Elapsed(from, cycles) == get_counter(start_counter(from), (from + cycles) % (Half * Half))

\* set_fcyc_k, set_fcyc_maxsamples, set_fcyc_epsilon,
\* set_fcyc_compensate, set_fcyc_clear_cache; init_fsecs calls them all.
SetParameters ==
    /\ phase = "idle"
    /\ params' \in Parameters
    /\ UNCHANGED <<timer, phase, runs, cache_bytes, cache_buf, cyc_per_tick, gap, values, taken>>

set_fcyc_cache_size(bytes) ==
    /\ phase = "idle"
    /\ cache_bytes' = bytes
    /\ cache_buf' = IF bytes # cache_bytes THEN 0 ELSE cache_buf
    /\ UNCHANGED <<timer, phase, runs, params, cyc_per_tick, gap, values, taken>>

-----------------------------------------------------------------------------
\* callibrate reads the counter again and again.  gap.length is the time since
\* it was last set aside, gap.ticks the interrupts that times has reported
\* since the last one that counted.  An interrupt may come between the counter
\* and times: it is reported at once and its cycles are due in the next gap.
Recorded(cpt) ==
    IF cpt > RECORDTHRESH /\ (cyc_per_tick = 0 \/ cyc_per_tick > cpt)
    THEN cpt ELSE cyc_per_tick

\* start_comp_counter, the first time.  An interrupt may come between times and
\* the counter.
StartCallibrate ==
    /\ phase = "sampling" /\ params.compensate /\ cyc_per_tick = 0
    /\ phase' = "callibrate"
    /\ \E early \in 0..1 : gap' = [NoGap EXCEPT !.ticks = early, !.free = (early = 0)]
    /\ UNCHANGED <<timer, runs, params, cache_bytes, cache_buf, cyc_per_tick, values, taken>>

Callibrate ==
    /\ phase = "callibrate" /\ gap.e < NEVENT
    /\ \E tick, late \in 0..1 :
        /\ tick + late <= IF gap.free THEN 1 ELSE 0
        /\ LET length == gap.length + gap.due + ReadCost + tick * TickCost
               ticks == gap.ticks + tick + late
           IN  IF length < THRESHOLD
               THEN /\ late = 0
                    /\ gap' = [gap EXCEPT !.length = length, !.ticks = ticks, !.due = 0]
                    /\ UNCHANGED cyc_per_tick
               ELSE /\ gap' = [e |-> IF ticks > 0 THEN gap.e + 1 ELSE gap.e,
                               length |-> 0, ticks |-> 0,
                               free |-> late = 0, due |-> late * TickCost]
                    /\ cyc_per_tick' = IF ticks > 0 THEN Recorded(length \div ticks)
                                       ELSE cyc_per_tick
    /\ UNCHANGED <<timer, phase, runs, params, cache_bytes, cache_buf, values, taken>>

-----------------------------------------------------------------------------
\* add_sample: one more value, or one in place of the greatest, sorted in.
add_sample(val) ==
    LET new == IF Len(values) < params.k THEN Append(values, val)
               ELSE IF val < Last(values) THEN Append(Front(values), val)
               ELSE values
    IN  SortSeq(new, LAMBDA x, y : x < y)

has_converged(best, samplecount) ==
    /\ samplecount >= params.k
    /\ (100 + params.epsilon) * best[1] >= 100 * best[params.k]

\* clear: the buffer is allocated when it is needed.
clear == cache_buf' = IF cache_buf = 0 THEN cache_bytes ELSE cache_buf

init_sampler == values' = <<>> /\ taken' = <<>>

\* fcyc, up to its loop.
fcyc ==
    /\ timer = "fcyc" /\ phase = "idle" /\ runs > 0
    /\ phase' = "sampling" /\ runs' = runs - 1
    /\ init_sampler
    /\ UNCHANGED <<timer, params, cache_bytes, cache_buf, cyc_per_tick, gap>>

\* One round of the loop: a run of the function between the readings of the
\* counter.  An interrupt may come in the run, and with compensation between
\* times and the counter, where it is subtracted and has not been counted.
Sample ==
    /\ \/ phase = "sampling" /\ (params.compensate => cyc_per_tick # 0)
       \/ phase = "callibrate" /\ gap.e = NEVENT
    /\ \E from \in 0..Half * Half - 1, cost \in Costs, tick, beside \in 0..1 :
        LET time == Elapsed(from, cost + tick * TickCost)
            cyc == IF params.compensate THEN time - (tick + beside) * cyc_per_tick ELSE time
            samplecount == Len(taken) + 1
        IN  /\ tick + beside <= 1
            /\ beside = 1 => params.compensate
            /\ values' = add_sample(cyc)
            /\ taken' = Append(taken, [cost |-> cost, ticks |-> tick, beside |-> beside, cyc |-> cyc,
                                      per_tick |-> IF params.compensate THEN cyc_per_tick ELSE 0])
            /\ phase' = IF ~has_converged(values', samplecount) /\ samplecount < params.maxsamples
                        THEN "sampling" ELSE "done"
    /\ IF params.clear_cache THEN clear ELSE UNCHANGED cache_buf
    /\ gap' = NoGap
    /\ UNCHANGED <<timer, runs, params, cache_bytes, cyc_per_tick>>

\* The result is values[0], and the values are freed.
Return ==
    /\ phase = "done"
    /\ phase' = "idle" /\ values' = <<>> /\ taken' = <<>>
    /\ UNCHANGED <<timer, runs, params, cache_bytes, cache_buf, cyc_per_tick, gap>>

-----------------------------------------------------------------------------
\* ftimer.c, for all runs of the function together.
Measured(total, diff) ==
    /\ runs > 0 /\ runs' = runs - 1
    /\ phase' = "done" /\ values' = <<diff>>
    /\ taken' = <<[cost |-> total, ticks |-> 0, beside |-> 0, cyc |-> diff,
                 per_tick |-> 0]>>
    /\ UNCHANGED <<timer, params, cache_bytes, cache_buf, cyc_per_tick, gap>>

timeval(t) == [sec |-> t \div Second, usec |-> t % Second]

ftimer_gettod ==
    /\ timer = "gettod" /\ phase = "idle"
    /\ \E stv \in 0..Second - 1, total \in 0..MAX_ETIME * Second :
        LET before == timeval(stv)
            after == timeval(stv + total)
        IN  Measured(total, Second * (after.sec - before.sec) + (after.usec - before.usec))

\* get_etime: the timer runs down from MAX_ETIME.  When it reaches zero, SIGALRM
\* ends the program.
get_etime(passed) ==
    LET r_curr == timeval(MAX_ETIME * Second - passed)
    IN  Second * (MAX_ETIME - r_curr.sec) + (0 - r_curr.usec)

ftimer_itimer ==
    /\ timer = "itimer" /\ phase = "idle"
    /\ \E start \in 0..1, total \in 0..MAX_ETIME * Second :
        IF start + total < MAX_ETIME * Second
        THEN Measured(total, get_etime(start + total) - get_etime(start))
        ELSE /\ phase' = "killed"
             /\ UNCHANGED <<timer, runs, params, cache_bytes, cache_buf, cyc_per_tick, gap,
                            values, taken>>

TimersNext ==
    \/ SetParameters
    \/ \E bytes \in CacheSizes : set_fcyc_cache_size(bytes)
    \/ fcyc \/ StartCallibrate \/ Callibrate \/ Sample
    \/ ftimer_gettod \/ ftimer_itimer
    \/ Return

TimersSpec == TimersInit /\ [][TimersNext]_timerVars

-----------------------------------------------------------------------------
\* What is measured: the two functions of ftimer.c give the time that passed,
\* and so does the counter, whose halves may have turned over, with what the
\* interrupts took.  With compensation that is subtracted, and at most Slack
\* more for each; for an interrupt beside the run all of it is too much.  If
\* callibrate saw no interrupt between two readings, nothing is subtracted.
Slack == THRESHOLD + ReadCost

SampleExact(x) ==
    LET total == x.cost + x.ticks * TickCost
    IN  IF x.per_tick = 0 THEN x.cyc = total
        ELSE x.cyc \in total - (x.ticks + x.beside) * (TickCost + Slack)
                        .. total - (x.ticks + x.beside) * TickCost

\* fcyc keeps the k least samples in order, and ends when they are close to one
\* another, or with the last sample.
BestKept ==
    LET all == SortSeq([i \in DOMAIN taken |-> taken[i].cyc], LAMBDA x, y : x < y)
    IN  /\ values = SubSeq(all, 1, Min({Len(all), params.k}))
        /\ phase # "done" => Len(taken) < params.maxsamples
        /\ phase = "done" /\ Len(taken) < params.maxsamples =>
               \A i \in DOMAIN values : 100 * values[i] <= (100 + params.epsilon) * values[1]

\* clear never reads past the end of the buffer.
BufferFits == cache_buf \in {0, cache_bytes}

TimesRight ==
    /\ \A i \in DOMAIN taken : SampleExact(taken[i])
    /\ timer = "fcyc" => BestKept
    /\ BufferFits
=============================================================================
