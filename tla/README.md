# Verification of the CS:APP lab programs

The repository holds one student's solutions to the labs of CMU 15-213
(*Computer Systems: A Programmer's Perspective*). The programs with state worth
verifying are a concurrent caching web proxy with the small server it is
tested against, a job control shell, three dynamic storage allocators, a cache
simulator, a matrix transpose that is graded on a simulated cache, solutions of
bit puzzles, and the course's library and drivers that the programs are linked
with or tested by. This directory models them in TLA+, checks the models with TLC on small instances and proves
central invariants with TLAPS for every instance.

Paths below are relative to `src/`. `proxy/` stands for
`7.Proxy_lab/proxylab-handout/`, `shell/` for `5.Shell_lab/shlab-handout/`,
`malloc/` for `6.Malloc_lab/malloclab-handout/`, `cache/` for
`4.CacheLab/cachelab-handout/`, `data/` for `1.DataLab/datalab-handout/`, and
`part1/` for `7.Proxy_lab/part1-only/`, the
sequential proxy whose `process_request` the concurrent one has taken over.

## Inventory

### The proxy

`proxy.c` accepts connections and inserts them into a bounded buffer
(`sbuf.c`). Worker threads remove them, and `process_request` serves each from
a cache (`lrucache.c`) or from the server. The cache is shared by all workers under
a reader-writer lock (`reader-writer.c`). One more thread, `adjust_thread`,
watches the buffer and changes the number of workers.

| part | state | operations | what is hard | what makes it correct |
|---|---|---|---|---|
| reader-writer lock (`proxy/reader-writer.c`) | semaphores `mutex` and `w`, `readcnt`, `is_prev_write` | `lock_reader`, `unlock_reader`, `lock_writer`, `unlock_writer` | two semaphores taken in turn, unlocked reads of `is_prev_write` and `readcnt`, a spin | exclusion; the count is exact; `w` always has an owner that frees it; nobody at the gate waits for ever |
| connection buffer (`proxy/sbuf.c`) | ring `buf`, `front`, `rear`, semaphores `mutex`, `slots`, `items` | `sbuf_insert`, `sbuf_remove` | counting semaphores against indices, cancellation between a P and its V | a bounded FIFO queue; every slot is accounted for |
| worker pool (`proxy/sbuf.c`) | `thread_pool_ids`, `current_nthreads`, cancellation state of each thread | `init_thread`, `worker_thread`, `adjust_thread` | deferred cancellation, semaphore values read and then acted on later, identities of threads that have ended | no connection is lost, every one is served, only live workers are cancelled, cancelled workers end |
| cache (`proxy/lrucache.c`) | `cachemap`, the chain `prev`/`next`, `current_capacity` | `lRUCacheGet`, `lRUCachePut`, `MoveToHead`, `AddToHead`, `DeleteFromTail`, `get_cache_pos` | one call is several critical sections; a node found under one is used under the next; six stores to relink | the chain is the recency order of exactly the mapped nodes; a hit returns what was asked for |
| request processing (`proxy/proxy.c`) | `responseBuf` of each worker | `process_request` | responses longer than a buffer, servers that close early or cannot be reached | a hit replies with the server's response |
| request path (`part1/proxy.c`) | the locals of `process_request`, whose stack frame is the same for every request | `process_request`, `change_request`, `parse_uri`, `modify_http_version`, `reply_client_error` | clients that leave or reset at any point, requests that do not end, errors of one connection that end the process | what is forwarded is what was asked, the reply is relayed whole, a fault of one client does not reach the others |
| Rio (`part1/csapp.c`, the same file in all three stages) | a read buffer with a pointer and a count | `rio_read`, `rio_readlineb`, `rio_readnb`, `rio_writen` | short counts, interrupted calls, end of file, resets | a reader returns the bytes of the stream, each once, in order |
| wrappers and socket helpers (`part1/csapp.c`) | `errno`, open descriptors | one wrapper for each of sixty-odd functions, `sio_ltoa`, `open_clientfd`, `open_listenfd`, `rio_readn`, `rio_writen` | every function reports failure by a sign of its own; a stale `errno`; some of a name's addresses fail after a descriptor was opened | a wrapper ends the process when and only when its function has failed, and no descriptor is lost |
| tiny server (`part1/tiny/tiny.c`, the same in all stages) | none across requests | `doit` and what it calls, a CGI program | end of file in the middle of the headers, clients that leave, a wrapper that exits on every error | each request is answered and its connection closed |

Main, workers and `adjust_thread` meet in the buffer's semaphores; workers meet
in the cache under the lock; `adjust_thread` reaches workers by
`pthread_cancel`, which acts at their next cancellation point.

### The shell (`shell/tsh.c`)

State: the job table `jobs`, `nextjid`, the flag that the SIGCHLD handler raises
and `waitfg` awaits, the signal mask. Operations: `eval`, `builtin_cmd`,
`do_bgfg`, `waitfg`, the handlers of SIGCHLD, SIGINT and SIGTSTP, and the table's
routines. The shell and its handlers share the table; the kernel connects them
with the children. Hard: signals interrupt main and one another, pending
signals of one kind are merged, children end and stop at any time, a pid is
used again after it has been reaped. Correct when the table agrees with the
children, the foreground job is the one that is awaited, and the prompt comes
back.

Before that, main reads lines into a buffer of fixed size and `parseline` cuts them
into words, some in quotes; correct when a command arrives as it was meant.

### The allocators (`malloc/`)

`mm_implicit_list.c` (next fit over all blocks), `mm_explicit_list.c` (a doubly
linked list of free blocks) and `mm.c` (segregated lists) implement `mm_init`,
`mm_malloc`, `mm_free` and `mm_realloc` over `memlib.c`'s `mem_sbrk`. State: the
words of the heap, `mem_brk`, and the package's pointers. Sequential; what is
hard is the long sequence of calls after which tags, links or pointers no
longer agree. Correct when the tags tile the heap, the lists hold exactly the
free blocks, and the caller gets aligned, disjoint blocks whose contents stay.

### The cache lab (`cache/`)

`csim.c` simulates a set-associative cache on a trace. State: sets of lines with
valid bit, tag and time, and three counters. Operations: `cache_init`,
`load_in_cache`, `read_trace`. Correct when its hits, misses and evictions are
those of a cache, with the least recently used block as the victim.

`trans.c` transposes a matrix in an order of accesses that misses rarely in a
1 KB direct-mapped cache; `test-trans.c` runs it and counts. State: the words of
B, parts of which serve as a parking place for other parts, and the cache. Hard:
every store lands where something else may still be waiting. Correct when B is
the transposed matrix and the misses stay within what the grader gives full
marks for.

### The malloc driver (`malloc/mdriver.c`, `malloc/traces/`, `malloc/fsecs.c` and what it calls)

Scripts write traces of requests, `checktrace.pl` refuses those that are not
consistent and appends what is left to be freed, and `mdriver` runs each trace on
a malloc package: once to see whether it is right, with a list of the ranges
that are in use, once for its utilization, and again for its speed, which
`fcyc.c`, `clock.c` and `ftimer.c` measure. State: the blocks and their sizes, the range
list, counts; in the timing package the samples, the counter's two halves, the
cost of a timer interrupt. Hard: packages that return anything, numbers that
are used again, blocks of no bytes, headers that count wrong; interrupts at any
point between two readings of two clocks. Correct when a package is blamed only for its own mistakes, the list
knows every block, and what is measured is what passed.

### The data lab (`data/`)

`bits.c` solves puzzles with few operators, `tests.c` says what is asked for, and
`btest.c` compares them on chosen arguments. Hard: carries, signs and roundings at
the edges of a word. Correct when every solution agrees with its test function.

### The rest

The other graders start programs and compare text. The solutions of the bomb
and attack labs and the notes on linking are not programs of this repository.

## Modules

| module | models | extends or instantiates |
|---|---|---|
| `RWLock` | abstract: what a reader-writer lock promises | |
| `ReaderWriter` | the four lock functions, one access to shared state a step | `RWLock` (refinement) |
| `ConnQueue` | abstract: a bounded FIFO queue of connections | |
| `Sbuf` | the ring and its semaphores | `ConnQueue` (refinement) |
| `ThreadPool` | workers, cancellation, `adjust_thread` | extends `Sbuf` |
| `ThreadPoolProofs` | theorems about the buffer and the pool | `ThreadPool` |
| `RecencyList` | abstract: nodes in order of last use | |
| `LRUCache` | the cache's calls as sequences of critical sections | extends `ReaderWriter`, `RecencyList` (refinement) |
| `Proxy` | `process_request` by several workers | extends `LRUCache` |
| `ProxyProofs` | theorems about the lock, the cache and its callers | `Proxy` |
| `Allocator` | abstract: what a malloc package promises its caller | |
| `Heap` | `memlib.c`, tags, merging, and the calling program | `Allocator` (refinement) |
| `ImplicitHeap`, `ExplicitHeap`, `SegHeap` | the three packages | extend `Heap` |
| `ImplicitHeapProofs` | lemmas about walks along boundary tags, theorems about the implicit list | `ImplicitHeap` |
| `MallocPackages` | the package that is linked, behind the interface of `mm.h` | extends `Heap`, instantiates the three |
| `Shell` | the shell, its handlers and its children | |
| `ShellProofs` | theorems about the shell | `Shell` |
| `DemandCache` | abstract: what a simulator promises whatever its replacement policy | |
| `CacheSim` | `csim.c` | `DemandCache` (refinement) |
| `Transpose` | `trans.c` on the grader's cache | extends `CacheSim` |
| `ByteStreams` | abstract: streams read by lines or by blocks | |
| `Rio` | `rio_t`, the reads of the kernel, the outcomes of a write | `ByteStreams` (refinement) |
| `Tiny` | `tiny.c` and its CGI program | extends `Rio` |
| `RequestPath` | the sequential proxy between clients and tiny | extends `Tiny` |
| `RequestPathProofs` | theorems about its streams, and about who brings a server down | `RequestPath` |
| `ForwardProofs` | theorems about what the proxy forwards and relays | `RequestPathProofs` |
| `NatInduction` | induction over the naturals in a form the provers can use | |
| `Wrappers` | the wrappers of `csapp.c` and its output for handlers | |
| `SocketHelpers` | `open_clientfd` and `open_listenfd` | extends `Wrappers` |
| `RioUnbuffered` | `rio_readn` and `rio_writen` with their wrappers | |
| `CommandLine` | the shell's main loop and `parseline` | |
| `TraceFiles` | the scripts that write, check and balance traces | |
| `MDriver` | `mdriver.c` on any malloc package, and on libc's | extends `TraceFiles` |
| `Timers` | `fsecs.c`, `fcyc.c`, `clock.c`, `ftimer.c` | |
| `SequentialProofs` | theorems about the simulator, the unbuffered Rio, the timing package and the socket helpers | extends `CacheSim` and `RioUnbuffered`, instantiates `Timers` and `SocketHelpers` |
| `Bits` | `bits.c`, `tests.c` and the choice of arguments in `btest.c` | |
| `MCReaderWriter`, `MCThreadPool`, `MCProxy`, `MCHttp` | instances for TLC | |
| `MCSequential` | an instance of the programs that run on one thread, one of them in each behaviour | extends `Transpose`, instantiates `CacheSim`, `Bits`, `MDriver`, `Timers`, `SocketHelpers`, `RioUnbuffered`, `CommandLine` |

How state and actions correspond to the code:

* **ReaderWriter.** `lk[t]` is where thread `t` stands in the four functions. Each
  P, V, load or store of shared state is an action; `CountIn` is `++readcnt == 1`
  under `mutex`. The loop of `lock_writer` loads `is_prev_write` (`ReadPrevWrite`)
  and `readcnt` (`ReadReadcnt`) in two steps, because nothing protects them.
  Line 18 of the code takes `mutex` a second time before `lock_reader` returns
  and keeps it until `unlock_reader`: readers exclude one another too, and
  `Exclusive` says so.
* **Sbuf.** A step is a P or a V together with the accesses it protects.
* **ThreadPool.** A worker's cancellation takes effect in `ActOnCancel`, possible
  where the worker is inside a cancellation point and has cancellation enabled;
  `sbuf_remove` disables it once an item has been granted, `worker_thread` enables
  it after the close. `adjust_thread` reads a semaphore's value under the buffer's
  mutex and acts on it after the unlock. `EndProcess` ends every thread at once, as an
  error of a request does; `Serve`, the request itself, may also never return.
* **LRUCache, Proxy.** `at[t]` is the critical section the call is in or about to
  enter; between two of them the lock is free and every other worker may run.
  The body of a critical section is one step: `Exclusive`, proved for the lock,
  is what allows that. `MoveToHead` is its six stores in the order of the code.
  A response is a sequence of blocks that all pass through `responseBuf`, which
  starts with whatever the stack holds.
* **Heap and the packages.** The unit is a word of four bytes; a tag is
  the size plus the bit for allocated. A call of the package is one action,
  written as a composition of functions on the memory in the order of the code
  (`Place`, `Coalesce`, `InsertNode`, `DeleteNode`, ...). The calling program stamps
  every word it gets. `Scrubbed` forgets, between calls, the words of free
  blocks that are never read; links left in allocated blocks are kept, because
  the explicit list does read them.
* **MallocPackages.** `package` says which of the three is linked; the state of the
  heap is shared, because only one of them is there. Each package's operations
  are the actions of its own module. `mm_checkheap` of each is `CheckheapQuiet`. That the
  index of free blocks is exact means something else for each (`IndexExact`): that
  the rover stands on a block, that the list holds exactly the free blocks, that
  each of the segregated lists does for its sizes.
* **CacheSim.** A line of the trace is a step; a modify is two calls of
  `load_in_cache` in it. Times are as in the code: a hit adds one, a fill takes
  the greatest of the set plus one. `TagBits` is the width of the `int` that
  `load_in_cache` takes the tag as; in the runs it is wide enough, a slip makes
  it too narrow. `order` is a history variable for what LRU is about.
* **Transpose.** The loop nests are unrolled to a sequence of steps, one for each
  innermost iteration, each a sequence of loads into and stores from numbered
  temporaries in the order of the code, and every access goes through
  `load_in_cache`. A subscript past the end of a row is the word that C takes it
  for. The grader measures with the reference simulator, whose code is not in
  the repository; with one line in a set there is no policy to choose, so
  `csim.c`'s rule stands for it. `trans_naive`, `trans_32_32` and `trans`, which are
  not graded, are checked for being transposes.
* **Rio.** A step is one `read()` with the copying it allows; `rio[s].buf` is
  `rio_bufptr` and `rio_cnt` in one. An interrupted `read()` is repeated and
  changes nothing. What a `write()` or a `read()` may return depends on what the
  other end has done: open, closed, closed and written to, reset, and noticed
  (the first error is reported once, afterwards it is EPIPE or the end of the
  stream). `WriteOutcomes` is that table, and it is external. `Seen` is what the callers can
  know of a stream: the refinement mapping to `ByteStreams`.
* **Tiny, RequestPath.** `tiny.pc` and `proxy.pc` are where `doit` and
  `process_request` are; a `Rio_` call is begun by `Called` and finished by `Read`.
  A byte is a piece of text that the code looks at as a whole. `out` holds the
  `Rio_writen`s that are left. Arrays that are not initialised, or not cleared
  between requests (`method`, `uri`, `buf`, and `hostname` and `port` after a `strncpy`
  without a NUL), take any value that the same stack frame may still hold; what the
  two hold before the first request is a constant (`AtStart`). `urlOK` says of a request
  line whether `parse_uri` finds the colon and the slash where it needs them. If not, it
  crashes, behind the reply to a bad version (`ProxyWritten`). `reply_client_error` writes
  eight times; two stand for them, so that a client may leave before, between and after.
* **Wrappers, SocketHelpers.** `Test` says for each wrapper at what it looks, section by
  section of the file, `Caught` what that means, and `Blamed` what the message names.
  What the functions of the system return is `Outcomes`, which is external and
  follows their manual pages: a call that succeeds may leave anything in `errno`,
  none clears it. The helpers try one address in a step.
* **RioUnbuffered.** A step is one `read()` or `write()`, of any part of what is left.
* **CommandLine.** A line is a sequence of characters of five kinds; a round of main's
  loop is a step. What the user means is there first (`Commands`), and is rendered
  with blanks and quotes; `Expressible` says which commands the language of the
  shell has a line for.
* **TraceFiles, MDriver.** `stage` is what happens next with the trace: the script that
  writes it, the one that checks it, `read_trace`, and the three evaluations of
  `mdriver`. A request of the trace is a step of `eval_mm_valid`. `package` says whether
  the package keeps what it promises, returns whatever it likes, or is libc's. The
  second kind may fail in `mm_init`, which is an error of the trace, or give
  something for a request for nothing, which meets `add_range`'s assertion.
  A package is no module here: what mdriver may assume of one is the question.
* **Timers.** The two halves of the cycle counter have `CounterBits` bits each, so that
  the lower one turns over in a run and the upper one lends to it. `gap` is the
  state of `callibrate`'s loop. An interrupt may come between the readings of the two
  clocks, which is when they disagree.
* **Bits.** A word is the set of the positions of its ones: `|`, `&` and `~` are union,
  intersection and complement, and a sum is defined by its carries. All 32 bits
  are there. The functions of `tests.c` are written with arithmetic where it fits
  into TLC's integers, and with positions where it does not.
* **Shell.** There is one thread of control: `mpc` is where main stands, `stack`
  the handlers that have interrupted it or one another. A pending signal that
  is not blocked is delivered before the next instruction. A handler is cut
  where another one can get in between and see the difference: the SIGCHLD
  handler between `waitpid` and the change of the table, the keyboard handlers
  between `fgpid` and `Kill`. Main is cut at the fork, at `addjob`, and between the
  test of the flag and `Sigsuspend`.

## Runs

| run | checks | bounds |
|---|---|---|
| `reader_writer` | types, `Exclusive`, `CountExact`, `WOwned`, two liveness properties, refinement of `RWLock` | 4 threads that lock for ever: two readers and two writers can meet in every order, and a reader can be overtaken by a writer while others wait |
| `thread_pool` | `SlotsAccounted`, `NoConnectionLost`, `PoolSound`, `CancelsLiveWorkers`, every connection is served, cancelled workers end, refinement of `ConnQueue` | a ring of 2, a pool of 1 or 2 workers, 3 identities, 4 connections: the ring fills and wraps, the pool grows, shrinks and grows again, a cancelled worker lives on beside its successor |
| `proxy_cache` | `ChainSound` (with the bound on duplicates), `HitHasKey`, `FullCacheStops`, refinement of `RecencyList` | 2 workers, 2 keys, 3 nodes: both workers miss the same key at once, and duplicates fill the cache |
| `cache_full` (finding) | `EvictionCompletes` is violated | a cache of one node |
| `cached_reply` (finding) | `HitIsServersResponse` is violated | responses of one and two blocks |
| `http` | `RequestForwarded`, `ReplyRelayed`, `FaultsContained`, `EveryoneServed`, `ReadsInOrder` (refinement of `ByteStreams`) | two clients of the proxy, one of tiny; buffers of 4 bytes; see below |
| `malloc_packages` | `TagsSound`, `IndexExact`, `CheckheapQuiet`, `GrowsOnlyWhenFull`, `ImplementsAllocator` | each package on 28 words, 3 blocks, 3 sizes; the explicit list for programs whose reallocations stay in place |
| `explicit_realloc` (finding) | `ListedBlocksFree` is violated once a reallocation moves | the same |
| `sequential` | `TransposesGraded`, `SimulatorIsACache` (refinement of `DemandCache`), `PuzzlesSolved`, `RightPackagePasses`, `RangesKnown`, `TimesRight`, `FailuresHandled`, `CommandsParsed` | see below |
| `csim_lru` (finding) | `EvictsLeastRecent` is violated | the small cache, 4 addresses |
| `shell` | `TableAgrees`, `ChildrenKnown`, `ForegroundAwaited`, `PromptComesBack` | commands name jobs by number (`FairSpecByJid`); 3 children, a table of 2: it fills and a third child finds no room; job numbers up to 3, one more than the table has entries |
| `shell_keys` (finding) | `EndsOnlyOnRequest` is violated | 2 children |

A heap of 28 words holds the prologue, the initial block, and enough for three
blocks with free ones between them: all four cases of `coalesce`, splits and
exact fits, extension with and without a free last block, refusal by
`mem_sbrk`, and moves by `mm_realloc` occur. In `ImplicitHeap` one search wraps
around past the end of the heap. The sizes are chosen on both sides of the
splitting limit of each package.

In `http` each client follows a script: whole requests of every kind (a page, a
CGI program, an empty file, a bad version, a URL that cannot be taken apart, another
method, a long header line, a host or port that is shorter than the others' or not tiny's),
requests that stop in the middle or begin with an empty line, with or without its
CR, and clients that leave, at any point, with a FIN or a RST. One client is of any kind, the other two are regular. With buffers
of 4 bytes a request line and an added header fit exactly, tiny's page takes a
full and a partial block, a header line of five bytes is cut so that its end
looks like the empty line, and the kernel cuts every stream in every way. The
misses counted in `sequential` for the three graded sizes are 256, 1024 and 1968,
within 300, 1300 and 2000; the comment at `trans.c:233` calls 1024 the theoretical
limit for 64x64, and that is what the model finds.

In `sequential` each behaviour is one program's:

* the transposes at their full sizes (32x32, 64x64, 61x67) on the 1 KB cache;
* the simulator with two sets of two lines on every trace of up to 8 accesses to
  6 addresses;
* `btest` on every puzzle. The number of arguments that it tries is scaled down
  (`TestRange`), the random words are runs of ones and such runs with a bit turned,
  which is where carries and roundings differ;
* `mdriver` on two traces, each of any script or one of seven written by hand, with
  a heap of 8 words and blocks of 1 or 3: addresses overlap in every way;
* the timing package with a counter of two times two bits, which wraps in a run,
  in an interrupt, and in both, two calls, and up to four samples;
* a process that calls the wrappers, and the helpers with two addresses for a
  name and two descriptors, in any order; one that moves up to three bytes at a
  time of a stream of four;
* the shell's input: two lines of up to two words out of six, among them one with
  a blank, an empty one and an ampersand, with a buffer of 11 and three entries
  of `argv`: a line that just fits and one that does not.

The programs share nothing; one run for all of them keeps their state spaces,
which add up, in one place.

`TypeOK` of `ThreadPool`, `Proxy` and `Shell` states the types of their variables
for the reader and for proofs; no run lists it, the invariants above say more.

`MaxConns` bounds the connections in `ThreadPool`, `MaxJid` the job numbers in
`Shell`, and `MaxAccesses` the length of a trace in `CacheSim`, whose times only
grow; in `RequestPath` each client sends one request. In
`MCSequential`, `NumTraces`, `MaxRuns`, `MaxLines` and `MaxWords` bound what is
run, measured and typed, `StreamLength` and `MaxBytes` what is moved. Nothing else is cut off. Symmetry is used in `Proxy.cfg` only, over
workers and over keys whose responses have equal length, and not together with
liveness.

Runs with `CHECK_DEADLOCK FALSE` are those of systems that may stop: the proxy,
whose cache deadlocks when it is full and whose process exits when a server
cannot be reached; the sequential proxy and tiny, which end up waiting for
clients; the allocators, where nothing more may fit; the programs of `sequential`,
which end; the shell, which can quit. The lock and the pool are checked for deadlock.

## Fairness

* `ReaderWriter`: weak fairness for each thread inside the lock functions or
  about to unlock. A thread need not ask for the lock. Strong fairness is not
  assumed, since `sem_wait` promises no order among waiters; so the code does not
  guarantee that every waiter gets in, only that somebody does
  (`SomebodyEnters`), and that the reader at the gate, for which writers make
  way, does (`ReaderNotOvertakenForever`).
* `ThreadPool`: strong fairness for main and for each worker, because
  `adjust_thread` takes the buffer's mutex again and again without pause and
  weak fairness would let it win every time. The properties depend on the
  implementation of semaphores not starving a waiter for ever. Connections need
  not arrive. A worker's step out of `process_request` (`Serve`) is under no fairness:
  the call need not return, because a client may send nothing, because the
  cache is full (finding 1), or because it ends the process (`EndProcess`: the Rio
  wrappers and `Open_clientfd` exit). `EveryConnectionServed` and `CancelledWorkersEnd` name
  these cases: the process ends; the connection's, or the cancelled worker's, own
  call never returns; or every worker that is not cancelled is in a call that
  never returns, and then connections stay in a ring that is not full, because
  only a full one makes `adjust_thread` add workers. None of the three can be
  dropped: without it TLC finds the property violated.
* `Proxy` (`cache_full`): strong fairness for the steps of each worker in the
  cache, which makes the counterexample a true deadlock: no fairness of the
  scheduler gets the insertion out of it.
* `Shell`: strong fairness for main inside a command, for the SIGCHLD handler,
  and for each keyboard handler; keys interrupt each of them but not at every
  instruction for ever. Nothing is assumed of the children: they need not
  end. `PromptComesBack` holds for commands that name jobs by number
  (`FairSpecByJid`: the same fairness over `NextByJid`) and fails when `fg` may be
  given a pid (`FairSpec`, in place of `FairSpecByJid` in `Shell.cfg`): fairness has no
  part in that. What follows then is told at the end of Findings.

* `RequestPath`: weak fairness for tiny, for the proxy, and for each client's sending
  and, where its script says so, its leaving: every process runs when it can.
  Nothing is assumed of the order. `EveryoneServed` excuses a server that has
  ended and clients that hold one for ever by never ending their headers;
  `FaultsContained` says who may end a server, so the two belong together.

## What is proved

The theorems hold for every value of the constants that satisfies the named
assumptions; TLC evaluates each of these on every run of its module. In all
proofs the property to be shown is not inductive; what follows says which
invariant is, and why it is needed. TLC checked each on its run before it was
proved.

### The lock (`ProxyProofs`)

For every finite set of threads (`ThreadsAssumption`): `LockInvariant`, and from
it `TypeCorrect`, `MutualExclusion`, `ReadersCounted`, `WHasOneOwner`, and
`LockImplementsRWLock`, the refinement of the abstract lock.

That a reader holds `w` follows from the count; the
count is protected by `mutex` alone; and `w` passes from the first reader to the
last without being released. `LockInv` therefore adds who holds `mutex`
(`MutexInv`: free exactly when nobody does, one holder at most), whom `readcnt`
counts (`CountInv`: it is the cardinality of `Counted`, the thread at the gate is
alone in it, and the thread that frees `w` leaves it empty) and who owns `w`
(`WInv`). For the refinement each step either
changes `Readers` or `Writers` as an abstract action does, with `LockInv` giving the
guard, or leaves both alone.

### The buffer and the pool (`ThreadPoolProofs`)

For every size of the ring, number of connections, and finite set of worker
identities (`SbufAssumption`, `PoolAssumption`): `PoolInvariant`,
`SlotsAreAccounted`, `ConnectionsKept`, `PoolIsSound`, `CancelsOnlyLive` (an
action property), and `RingImplementsConnQueue`, the refinement of the queue.

`PoolInv` adds who holds `bmutex`, that a worker cannot be cancelled from the
item it was granted to its close (`BusyInv`), that connection `k` is item `k` of
the ring (`RingInv`), what has become of every connection
(`HandsInv`), and which part of the array a loop of `adjust_thread` has dealt
with (`ArrayInv`). `PoolAssumption` asks that the sizes the pool may have are
`NTHREADS` doubled, up to `THREAD_LIMIT` itself (`IsDoubling`): otherwise doubling
would leave the array, and the code's constants, 4 and 4096, are of that form.

### The cache (`ProxyProofs`)

For every number of workers, set of keys, number of blocks in a response, and
capacity (`ThreadsAssumption`, `CacheAssumption`, `ProxyAssumption`):
`ProxyInvariant`, `SectionsExclude`, `HitsHaveTheKey`, `ChainIsSound`,
`ChainIsARecencyList` (the refinement), and `FullCacheStopsAll` (finding 1 holds at
every capacity).

`SectionInv` is the lock's invariant with a third kind of owner of `w`, the thread
caught in the eviction, so that the lemmas about the lock carry over.
`CallInv` says what a thread found in one section that still stands when it comes
to the next; that is what makes a call of several sections sound. `CopiesInv`
counts the callers who may still insert the same key, which bounds the
duplicates. `LinksInv` says that the chain is a walk from head to tail that meets
every node in use once, with `prev` the inverse of `next`; `MoveToHead`, store by
store, turns one such walk into another.

### The shell (`ShellProofs`)

For every finite set of pids and size of the table (`ShellAssumption`):
`BasicInvariant`, `TypesRight` and `NoChildForgotten` for all commands, and
`ShellInvariant`, `TableTellsTheTruth` and `TheForegroundIsAwaited` for commands that
name jobs by number (what a pid does is told under Findings).

Between the end of a child and its removal from the table stand a pending
signal, a handler on the stack, and a pid in the handler's frame. `ShellInv` says
where the news of a child is at every moment (`NewsInv`, `ChildInv`), that what a
handler has read stays true until it acts on it (`FrameInv`), which signals are
blocked where (`BlockedInv`), how each job's state in the table relates to the
process (`StateInv`), and who may be FG (`ForegroundInv`).

### The implicit list (`ImplicitHeapProofs`)

For every heap, chunk size, set of requests and number of blocks
(`HeapAssumption`): `ImplicitInvariant`, `TagsStaySound`, `CheckheapStaysQuiet`,
`RoverStaysOnABlock`, `GrowsOnlyForWant` (an action property), and
`ImplicitListImplementsAllocator`, the refinement of `Allocator` with contents and
reallocation.

Its first part speaks of segments: parts of the heap that blocks fill without a
gap. Two that meet make one, one may be cut where a block begins, and only its
own tags decide whether it is one. From that follow the effects of `PutTags`,
`PutMerged` (all four cases of `coalesce`), `Place` and the extension of the heap on
the set of blocks, which the proofs name (`Layout(mem, end, B)`), and that the
recursive function `Blocks` finds exactly `B`. `HeapInv` adds that no two neighbours
are free and that the caller's blocks are allocated ones, each its own, with
the contents written. `ImplicitInv` adds where `rover` may be. The lemmas of the
first part know nothing of the list and hold for the other two packages as well.

### The request path (`RequestPathProofs`, `ForwardProofs`)

For every set of clients, every script, all headers that are added, all sizes
of the two buffers (`RioAssumption`, `RequestPathAssumption`): `ControlInvariant`;
`StreamsReadInOrder`, the refinement of `ByteStreams` by Rio on the streams of the
running system; `FaultsAreContained`, that tiny and the proxy go down only for
the causes that `FaultsContained` names; `RequestsAreForwarded`, that tiny is asked
what the client has sent to the end of its headers, and the headers that are added;
and `RepliesAreRelayed`, that a client gets a beginning of tiny's reply and, when
nobody left early, all of it.

Rio alone does not implement `ByteStreams`: it relies on its callers not to call
on a stream before the last call has returned, and not to write to an end that
is closed. `ControlInv` says how the servers keep to that: which server has a call
on which stream from where it stands (`CallingInv`), that a connection is in no
queue twice and not read before it is accepted (`TinyQueueInv`, `ProxyQueueInv`),
that streams nobody has connected are untouched (`NewInv`, `UnconnectedInv`), who
has closed which end (`PeerInv`), and that tiny waits while the proxy is between
connect and write (`SendInv`). The copying loop is shown to stop
at the first place where a line or block is complete (`CopiedIs`), by the least
element of a set and not by induction.

`FaultsContained` is not inductive on top of that. A server that fails when it
reads or writes fails because of who is at the other end, and `PeerInv` knows
that. But an empty file, a URL that cannot be taken apart and a name that is not found
come out of a request line, and it has to be shown that somebody sent that line. `FaultInv` adds four parts:

* `FirstInv`: what the first call on a stream finds. All that was written is still
  there, in the kernel or in the call, until the call returns; then it has the
  first byte, or nothing was written, or a reset has struck.
* `TextInv`: the line the proxy acts on is its client's (`IsAsked`) unless a reset has
  taken it, and then the headers are not read to their end (`Lost`); so what is
  forwarded to tiny asks for a file that a client has asked for.
* `EmptyInv`: where `mmap` is to be called for nothing, a client asks for the empty
  file or the proxy is down.
* `HostInv`: the arrays `hostname` and `port`, which are never cleared, hold nothing longer
  than some client has asked for (`NameKnown`) or they held at the start (`FromStart`), so
  an address that is looked up is tiny's own or a bad one; from the first client that
  leaves on, nothing is claimed.

The causes themselves never go away once they are there, so each action needs
only what it touches: the clients', the proxy's and tiny's steps are proved apart.

`ReplyRelayed` looks like a matter of copying blocks, and for the proxy's loop it is
(`RelayInv`: what the client has, what is in the proxy's hands and what is in the
kernel make up what tiny has written). But a RST at the end of tiny's connection
would drop what the proxy has not read, and the kernel sends one when tiny closes
with a part of the request unread. That it never does depends on the lines of the
request. `ForwardInv` follows them:

* `TakenInv`: what the proxy takes over are whole lines, as `Rio_readlineb` returned
  them (`IsLine`), none of them the empty line before the last (`InPieces`,
  `IsWhole`). A sequence begins with one line at most (`LineUnique`), so tiny's
  calls return the same ones, and tiny stops behind the last.
* `TinyReadsInv`: where tiny is in the request; when it answers, the kernel has
  nothing left of it.
* `ResetInv`, `DroppedInv`, `DoneInv`: so a connection to the proxy is reset only by a
  tiny that goes down, the proxy drops only a client that has left, and neither
  touches a connection outside its time.
* `OwnInv`: what the client has been told before the reply begins, which is the
  proxy's own answer to a version of the wrong form.

`RequestForwarded` compares what was forwarded with the script, whose lines the proxy
never sees: it sees pieces, and a line longer than its buffer comes in several. The
property says where the headers end (`EndOfHeaders`: the first line whose last piece
is `CRLF`, so a long line may end them), and `PlaceInv` says why the proxy stops there:

* `Place`: each call of `Rio_readlineb` begins where a line begins, or at a multiple of
  `MAXLINE - 1` in one that is too long (`IsCut`); what is kept is all that lies before,
  what is in the call, in Rio's buffer and in the kernel all that lies behind, and no
  line before has ended the headers.
* `ReadsFor`: so it is from the request line, which is the first piece of all
  (`LineCall`), to the last header (`HeaderCall`). A call that returns `CRLF` has found
  `EndOfHeaders` (`Onward`, from `PieceFound` and `LastPiece`); a call that finds the
  end of the stream returns less than a line, never `CRLF`, so the proxy asks nothing
  of tiny (`Over`).
* `ForwardedFor`: tiny is asked what is kept then. A reset that takes bytes away is
  noticed only when the client has left, the exception that the property names.

`PlaceInv` needs the control of `FaultInv` and none of `ForwardInv`; TLC has checked it
on the constants of `http`, where its quantifier over `Seq(Byte)` ranges over the one
sequence that can be meant, what the request holds behind its first line.

The headers that the proxy adds are names and neither pieces of a line end nor request
lines, a buffer has room for two bytes and the NUL, and what a client sends ends each
line but the last with its only newline (`InLines`): these three conjuncts of
`RequestPathAssumption` are all that is asked of the texts.

### Programs on one thread (`SequentialProofs`)

Here the parameters stand in the hypotheses of the theorems, as weak as the argument
needs them; the constants of `sequential` satisfy them.

* `CsimIsACache`: for every number of sets, lines and offset bits (`SimAssumption`)
  and every trace whose tags fit the `int` they are passed as (`TagsFit`), `csim.c`
  implements `DemandCache`. `CacheInv` says that a line is valid exactly when it has
  a time, so that the oldest line is an unused one while there is any, and that no
  two valid lines of a set have the same tag. The blocks of a set are as many as
  its valid lines (`RivalsAre`, by a bijection), so a miss evicts exactly when the
  set is full. A modify is two calls, of which the second hits (`TakenTwice`). Which
  block goes is left open: finding 5 says it is not the one LRU would choose.
* `TransfersAreWhole`: `BytesWhole` for streams and calls of every length. `BytesInv` adds
  what the call under way has moved, and that none is under way when the process has ended.
* `TimesAreRight`: for a counter of every width, `get_counter` with its borrow returns
  the cycles that have passed (`HalvesGiveTime`), and every measurement is
  `SampleExact`; `clear` stays in its buffer (`BufferFits`). `GapInv` says where the cycles of
  an interrupt are that `times` has reported: a gap that counts one has its cycles in
  it, or is too short to be recorded. `TimesFit` has what the code relies on: a run
  and an interrupt are shorter than the counter's range, and an interrupt is longer
  than a gap without one. `TimesRight` says a third thing, `BestKept`, which rests on
  sorting and is model-checked only.
* `NoDescriptorIsLost`: however many addresses are tried, the process has no descriptor
  open but those it was given. The other two parts of `FailuresHandled` are
  model-checked only: the table of the wrappers is put together with `@@`, which the
  provers have no definition of, and the digits of a number are a fold.

### Induction

The library's induction theorems have an operator as parameter and cannot be
used with the installed provers. `NatInduction` states induction with a set
instead (`UpTo`: a set that holds 0 and is closed under the next number, up to
`n`, holds `0..n`), which is proved from well-foundedness and is enough: the walk
along the chain, the blocks of a heap and the flattening of a sequence of
strings are recursive functions over naturals, and what they compute is proved.

### Model-checked only

* All liveness properties (`ReaderNotOvertakenForever`, `SomebodyEnters`,
  `EveryConnectionServed`, `CancelledWorkersEnd`, `PromptComesBack`, `EveryoneServed`):
  fairness and `ENABLED` are beyond the prover.
* `IndexExact`, `CheckheapQuiet` and `GrowsOnlyWhenFull` as `MallocPackages` states them,
  for the three packages at once: the parts for the implicit list are proved,
  under the names above; the explicit and the segregated lists are not.
* Of `sequential`: `TransposesGraded` and `PuzzlesSolved` are computations on given
  inputs; `CommandsParsed`, `RangesKnown`, `RightPackagePasses` and the parts of
  `TimesRight` and `FailuresHandled` named above rest on folds over sequences with a
  parameter that is an operator, which no theorem of the library can be applied
  to, on operators of the module TLC, or on RECURSIVE operators, which the prover does
  not accept. `SimulatorIsACache` is proved of `csim.c` itself (`CsimIsACache`), not of
  the instance that composes it with the other programs.

## Findings

1. **A full cache stops the proxy** (`cache_full`, `proxy/lrucache.c:205`).
   `DeleteFromTail` runs under the writer lock and calls `get_cache_pos`, which
   calls `lock_reader`. The eleventh insertion never returns, and no thread enters
   the cache again (`FullCacheStops`, checked in `proxy_cache`). The lab's
   `README.md:912` says that a full cache squeezes out its last block.
2. **Long responses are cached in part** (`cached_reply`, `proxy/proxy.c:275`).
   Every block of a response overwrites the one before in `responseBuf`; what is
   cached is the last block followed by what is left of earlier ones.
3. **A reallocation that moves breaks the explicit list** (`explicit_realloc`,
   `malloc/mm_explicit_list.c:397`). `place` is called a second time on a block
   that is placed already and unlinks it by the stale links in its payload;
   `checkheap` calls the result an error.
4. **A key typed at the wrong moment ends the shell** (`shell_keys`,
   `shell/tsh.c:495`). Between `waitpid` in the SIGCHLD handler and `deletejob` the
   table names a process that is gone; `sigint_handler` passes its pid to `Kill`,
   which exits. The lab's `README.md:71` says that the key should have no effect.
5. **The simulator's replacement is not LRU** (`csim_lru`, `cache/csim.c:178`). A hit
   adds one to the line's time, a fill takes the greatest time plus one. After
   loads of blocks 0, 2 and 0 in a set of two lines both have time 2, and the
   next miss evicts block 0, the one that was used last. The comment at
   `csim.c:149` says that the least recently used block is replaced.

Met while modelling and not settled by a run of its own:

* **`fg` with a pid can lose the prompt** (`shell/tsh.c:362`). The pid is kept in a
  variable of an inner block, so the job is marked FG but neither continued nor
  awaited. The next foreground job is awaited; when it ends, `fgpid` finds the
  marked job instead, no flag is raised, and `waitfg` sleeps on. The lab's
  `README.md:84` allows a pid. `bg` with a pid marks a stopped job BG. So `TableAgrees`,
  `ForegroundAwaited` and `PromptComesBack` are checked, and the first two proved, for
  commands that name jobs by number (`SpecByJid`); with `Spec`, or `FairSpec` for the
  last, TLC finds each of them violated.
* **The segregated lists are not in order of size** (`malloc/mm.c:569`), as the
  comments at 180 and 545 say they are: the loop that looks for a place compares
  with a size that has been shifted down to nothing. Search and coalescing do
  not rely on the order (`GrowsOnlyWhenFull`, `IndexExact` hold), and
  `OrderNeverCompared`, an assumption that TLC evaluates, says that the sizes of
  the instance have this effect.
* **A host name or port may keep the end of an earlier one** (`part1/proxy.c:66` and 68).
  `strncpy` copies it without a NUL into an array whose place on the stack is the
  same for every request, and which nothing initialises. A shorter one after a longer
  one is then not found, and the proxy exits. `FaultsContained` names the case
  (`SpoiltName`), and fails without it.
* **A URL without a colon or a slash ends the proxy** (`part1/proxy.c:61`), or one with
  the first slash before the first colon: `parse_uri` does not look at what `strstr`
  returns. `http://host/` is such a URL. `FaultsContained` names the case (`urlOK`), and fails
  without it.
* **One reset ends the proxy** (`part1/csapp.c:920`). `Rio_writen` forgives EPIPE but
  not ECONNRESET, which is what the first write after a RST reports. Likewise
  `tiny` ends with any client that leaves while it writes.
* **tiny waits in a loop for an empty line that cannot come**
  (`part1/tiny/tiny.c:169`) when the headers stop at the end of the stream.
* **A bad version is answered twice** (`part1/proxy.c:49`): with an error, and then
  with what the server says.
* **The 61x67 transpose tests one of its two bounds** (`cache/trans.c:452`; the comment
  above it names both). Columns 61 to 68 are read and written, which stays
  inside the 256x256 arrays and outside what is compared.
* `SIG_UNBLOCK` with an empty set (`tsh.c:215`) unblocks nothing, so background
  children are reaped only while a foreground job is awaited; the model has the
  mask as it is.
* A foreground job that has been forked and has not called `execve` yet catches a
  key with the shell's own handler (`tsh.c:494`), and the key is lost; `SendSignal`
  models it, and nothing in the code promises otherwise.
* `nextjid` wraps to 1 although job 1 may still be there (`tsh.c:567`), and `%1`
  then means the first of two; `ByJid` follows the code.
* Workers cancelled while busy live on beside those created in their place
  (`sbuf.c:137`): THREAD_LIMIT bounds the pool and not the threads. The model has an
  identity more than the pool has places, so that such workers occur.
* A writer that spins in `lock_writer` may load `is_prev_write` and `readcnt` at a
  bad time on every round; nothing promises it that it gets in.
* **The shell's reader** (`shell/tsh.c:238-292`): a line longer than MAXLINE is cut and one
  character of each part is overwritten by a blank; the number of words is not
  compared with MAXARGS; a quote that is not closed drops the rest of the line; a
  last line without an end is not evaluated. `Expressible` excludes these. The
  branch of `builtin_cmd` for `&` is reached only by a line that says `&` twice.
* **`add_range` misses a block around another** (`malloc/mdriver.c:409`), although the
  comment above it says that payloads must not overlap: it asks whether an end of
  the new block lies in an old one. `RangesKnown` says exactly what can overlap.
* `gen_random.pl` may ask for a block of no bytes (line 19), which every package
  refuses and `mdriver` blames it for; it reads its arguments from `$argv`, which is
  not where Perl has them. A trace that reallocates to nothing ends `mdriver` when libc is
  run first, because libc frees the block and returns a null pointer
  (`mdriver.c:855`). `RightPackagePasses` names both. A package that gives something
  for nothing aborts `mdriver` by an assertion (`mdriver.c:388`).
* Two of the errors of `checktrace.pl` (lines 96 and 104) cannot occur, because what is
  freed is forgotten; `read_trace` writes past the end of `ops` before it asserts that
  the header counted right (`mdriver.c:552`).
* `callibrate` may end without having seen an interrupt between two readings, and
  then no compensation is made; `TimesRight` says so.
* `Sleep` asks whether an unsigned number is negative (`part1/csapp.c:122`); `Realloc`
  to nothing would end the process; `P` ends it when a signal interrupts the wait;
  `unix_error` ends it with status 0; `Open_clientfd` reports an old `errno` when the name
  is not found; a `close` that fails ends the search and leaves the list of
  addresses; `sio_ltoa` of the least long prints no number. `EndsOnFailure` and
  `NumberPrinted` have the exceptions.
* `float_f2i` compares a shifted exponent with one that is not (`data/bits.c:732`), which
  never holds; the test of the exponent's size that follows covers the case.

## Not modelled

* Request lines of the proxy with less than three words, and URLs that are shorter than
  the prefix `http://`: the code takes what it misses from what older lines have left
  in the arrays (`part1/proxy.c:59`, 202). `RequestLines` has none. Nor do calls between two
  requests leave anything new in `hostname` and `port`: what they held is there or cleared.
* Formatting: URIs beyond their parts, the text of headers, listings, messages,
  numbers in traces. What a request asks for is given with it (`RequestLines`).
* Options and usage of every program, and verbose output and tables, which only
  read.
* The processes that a job starts itself. The shell signals a process and not
  its group (`tsh.c:495`), so they would not get the key; the model has one
  process for each job.
* Requests within 15 bytes of 2^32 in the allocators (`mm.c:296`), which wrap when
  the overhead is added, and more than 2^31 - 1 connections (`sbuf.c:40`), where an
  index overflows: both are past any bound of TLC.
* The lock is taken as sequentially consistent: the unlocked loads in
  `lock_writer` are single steps on memory that every thread sees alike.
* `mdriver` and the packages are not composed: the driver is checked on packages
  that behave in any way, and the packages against what a caller may rely on
  (`Allocator`). Together that is what running one on the other shows.
* The clock rate (`mhz`), which sleeps and divides, and the counters of other
  processors in `clock.c`. The cache is cleared by reading a buffer; that it helps is
  not in the model.
* `Pthread_exit`. What the wrappers' functions do besides returning is left to the
  modules that use them (`KillFails`, `ConnectFails`, `ProxyExits`, `TinyExits`).
* The other copies of files: `csapp.c` is there in each of the three stages of the
  proxy, and four times more, with stricter Rio wrappers, beside each copy of tiny;
  `tiny.c` is the same in all of them. Modelling one copy is modelling all, and half of
  the source lines that the map does not name are copies.
* The second stage of the proxy (`part1_and_part2`) is the third without the cache and
  with the same pool.
* Backpressure: a `write()` takes all it is given at once, so no process waits
  for another to read. The proxy writes to tiny before it reads, and a request
  fits in any socket buffer.
* The other graders (`driver.pl`, `driver.py`, `sdriver.pl`, `bddcheck/`) start programs and
  compare text; `ishow.c` and `fshow.c` print numbers.
* The bomb and attack labs are about binaries that are not programs of the
  repository.

## Plan

What is left is proof: the explicit list up to finding 3. The list holds exactly the
free blocks, by the lemmas on boundary tags of `ImplicitHeapProofs` and those on a
linked chain of `ProxyProofs`.
