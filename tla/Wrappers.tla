------------------------------ MODULE Wrappers ------------------------------
(***************************************************************************)
(* csapp.c: the wrappers around the functions of the system, the output    *)
(* routines for signal handlers (Sio), and the helpers that open sockets,  *)
(* called by a process one after the other in any order.                   *)
(*                                                                         *)
(* A wrapper ends the process when the function has failed.  How that      *)
(* shows differs from function to function: a negative result, a null      *)
(* pointer, a code, errno, the error flag of a stream.  Pointers are       *)
(* numbers too, as they are when they are compared: the null pointer is 0. *)
(***************************************************************************)
EXTENDS Integers, SequencesExt, FiniteSetsExt

CONSTANTS
    Fds,            \* descriptors that the process may have open
    MaxAddresses,   \* addresses that getaddrinfo finds for a name, at most
    LongBits        \* width of a long, for sio_ltoa

VARIABLES
    status,     \* whether the process runs, and what its last message blames
    failed,     \* history: why the last call failed, if it did
    errno,
    printed,    \* history: the number that was just printed, and its text
    helper,     \* the call of open_clientfd or open_listenfd under way
    fds,        \* open descriptors
    kept        \* history: descriptors that the helpers have returned

callVars == <<status, failed, errno, printed>>
socketVars == <<helper, fds, kept>>
wrapperVars == <<callVars, socketVars>>

NULL == 0
MAP_FAILED == -1
EOF == -1
nmemb == 2          \* what fread and fwrite are asked for

\* Values of errno.  EBAD is any error but EINTR.
None == "none"
EINTR == "EINTR"
EBAD == "EBAD"

-----------------------------------------------------------------------------
\* What each wrapper looks at, section by section of the file.  Sleep asks
\* whether an unsigned number is negative, which it never is.
All(names, test) == [w \in names |-> test]

ProcessControl ==
    All({"Fork", "Execve", "Wait", "Waitpid", "Kill", "Setpgid"}, "negative")
    @@ All({"Pause", "Alarm", "Getpgrp"}, "nothing")
    @@ All({"Sleep"}, "negative unsigned")

SignalControl ==
    All({"Signal", "Sigprocmask", "Sigemptyset", "Sigfillset", "Sigaddset",
         "Sigdelset", "Sigismember"}, "negative")
    @@ All({"Sigsuspend"}, "errno other than EINTR")

UnixIO ==
    All({"Open", "Read", "Write", "Lseek", "Close", "Select", "Dup2",
         "Stat", "Fstat", "Closedir"}, "negative")
    @@ All({"Opendir"}, "null")
    @@ All({"Readdir"}, "null and errno")

Memory ==
    All({"Mmap"}, "map failed")
    @@ All({"Munmap"}, "negative")
    @@ All({"Malloc", "Realloc", "Calloc"}, "null")
    @@ All({"Free"}, "nothing")

StandardIO ==
    All({"Fclose"}, "not zero")
    @@ All({"Fdopen", "Fopen"}, "null")
    @@ All({"Fgets"}, "null and ferror")
    @@ All({"Fputs"}, "EOF")
    @@ All({"Fread"}, "short and ferror")
    @@ All({"Fwrite"}, "short")

Sockets == All({"Socket", "Setsockopt", "Bind", "Listen", "Accept", "Connect"}, "negative")

Names ==
    All({"Getaddrinfo", "Getnameinfo"}, "code")
    @@ All({"Freeaddrinfo"}, "nothing")
    @@ All({"Inet_ntop", "Gethostbyname", "Gethostbyaddr"}, "null")
    @@ All({"Inet_pton"}, "not positive")

Threads ==
    All({"Pthread_create", "Pthread_cancel", "Pthread_join", "Pthread_detach"}, "code")
    @@ All({"Pthread_self", "Pthread_once"}, "nothing")

Semaphores == All({"Sem_init", "P", "V"}, "negative")

SioOutput == All({"Sio_puts", "Sio_putl"}, "negative")

Test == ProcessControl @@ SignalControl @@ UnixIO @@ Memory @@ StandardIO @@ Sockets
        @@ Names @@ Threads @@ Semaphores @@ SioOutput

\* The condition under which the wrapper does not return.
Caught(w, r) ==
    LET is(test) == Test[w] = test
    IN  \/ is("negative") /\ r.rc < 0
        \/ is("errno other than EINTR") /\ r.errno # EINTR
        \/ is("null") /\ r.rc = NULL
        \/ is("null and errno") /\ r.rc = NULL /\ r.errno # None
        \/ is("map failed") /\ r.rc = MAP_FAILED
        \/ (is("code") \/ is("not zero")) /\ r.rc # 0
        \/ is("null and ferror") /\ r.rc = NULL /\ r.ferror
        \/ is("EOF") /\ r.rc = EOF
        \/ is("short and ferror") /\ r.rc < nmemb /\ r.ferror
        \/ is("short") /\ r.rc < nmemb
        \/ is("not positive") /\ r.rc <= 0

\* unix_error names errno, posix_error and gai_error the code that was returned,
\* app_error and dns_error nothing.
Silent(w, r) ==
    \/ w \in {"Fgets", "Gethostbyname", "Gethostbyaddr", "Sio_puts", "Sio_putl"}
    \/ w = "Inet_pton" /\ r.rc = 0
Blamed(w, r) ==
    IF Silent(w, r) THEN "nothing" ELSE IF Test[w] = "code" THEN "code" ELSE r.errno

\* A slip: errno is not cleared before readdir.
BeforeAsItWas(w) == errno

\* The value of errno when the function is called.
Before(w) == IF w = "Readdir" THEN None ELSE errno

-----------------------------------------------------------------------------
\* What the functions return, by their manual pages.  A call that succeeds may
\* leave any error in errno, none ever clears it.  Allocations ask for at least
\* a byte.
Result(rc, e, ferror, why) == [rc |-> rc, errno |-> e, ferror |-> ferror, why |-> why]

Outcomes(w, e) ==
    LET good(rcs) == {Result(rc, x, FALSE, None) : rc \in rcs, x \in {e, EBAD}}
        bad(rcs) == {Result(rc, x, FALSE, x) : rc \in rcs, x \in {EINTR, EBAD}}
        unchanged(rc, why) == Result(rc, e, FALSE, why)
    IN  CASE w \in {"Pause", "Alarm", "Getpgrp", "Sleep", "Free", "Freeaddrinfo",
                    "Pthread_self", "Pthread_once"} -> good({-1, 0, 1})
          [] w \in {"Opendir", "Malloc", "Realloc", "Calloc", "Fdopen", "Fopen",
                    "Inet_ntop", "Gethostbyname", "Gethostbyaddr"} -> good({1}) \cup bad({NULL})
          [] w \in {"Getaddrinfo", "Getnameinfo", "Pthread_create", "Pthread_cancel",
                    "Pthread_join", "Pthread_detach"} ->
                 good({0}) \cup {unchanged(rc, "code") : rc \in {-1, 1}}
          [] w = "Readdir" -> good({1}) \cup {unchanged(NULL, None)} \cup bad({NULL})
          [] w = "Fclose" -> good({0}) \cup bad({EOF})
          [] w = "Mmap" -> good({1}) \cup bad({MAP_FAILED})
          [] w = "Fgets" -> good({1}) \cup {unchanged(NULL, None),
                                           Result(NULL, EBAD, TRUE, EBAD)}
          [] w = "Fread" -> good({nmemb}) \cup {unchanged(1, None),
                                               Result(1, EBAD, TRUE, EBAD)}
          [] w = "Fwrite" -> good({nmemb}) \cup bad({0, 1})
          [] w = "Sigsuspend" -> {Result(-1, EINTR, FALSE, None), Result(-1, EBAD, FALSE, EBAD)}
          [] w = "Inet_pton" -> good({1}) \cup {unchanged(0, "not an address")} \cup bad({-1})
          [] w = "Execve" -> bad({-1})        \* it returns only then
          [] OTHER -> good({0, 1}) \cup bad({-1})

-----------------------------------------------------------------------------
Running == [up |-> TRUE, blames |-> "nothing"]
Exits(blamed) == status' = [up |-> FALSE, blames |-> blamed]
Idle == [at |-> "none"]
NoText == [value |-> 0, minus |-> FALSE, digits |-> <<0>>]

WrappersInit ==
    /\ status = Running /\ failed = None /\ errno = None
    /\ printed = NoText
    /\ helper = Idle /\ fds = {} /\ kept = {}

Ready == status.up /\ helper = Idle

\* A wrapper's call and what follows.
Finish(w, r) ==
    /\ errno' = r.errno
    /\ failed' = r.why
    /\ IF Caught(w, r) THEN Exits(Blamed(w, r)) ELSE UNCHANGED status

Call(w) ==
    /\ Ready
    /\ \E r \in Outcomes(w, Before(w)) : Finish(w, r)
    /\ printed' = NoText
    /\ UNCHANGED socketVars

\* Close of a descriptor that is open: it is closed even when an error is
\* reported.
Close(fd) ==
    /\ Ready /\ fd \in fds
    /\ \E r \in Outcomes("Close", errno) : Finish("Close", r)
    /\ fds' = fds \ {fd} /\ kept' = kept \ {fd}
    /\ printed' = NoText
    /\ UNCHANGED helper

-----------------------------------------------------------------------------
\* Sio.  A long is negated and divided as the machine does it: the least one
\* stays negative, and division rounds toward zero.
Longs == -(2^(LongBits-1))..2^(LongBits-1)-1
Negated(v) == IF -v \in Longs THEN -v ELSE v
Quotient(v, b) == IF v < 0 THEN -((-v) \div b) ELSE v \div b
Remainder(v, b) == v - b * Quotient(v, b)

\* sio_ltoa: the digits come out last first, and sio_reverse turns them round.
sio_ltoa(v, b) ==
    LET digits[m \in Longs] ==
            LET more == Quotient(m, b)
            IN  (IF more > 0 THEN digits[more] ELSE <<>>) \o <<Remainder(m, b)>>
    IN  [value |-> v, minus |-> v < 0, digits |-> digits[IF v < 0 THEN Negated(v) ELSE v]]

Sio_putl(v) ==
    /\ Ready
    /\ printed' = sio_ltoa(v, 10)
    /\ \E r \in Outcomes("Sio_putl", errno) : Finish("Sio_putl", r)
    /\ UNCHANGED socketVars

\* A message, and the end.
Sio_error ==
    /\ Ready
    /\ Exits("nothing") /\ failed' = "asked"
    /\ printed' = NoText
    /\ UNCHANGED <<errno, socketVars>>
=============================================================================
