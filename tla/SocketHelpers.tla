---------------------------- MODULE SocketHelpers ----------------------------
(***************************************************************************)
(* csapp.c: open_clientfd and open_listenfd, which walk the addresses that *)
(* getaddrinfo found until one of them takes a connection, or lets itself  *)
(* be bound, called by a program or through the wrappers that end the      *)
(* process when they fail.                                                 *)
(***************************************************************************)
EXTENDS Wrappers

\* errno after a function of the system has succeeded, or failed.
Succeeds == errno' \in {errno, EBAD}
Fails == errno' \in {EINTR, EBAD}

In(at) == status.up /\ helper.at = at

\* The helper returns a descriptor, or a negative number when it has none.
Return(rc) ==
    /\ helper' = Idle
    /\ kept' = IF rc >= 0 THEN kept \cup {rc} ELSE kept
    /\ failed' = IF rc >= 0 THEN None ELSE "socket"
    /\ IF rc < 0 /\ helper.wrapped THEN Exits(errno') ELSE UNCHANGED status

\* The call, with the list of addresses.  Without one the helper returns -2,
\* and errno is what it was.
OpenSocket(fn) ==
    /\ Ready
    /\ \E wrapped \in BOOLEAN :
        \/ /\ \E n \in 1..MaxAddresses :
                helper' = [at |-> "try", fn |-> fn, wrapped |-> wrapped, left |-> n, fd |-> -1]
           /\ failed' = None
           /\ Succeeds
           /\ UNCHANGED status
        \/ /\ failed' = "socket"
           /\ IF wrapped THEN Exits(errno) ELSE UNCHANGED status
           /\ UNCHANGED <<errno, helper>>
    /\ printed' = NoText
    /\ UNCHANGED <<fds, kept>>

NextAddress ==
    /\ helper' = [helper EXCEPT !.left = @ - 1, !.at = IF @ = "try" /\ helper.left = 1 THEN "clean" ELSE @]
    /\ UNCHANGED <<status, failed, kept>>

NoSocket == NextAddress /\ Fails /\ UNCHANGED fds

NewFd == Min(Fds \ fds)

\* connect or bind.
Accepted ==
    /\ helper' = [helper EXCEPT !.at = "clean", !.fd = NewFd]
    /\ fds' = fds \cup {NewFd}
    /\ Succeeds
    /\ UNCHANGED <<status, failed, kept>>

\* The socket is closed.  A close that fails ends the search at once, and the
\* list of addresses is not freed.
Refused ==
    /\ UNCHANGED fds
    /\ \/ (Fails \/ Succeeds) /\ NextAddress
       \/ Fails /\ Return(-1)

\* One address.  What setsockopt returns is ignored.
TryAddress ==
    /\ In("try")
    /\ NoSocket \/ (Fds # fds /\ (Accepted \/ Refused))
    /\ UNCHANGED printed

\* The end of the list.  open_listenfd has still to listen; when that fails the
\* socket is closed.
CleanUp ==
    /\ In("clean")
    /\ IF helper.fd < 0 THEN Succeeds /\ Return(-1) /\ UNCHANGED fds
       ELSE \/ Succeeds /\ Return(helper.fd) /\ UNCHANGED fds
            \/ /\ helper.fn = "open_listenfd"
               /\ Fails
               /\ fds' = fds \ {helper.fd}
               /\ Return(-1)
    /\ UNCHANGED printed

-----------------------------------------------------------------------------
Next ==
    \/ \E w \in DOMAIN Test \ {"Close", "Sio_putl"} : Call(w)
    \/ \E fd \in fds : Close(fd)
    \/ \E v \in Longs : Sio_putl(v)
    \/ Sio_error
    \/ \E fn \in {"open_clientfd", "open_listenfd"} : OpenSocket(fn)
    \/ TryAddress \/ CleanUp

Spec == WrappersInit /\ [][Next]_wrapperVars

-----------------------------------------------------------------------------
\* A wrapper ends the process if and only if the function has failed by its own
\* account: not at the end of a directory or of a file, not when a signal came.
\* What the message blames is that failure; the helpers' may be an older one.
EndsOnFailure ==
    failed # "socket" =>
        /\ ~status.up <=> failed # None
        /\ status.blames \in {"nothing", failed}

\* The text of a number means the number.  The least long is the exception: it
\* has no positive counterpart.
NumberPrinted ==
    printed.value # Min(Longs) =>
        /\ \A k \in DOMAIN printed.digits : printed.digits[k] \in 0..9
        /\ printed.value = (IF printed.minus THEN -1 ELSE 1)
                             * FoldLeft(LAMBDA n, d : 10 * n + d, 0, printed.digits)

\* Between two calls the process has the descriptors open that it was given and
\* no others, however many addresses were tried.
NoDescriptorLost == status.up /\ helper = Idle => fds = kept

FailuresHandled == EndsOnFailure /\ NumberPrinted /\ NoDescriptorLost
=============================================================================
