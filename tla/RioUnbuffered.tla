--------------------------- MODULE RioUnbuffered ---------------------------
(***************************************************************************)
(* csapp.c: rio_readn and rio_writen, which move n bytes over one          *)
(* descriptor without a buffer of their own, and their wrappers.  A read() *)
(* or write() may move fewer bytes than it is asked for, be interrupted,   *)
(* or fail.  Bytes are numbered as they are sent.                          *)
(***************************************************************************)
EXTENDS Integers, SequencesExt, FiniteSetsExt

CONSTANTS
    StreamLength,   \* bytes that the other end sends before it closes
    MaxBytes        \* bytes that one call is to move, at most

VARIABLES
    process,    \* "up", "exited"
    rioErrno,
    transfer,   \* the call under way: function, n, and the bytes it has moved
    returned,   \* history: the last call and its result
    unread,     \* bytes of the other end that nobody has read
    received    \* history: the bytes that have come into a caller's buffer

rioVars == <<process, rioErrno, transfer, returned, unread, received>>

Sent == [i \in 1..StreamLength |-> i]
Outgoing(n) == [i \in 1..n |-> i]
NoCall == [fn |-> "none", n |-> 0, moved |-> <<>>]
nleft == transfer.n - Len(transfer.moved)

UnbufferedInit ==
    /\ process = "up" /\ rioErrno = "none" /\ transfer = NoCall
    /\ returned = [fn |-> "none", n |-> 0, moved |-> <<>>, rc |-> 0]
    /\ unread = Sent /\ received = <<>>

Called(fn, n) ==
    /\ process = "up" /\ transfer = NoCall
    /\ transfer' = [fn |-> fn, n |-> n, moved |-> <<>>]
    /\ UNCHANGED <<process, rioErrno, returned, unread, received>>

Return(rc) ==
    /\ transfer' = NoCall
    /\ returned' = [fn |-> transfer.fn, n |-> transfer.n, moved |-> transfer.moved, rc |-> rc]

-----------------------------------------------------------------------------
\* One round of the loop of rio_readn.
ReadBytes ==
    /\ transfer.fn = "rio_readn" /\ nleft > 0 /\ unread # <<>>
    /\ \E k \in 1..Min({nleft, Len(unread)}) :
         LET bytes == SubSeq(unread, 1, k)
         IN  /\ transfer' = [transfer EXCEPT !.moved = @ \o bytes]
             /\ unread' = SubSeq(unread, k + 1, Len(unread))
             /\ received' = received \o bytes
    /\ UNCHANGED <<process, rioErrno, returned>>

ReadEOF ==
    /\ transfer.fn = "rio_readn" /\ nleft > 0 /\ unread = <<>>
    /\ Return(Len(transfer.moved))
    /\ UNCHANGED <<process, rioErrno, unread, received>>

\* One round of the loop of rio_writen; a write() of some bytes to a file, pipe
\* or socket never moves none.
WriteBytes ==
    /\ transfer.fn = "rio_writen" /\ nleft > 0
    /\ \E k \in 1..nleft :
         transfer' = [transfer EXCEPT !.moved = SubSeq(Outgoing(transfer.n), 1, Len(@) + k)]
    /\ UNCHANGED <<process, rioErrno, returned, unread, received>>

\* Either is interrupted before it has moved anything, and tried again.
Interrupted ==
    /\ transfer # NoCall /\ nleft > 0
    /\ rioErrno' = "EINTR"
    /\ UNCHANGED <<process, transfer, returned, unread, received>>

\* The functions end when nothing is left, with n.
Complete ==
    /\ transfer # NoCall /\ nleft = 0
    /\ Return(transfer.n)
    /\ UNCHANGED <<process, rioErrno, unread, received>>

\* The wrappers: Rio_readn forgives a reset, and returns -1, Rio_writen a broken
\* pipe; any other error is the end of the process.
Forgiven(fn) == IF fn = "rio_readn" THEN "ECONNRESET" ELSE "EPIPE"

Fails ==
    /\ transfer # NoCall /\ nleft > 0
    /\ \E e \in {"ECONNRESET", "EPIPE", "EBAD"} :
         /\ rioErrno' = e
         /\ process' = IF e = Forgiven(transfer.fn) THEN "up" ELSE "exited"
    /\ Return(-1)
    /\ UNCHANGED <<unread, received>>

UnbufferedNext ==
    \/ \E fn \in {"rio_readn", "rio_writen"}, n \in 0..MaxBytes : Called(fn, n)
    \/ ReadBytes \/ ReadEOF \/ WriteBytes \/ Interrupted \/ Complete \/ Fails

UnbufferedSpec == UnbufferedInit /\ [][UnbufferedNext]_rioVars

-----------------------------------------------------------------------------
\* However a transfer is cut into pieces and interrupted: what is received is
\* what was sent, each byte once and in order, calls that fail included; a read
\* falls short only at the end of the stream; a write that comes back without
\* an error has moved everything; and the process ends only on an error that
\* the wrapper does not forgive, an interruption never being one.
BytesWhole ==
    /\ received \o unread = Sent
    /\ returned.rc >= 0 /\ returned.fn = "rio_readn" =>
           /\ returned.rc = Len(returned.moved)
           /\ returned.rc < returned.n => unread = <<>>
    /\ returned.rc >= 0 /\ returned.fn = "rio_writen" =>
           returned.moved = Outgoing(returned.n)
    /\ process = "exited" =>
           /\ returned.rc = -1
           /\ rioErrno \notin {"EINTR", Forgiven(returned.fn)}
=============================================================================
