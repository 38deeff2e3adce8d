-------------------------------- MODULE Rio --------------------------------
(***************************************************************************)
(* Robust I/O of csapp.c: rio_t buffers between the kernel and the callers *)
(* of rio_readlineb and rio_readnb.  A stream is one direction of a        *)
(* connection; its writer is the process at the other end, or a client.    *)
(*                                                                         *)
(* A step of a reader is one read(), together with the copying that it     *)
(* allows.  A read() that a signal interrupts is repeated and changes      *)
(* nothing.  rio_readlineb asks rio_read for one byte at a time; what it   *)
(* copies from the buffer between two read()s is copied in one step.       *)
(***************************************************************************)
EXTENDS Integers, FiniteSetsExt, SequencesExt

CONSTANTS
    Streams,
    LineStreams,        \* those that are read by lines, the others by blocks
    RIO_BUFSIZE,
    MAXLINE

ASSUME RioAssumption ==
    /\ LineStreams \subseteq Streams
    /\ RIO_BUFSIZE \in Nat \ {0}
    /\ MAXLINE \in Nat \ {0, 1}

VARIABLES
    kernel,     \* kernel[s]: bytes that arrived and have not been read
    peer,       \* peer[s]: what has become of the other end of the connection
    rio         \* rio[s]: rio_t, and the call that is in progress

rioVars == <<kernel, peer, rio>>

\* The other end is open, or has been closed (FIN) or reset.  The first error
\* is reported once: noticed, every write fails with EPIPE and every read finds
\* the end of the stream.  bounced: bytes were written to an end that was
\* closed, and its RST is under way.
Peer == {"open", "closed", "bounced", "reset", "noticed"}

\* buf: unread bytes of rio_buf, rio_bufptr and rio_cnt in one.  got: what the
\* call has copied to the caller.  rc: what the last call returned.
NoCall == [buf |-> <<>>, got |-> <<>>, calling |-> FALSE, rc |-> 0]

NewLine == "lf"

RioInit ==
    /\ kernel = [s \in Streams |-> <<>>]
    /\ peer = [s \in Streams |-> "open"]
    /\ rio = [s \in Streams |-> NoCall]

-----------------------------------------------------------------------------
\* rio_readlineb leaves room for the final NUL.
Full(s) == IF s \in LineStreams THEN MAXLINE - 1 ELSE MAXLINE

\* A slip: the end of a line does not end the loop.
CompleteWhenFull(s, got) == Len(got) = Full(s)

\* A slip: a line is complete only with a byte in the place of the NUL.
CompleteToTheEnd(s, got) ==
    \/ Len(got) = MAXLINE
    \/ s \in LineStreams /\ got # <<>> /\ Last(got) = NewLine

Complete(s, got) ==
    \/ Len(got) = Full(s)
    \/ s \in LineStreams /\ got # <<>> /\ Last(got) = NewLine

\* Copy from the buffer until the call is complete or the buffer is empty.
Copied(s, r) ==
    LET taken(n) == r.got \o SubSeq(r.buf, 1, n)
        enough == {n \in 0..Len(r.buf) : Complete(s, taken(n))}
        n == IF enough = {} THEN Len(r.buf) ELSE Min(enough)
        done == enough # {}
    IN  [buf |-> SubSeq(r.buf, n + 1, Len(r.buf)), got |-> taken(n),
         calling |-> ~done, rc |-> IF done THEN Len(taken(n)) ELSE r.rc]

\* A call of Rio_readlineb or Rio_readnb on stream s begins.
Called(s) == [rio EXCEPT ![s] = Copied(s, [@ EXCEPT !.got = <<>>])]

\* read() returns some of the bytes that are there, at most a buffer full.
ReadSome(s) ==
    /\ rio[s].calling /\ kernel[s] # <<>>
    /\ \E n \in 1..Min({RIO_BUFSIZE, Len(kernel[s])}) :
         /\ rio' = [rio EXCEPT ![s] = Copied(s, [@ EXCEPT !.buf = SubSeq(kernel[s], 1, n)])]
         /\ kernel' = [kernel EXCEPT ![s] = SubSeq(@, n + 1, Len(@))]
    /\ UNCHANGED peer

\* read() returns 0: the call returns what it has.
ReadEnd(s) ==
    /\ rio[s].calling /\ kernel[s] = <<>>
    /\ peer[s] \in {"closed", "bounced", "noticed"}
    /\ rio' = [rio EXCEPT ![s].calling = FALSE, ![s].rc = Len(rio[s].got)]
    /\ UNCHANGED <<kernel, peer>>

\* read() fails with ECONNRESET: the call returns -1, whatever it had copied.
ReadError(s) ==
    /\ rio[s].calling /\ kernel[s] = <<>>
    /\ peer[s] = "reset"
    /\ rio' = [rio EXCEPT ![s].calling = FALSE, ![s].got = <<>>, ![s].rc = -1]
    /\ peer' = [peer EXCEPT ![s] = "noticed"]
    /\ UNCHANGED kernel

Read(s) == ReadSome(s) \/ ReadEnd(s) \/ ReadError(s)

\* What write() to the other end of s may do, and what becomes of that end.
WriteOutcomes(s) ==
    CASE peer[s] = "open" -> {<<"ok", "open">>}
      [] peer[s] = "closed" -> {<<"ok", "bounced">>}
      [] peer[s] = "bounced" -> {<<"ok", "bounced">>, <<"EPIPE", "noticed">>}
      [] peer[s] = "reset" -> {<<"ECONNRESET", "noticed">>}
      [] peer[s] = "noticed" -> {<<"EPIPE", "noticed">>}

-----------------------------------------------------------------------------
\* What the callers of Rio can know of a stream.
Seen == [s \in Streams |->
    LET r == rio[s] IN
    [unread |-> (IF r.calling THEN r.got ELSE <<>>) \o r.buf \o kernel[s],
     returned |-> IF r.calling THEN <<>> ELSE r.got,
     calling |-> r.calling,
     ended |-> peer[s] # "open"]]

Promise == INSTANCE ByteStreams WITH BufferSize <- MAXLINE, stream <- Seen

\* However the kernel cuts the streams into pieces, the callers of Rio get
\* their lines and blocks: nothing is lost, repeated or out of order.
ReadsInOrder == Promise!Spec
=============================================================================
