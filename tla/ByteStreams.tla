---------------------------- MODULE ByteStreams ----------------------------
(***************************************************************************)
(* What robust I/O promises of streams that are read by lines or by        *)
(* blocks: whatever pieces the kernel hands out, a call returns the next   *)
(* line, or the next bytes, of its stream, and each byte once.             *)
(***************************************************************************)
EXTENDS Naturals, SequencesExt

CONSTANTS
    Streams,
    LineStreams,    \* those that are read by lines, the others by blocks
    NewLine,        \* the byte that ends a line
    BufferSize      \* the size of a caller's buffer

VARIABLE stream

\* unread: bytes that arrived and that no finished call returned; returned: what
\* the last call returned; calling: a call is in progress; ended: the writer
\* will write no more.
Fresh == [unread |-> <<>>, returned |-> <<>>, calling |-> FALSE, ended |-> FALSE]

Init == stream = [s \in Streams |-> Fresh]

Arrive(old, new) ==
    /\ ~old.ended
    /\ IsPrefix(old.unread, new.unread)
    /\ new = [old EXCEPT !.unread = new.unread, !.ended = new.ended]

Call(old, new) ==
    /\ ~old.calling
    /\ new = [old EXCEPT !.calling = TRUE, !.returned = <<>>]

\* A call may come and return in one step, when its bytes are in the buffer.
Return(old, new, n) ==
    new = [old EXCEPT !.calling = FALSE,
                      !.returned = SubSeq(old.unread, 1, n),
                      !.unread = SubSeq(@, n + 1, Len(@))]

\* A line ends in its first newline, or fills the caller's buffer but for the
\* final NUL, or ends with the stream.
ReturnLine(old, new) ==
    LET line == new.returned
        n == Len(line)
    IN  /\ Return(old, new, n)
        /\ \A p \in 1..n-1 : line[p] # NewLine
        /\ n < BufferSize
        /\ \/ n = BufferSize - 1
           \/ n > 0 /\ line[n] = NewLine
           \/ old.ended /\ new.unread = <<>>

ReturnBlock(old, new) ==
    LET n == Len(new.returned) IN
    /\ Return(old, new, n)
    /\ n = BufferSize \/ (n < BufferSize /\ old.ended /\ new.unread = <<>>)

\* An error takes what the call had read so far with it.
Fail(old, new) == old.calling /\ old.ended /\ new = [Fresh EXCEPT !.ended = TRUE]

Step(s, old, new) ==
    \/ Arrive(old, new) \/ Call(old, new) \/ Fail(old, new)
    \/ s \in LineStreams /\ ReturnLine(old, new)
    \/ s \notin LineStreams /\ ReturnBlock(old, new)

Next == \A s \in Streams : stream'[s] = stream[s] \/ Step(s, stream[s], stream'[s])

Spec == Init /\ [][Next]_stream
=============================================================================
