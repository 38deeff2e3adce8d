------------------------------ MODULE ConnQueue ------------------------------
(***************************************************************************)
(* What the shared buffer promises the accept loop and the workers: a      *)
(* bounded first-in first-out queue of connections.                        *)
(***************************************************************************)
EXTENDS Naturals, Sequences

CONSTANTS Conns, Capacity

VARIABLE queue

Init == queue = <<>>

Insert(c) ==
    /\ Len(queue) < Capacity
    /\ queue' = Append(queue, c)

Remove ==
    /\ queue # <<>>
    /\ queue' = Tail(queue)

Next == Remove \/ \E c \in Conns : Insert(c)

Spec == Init /\ [][Next]_queue
=============================================================================
