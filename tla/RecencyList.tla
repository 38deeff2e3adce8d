----------------------------- MODULE RecencyList -----------------------------
(***************************************************************************)
(* What the cache's chain of blocks promises: the blocks in order of their *)
(* last use, latest first.  A used block comes to the front, a new one is  *)
(* put in front, the last one is squeezed out when there is no room.       *)
(***************************************************************************)
EXTENDS Naturals, Sequences

CONSTANTS Blocks, Capacity

VARIABLE order

InUse == {order[k] : k \in 1..Len(order)}
\* The list without its k-th block.
Without(k) == SubSeq(order, 1, k-1) \o SubSeq(order, k+1, Len(order))

Room == Len(order) < Capacity

Init == order = <<>>

Use(b) ==
    \E k \in 1..Len(order) :
        /\ order[k] = b
        /\ order' = <<b>> \o Without(k)

Add(b) ==
    /\ b \notin InUse
    /\ order' = <<b>> \o (IF Room THEN order ELSE SubSeq(order, 1, Len(order) - 1))

Next == \E b \in Blocks : Use(b) \/ Add(b)

Spec == Init /\ [][Next]_order
=============================================================================
