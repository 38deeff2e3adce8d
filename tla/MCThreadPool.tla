---------------------------- MODULE MCThreadPool ----------------------------
(* A ring of one or two slots, a pool that doubles from one to two workers,  *)
(* and one identity more, for a cancelled worker that is still busy when its *)
(* place in the pool is filled again.                                        *)
EXTENDS ThreadPool

CONSTANTS w1, w2, w3
MCWorkers == {w1, w2, w3}
=============================================================================
