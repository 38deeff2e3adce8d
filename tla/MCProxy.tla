------------------------------- MODULE MCProxy -------------------------------
(* Two workers, two keys and a cache of three nodes: both workers can miss   *)
(* the same key at once, and duplicates fill the cache before there are as   *)
(* many keys as nodes.  Workers are interchangeable; so are keys, when their *)
(* responses are of one length.                                              *)
EXTENDS Proxy, TLC

CONSTANTS t1, t2, k1, k2
MCThreads == {t1, t2}
MCKeys == {k1, k2}
OneBlock(k) == 1
UpToTwoBlocks(k) == IF k = k1 THEN 1 ELSE 2
ZeroedStack == {<<>>}
UsedStack == {<<>>, <<"junk">>}
Interchangeable == Permutations(MCThreads) \cup Permutations(MCKeys)
=============================================================================
