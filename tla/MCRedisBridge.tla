--------------------------- MODULE MCRedisBridge ----------------------------
(* Small instances of RedisBridge: calls, and workers, are all alike.       *)
EXTENDS RedisBridge, TLC

Alike == Permutations(Calls) \cup Permutations(Workers)
=============================================================================
