--------------------------- MODULE MCAgentChannel ---------------------------
(***************************************************************************)
(* Instances of AgentChannel for TLC: the processes are interchangeable    *)
(* (both run the same code and none is named in a property).               *)
(***************************************************************************)
EXTENDS AgentChannel, TLC

CONSTANTS p1, p2

TwoProcs == {p1, p2}
Twins == Permutations(TwoProcs)
=============================================================================
