----------------------------- MODULE MCLlmCall -----------------------------
(* Small instances of LlmCall: the settings with and without a fallback, a  *)
(* probe and a reader of the health endpoint, and four heartbeats.          *)
EXTENDS LlmCall, TLC

Chat(fallback, probing, polled) ==
    [fallback |-> fallback, probe |-> probing, polled |-> polled, threshold |-> 2, timeout |-> 1]

MCSettings == {Chat(TRUE, TRUE, FALSE), Chat(TRUE, TRUE, TRUE),
               Chat(TRUE, FALSE, FALSE), Chat(FALSE, TRUE, TRUE)}

Worker(targets, sick) == [targets |-> targets, sick |-> sick]
MCBeats == {Worker(Routes, {}), Worker(Routes, {"primary"}), Worker({"fallback"}, {}),
            Worker({}, {})}

Alike == Permutations(Questions)
=============================================================================
