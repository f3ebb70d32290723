----------------------------- MODULE MCActTree -----------------------------
(* Small clipboards for ActTree: a subpoint with a bank of its own and a   *)
(* risk table, and a point with a violation, whose images must be copied.  *)
EXTENDS ActTree, TLC

Entry(kind, up, level, tb) == [kind |-> kind, up |-> up, level |-> level, tb |-> tb]

SubpointWithRisk == <<Entry("item", 0, 2, TRUE), Entry("regularRisk", 1, 0, FALSE)>>
PointWithViolation == <<Entry("item", 0, 1, FALSE), Entry("violation", 1, 0, FALSE)>>
MCFragments == {SubpointWithRisk, PointWithViolation}

Same == Permutations(Nodes)
=============================================================================
