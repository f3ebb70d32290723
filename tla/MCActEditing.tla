---------------------------- MODULE MCActEditing ----------------------------
(* Model-checking instances of ActEditing: model values for tabs, users and *)
(* browsers, and the ways they can be related.                              *)
EXTENDS ActEditing, TLC

CONSTANTS t1, t2, u1, u2, b1, b2, e1, e2, e3

TwoTabs     == {t1, t2}
TwoUsers    == [t \in TwoTabs |-> IF t = t1 THEN u1 ELSE u2]
OneUser     == [t \in TwoTabs |-> u1]
TwoBrowsers == [t \in TwoTabs |-> IF t = t1 THEN b1 ELSE b2]
OneBrowser  == [t \in TwoTabs |-> b1]

\* The two users, each with a tab in a browser of its own, can be exchanged,
\* and so can the edits.
Swap == t1 :> t2 @@ t2 :> t1 @@ u1 :> u2 @@ u2 :> u1 @@ b1 :> b2 @@ b2 :> b1
Twins == {Swap} \cup Permutations(Edits) \cup {Swap @@ p : p \in Permutations(Edits)}

OneTab        == {t1}
OneTabUser    == [t \in OneTab |-> u1]
OneTabBrowser == [t \in OneTab |-> b1]
=============================================================================
