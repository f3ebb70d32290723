---------------------------- MODULE MCLockKeeper ----------------------------
(* Instances of LockKeeper: model values from the .cfg files; the acts are alike. *)
EXTENDS LockKeeper, TLC

AnyAct == Permutations(Acts)
=============================================================================
