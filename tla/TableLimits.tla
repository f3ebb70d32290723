---------------------------- MODULE TableLimits ----------------------------
(***************************************************************************)
(* The structure limits of a table (acts settings, structure.table): the   *)
(* constructor refuses a line beyond them, the server a body beyond them.  *)
(***************************************************************************)
EXTENDS Integers

CONSTANTS
    MaxRows,   \* the most rows a table may have
    MaxCols    \* the most columns a table may have

ASSUME LimitsAssumption == MaxRows \in Nat \ {0} /\ MaxCols \in Nat \ {0}
=============================================================================
