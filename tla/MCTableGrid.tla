---------------------------- MODULE MCTableGrid ----------------------------
(***************************************************************************)
(* Instances of TableGrid for TLC: a regular table as a click creates it,  *)
(* and a protected risk table with its two header rows, the first of them  *)
(* one merged cell.                                                        *)
(***************************************************************************)
EXTENDS TableGrid

Regular ==
    [rows |-> 2, cols |-> 2, headers |-> 1, merges |-> {}, protected |-> FALSE]

RiskTable ==
    [rows |-> 3, cols |-> 2, headers |-> 2, protected |-> TRUE,
     merges |-> {[at |-> <<0, 0>>, span |-> <<1, 2>>]}]

MCPresets == {Regular, RiskTable}
=============================================================================
