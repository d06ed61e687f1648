----------------------------- MODULE MCExecution -----------------------------
(***************************************************************************)
(* Execution for TLC.  Every operation reserves one unit; a call may cost  *)
(* nothing, the unit, more than the unit, or an unknown amount.            *)
(***************************************************************************)
EXTENDS Execution

UnitEstimate == [kind \in Kinds |-> 1]

NoTools == <<>>

TwoTools == <<"unkeyed", "keyed">>
=============================================================================
