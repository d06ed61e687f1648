--------------------------- MODULE MCBudgetLedger ---------------------------
(***************************************************************************)
(* BudgetLedger for TLC.  Clients are interchangeable, and so are the      *)
(* action identifiers of a task; every property checked is symmetric in    *)
(* both and none is a liveness property.                                   *)
(***************************************************************************)
EXTENDS BudgetLedger, TLC

LedgerSymmetry == Permutations(Clients) \cup Permutations(Actions)
=============================================================================
