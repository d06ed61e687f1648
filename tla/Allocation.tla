----------------------------- MODULE Allocation -----------------------------
(***************************************************************************)
(* What a budget allocation promises to the tasks that spend from it, with *)
(* no transactions, locks or failures: a reservation is granted in one     *)
(* step, against the debits of that instant, and is settled at most once,  *)
(* for an amount that never changes afterwards.  BudgetLedger is shown to  *)
(* implement this module.                                                  *)
(***************************************************************************)
EXTENDS BudgetRows

VARIABLE rows           \* BudgetReservationRow, one per (task, action)

Init == rows = [k \in Keys |-> FreeRow]

Grant(k, amount) ==
    /\ rows[k].state = "free"
    /\ Fits(rows, k[1], amount)
    /\ rows' = [rows EXCEPT ![k] = HeldRow(amount)]

Settle(k, actual) ==
    /\ rows[k].state = "held"
    /\ rows' = [rows EXCEPT ![k] = SettledRow(@, actual)]

Next ==
    \E k \in Keys :
        \/ \E amount \in Amounts : Grant(k, amount)
        \/ \E actual \in Actuals : Settle(k, actual)

Spec == Init /\ [][Next]_rows
=============================================================================
