----------------------------- MODULE BudgetRows -----------------------------
(***************************************************************************)
(* The reservation rows of one budget allocation and what they debit.      *)
(* Money is a natural number of its smallest unit.  BudgetTaskRow repeats  *)
(* the immutable task ceiling of the allocation, so TaskCeiling stands for *)
(* both.                                                                   *)
(***************************************************************************)
EXTENDS Integers, FiniteSets, Functions

CONSTANTS Tasks,        \* tasks of the application
          Actions,      \* action identifiers within a task
          AppCeiling,   \* BudgetAllocationRow.application_ceiling
          TaskCeiling,  \* BudgetAllocationRow.task_ceiling
          Amounts,      \* amounts a caller reserves
          Actuals       \* actual costs a caller settles; they may overrun

ASSUME CeilingAssumption ==
    /\ AppCeiling \in Nat
    /\ TaskCeiling \in Nat
    /\ TaskCeiling <= AppCeiling

\* At any time the tables hold finitely many tasks and actions.
ASSUME FiniteAssumption == IsFiniteSet(Tasks) /\ IsFiniteSet(Actions)

ASSUME AmountAssumption == Amounts \subseteq Nat /\ Actuals \subseteq Nat

Keys == Tasks \X Actions

Row == [state : {"free", "held", "settled"}, reserved : Nat, actual : Nat]

Ledger == [Keys -> Row]

FreeRow == [state |-> "free", reserved |-> 0, actual |-> 0]

HeldRow(amount) == [state |-> "held", reserved |-> amount, actual |-> 0]

SettledRow(row, actual) == [row EXCEPT !.state = "settled", !.actual = actual]

\* A settled row debits its actual cost, any other its reservation.
Debit(row) == IF row.state = "settled" THEN row.actual ELSE row.reserved

DebitOf(rs, keys) == SumFunctionOnSet([k \in keys |-> Debit(rs[k])], keys)

KeysOf(t) == {k \in Keys : k[1] = t}

AppDebit(rs) == DebitOf(rs, Keys)

TaskDebit(rs, t) == DebitOf(rs, KeysOf(t))

\* A reservation is admitted against the debits of the whole allocation and
\* of its task.
Fits(rs, t, amount) ==
    /\ AppDebit(rs) + amount <= AppCeiling
    /\ TaskDebit(rs, t) + amount <= TaskCeiling
=============================================================================
