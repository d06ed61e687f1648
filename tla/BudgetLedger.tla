---------------------------- MODULE BudgetLedger ----------------------------
(***************************************************************************)
(* SQLBudgetAuthority: an allocation shared by threads, processes and      *)
(* hosts.  Every operation is a write transaction that locks the           *)
(* allocation, reads the reservation rows, decides on what it read, and    *)
(* commits.  The database may fail a transaction before its commit, or     *)
(* lose the acknowledgement of one that did commit.  Money is a natural    *)
(* number of its smallest unit.                                            *)
(*                                                                         *)
(* settle(None) returns before any transaction, so it is a stuttering step *)
(* here: an unknown cost leaves the reservation held.                      *)
(***************************************************************************)
EXTENDS BudgetRows

CONSTANTS Clients,      \* threads and processes sharing the allocation
          ForeignTasks, \* tasks whose TaskRow belongs to another scope
          NoClient      \* the lock is free

ASSUME ClientAssumption ==
    /\ NoClient \notin Clients
    /\ ForeignTasks \subseteq Tasks

VARIABLES rows,         \* BudgetReservationRow, one per (task, action)
          lock,         \* the client whose transaction locks the allocation
          txn,          \* per client, the transaction in progress
          granted       \* <<key, amount>> for which a caller was told True

vars == <<rows, lock, txn, granted>>

NoTxn == [stage |-> "idle"]

Txn == [stage : {"locked", "read"}, op : {"reserve", "settle"}, key : Keys,
        amount : Amounts \cup Actuals, seen : Ledger]

\* Every row and every transaction in progress is well formed.
TypeOK ==
    /\ rows \in Ledger
    /\ lock \in Clients \cup {NoClient}
    /\ txn \in [Clients -> Txn \cup {NoTxn}]
    /\ granted \subseteq Keys \X Nat
-----------------------------------------------------------------------------
(* The decisions, as functions of the rows the transaction read.           *)

\* Mutant of Remaining: the ceiling of the task is not consulted.
RemainingOfApplication(rs, t) ==
    LET app == AppCeiling - AppDebit(rs)
    IN  IF app < 0 THEN 0 ELSE app

\* What remaining() answers: never negative, even after an overrun.
Remaining(rs, t) ==
    LET nonNegative(n) == IF n < 0 THEN 0 ELSE n
        app  == nonNegative(AppCeiling - AppDebit(rs))
        task == nonNegative(TaskCeiling - TaskDebit(rs, t))
    IN  IF app < task THEN app ELSE task

\* A transaction on a task of another scope raises IdempotencyConflict.
VerifyTaskOwner(t) == t \notin ForeignTasks

\* Mutant of Reserves: an existing action is granted whatever its amount.
ReservesAnyAmount(rs, k, amount) ==
    /\ VerifyTaskOwner(k[1])
    /\ rs[k].state = "free" => Fits(rs, k[1], amount)

\* reserve() answers True: a repeat of the same action with the same amount,
\* or a new action that fits under both ceilings.
Reserves(rs, k, amount) ==
    /\ VerifyTaskOwner(k[1])
    /\ IF rs[k].state = "free" THEN Fits(rs, k[1], amount)
                               ELSE rs[k].reserved = amount

\* Mutant of Settles: a settled action is settled again.
SettlesAgain(rs, k) == VerifyTaskOwner(k[1]) /\ rs[k].state # "free"

\* settle() writes only the first settlement of a held action; the same
\* amount again is a no-op, a different one raises ValueError, and an action
\* without a reservation raises KeyError.
Settles(rs, k) == VerifyTaskOwner(k[1]) /\ rs[k].state = "held"

\* The rows a transaction x commits, given that it read x.seen.
Committed(x) ==
    IF x.op = "reserve"
    THEN IF Reserves(x.seen, x.key, x.amount) /\ x.seen[x.key].state = "free"
         THEN [rows EXCEPT ![x.key] = HeldRow(x.amount)]
         ELSE rows
    ELSE IF Settles(x.seen, x.key)
         THEN [rows EXCEPT ![x.key] = SettledRow(@, x.amount)]
         ELSE rows
-----------------------------------------------------------------------------
Init ==
    /\ rows = [k \in Keys |-> FreeRow]
    /\ lock = NoClient
    /\ txn = [c \in Clients |-> NoTxn]
    /\ granted = {}

\* Mutant of LockedAllocation: the allocation row is read without its lock.
UnlockedAllocation(c, op, k, amount) ==
    /\ txn[c].stage = "idle"
    /\ lock' = c
    /\ txn' = [txn EXCEPT ![c] = [stage |-> "locked", op |-> op, key |-> k,
                                  amount |-> amount, seen |-> rows]]
    /\ UNCHANGED <<rows, granted>>

\* The transaction begins and locks the allocation: BEGIN IMMEDIATE on
\* SQLite, SELECT ... FOR UPDATE on PostgreSQL.
LockedAllocation(c, op, k, amount) ==
    /\ txn[c].stage = "idle"
    /\ lock = NoClient
    /\ lock' = c
    /\ txn' = [txn EXCEPT ![c] = [stage |-> "locked", op |-> op, key |-> k,
                                  amount |-> amount, seen |-> rows]]
    /\ UNCHANGED <<rows, granted>>

\* The transaction selects the reservation rows of the allocation.
ReadRows(c) ==
    /\ txn[c].stage = "locked"
    /\ txn' = [txn EXCEPT ![c].stage = "read", ![c].seen = rows]
    /\ UNCHANGED <<rows, lock, granted>>

Release(c) ==
    /\ lock' = IF lock = c THEN NoClient ELSE lock
    /\ txn' = [txn EXCEPT ![c] = NoTxn]

\* The transaction commits and its caller is told the outcome, unless the
\* acknowledgement is lost and the caller sees RepositoryUnavailable.
Commit(c, acknowledged) ==
    LET x == txn[c]
    IN  /\ x.stage = "read"
        /\ rows' = Committed(x)
        /\ granted' = IF /\ acknowledged
                         /\ x.op = "reserve"
                         /\ Reserves(x.seen, x.key, x.amount)
                      THEN granted \cup {<<x.key, x.amount>>}
                      ELSE granted
        /\ Release(c)

\* The database fails the transaction, or the process dies, before the
\* commit: everything it did is rolled back.
Rollback(c) ==
    /\ txn[c].stage # "idle"
    /\ Release(c)
    /\ UNCHANGED <<rows, granted>>

Next ==
    \E c \in Clients :
        \/ \E k \in Keys, amount \in Amounts : LockedAllocation(c, "reserve", k, amount)
        \/ \E k \in Keys, actual \in Actuals : LockedAllocation(c, "settle", k, actual)
        \/ ReadRows(c)
        \/ \E acknowledged \in BOOLEAN : Commit(c, acknowledged)
        \/ Rollback(c)

Spec == Init /\ [][Next]_vars
-----------------------------------------------------------------------------
Overrun(row) == IF row.actual > row.reserved THEN row.actual - row.reserved ELSE 0

OverrunOf(rs, keys) == SumFunctionOnSet([k \in keys |-> Overrun(rs[k])], keys)

\* However the transactions of concurrent clients interleave, fail or are
\* retried, reservations never take the application or a task past its
\* ceiling: the debit exceeds the ceiling by no more than the amount by which
\* settled actions overran their own reservations.
DebitWithinCeilings ==
    /\ AppDebit(rows) <= AppCeiling + OverrunOf(rows, Keys)
    /\ \A t \in Tasks : TaskDebit(rows, t) <= TaskCeiling + OverrunOf(rows, KeysOf(t))

\* A caller that was ever told True for an action holds exactly the amount it
\* asked for, whoever else reserved or retried the same action.
GrantedIsHeld ==
    \A g \in granted : /\ rows[g[1]].state # "free"
                       /\ rows[g[1]].reserved = g[2]
                       /\ g[1][1] \notin ForeignTasks

\* What remaining() quotes and what reserve() admits agree on every positive
\* amount of a new action.  (On zero they do not: after an overrun remaining()
\* quotes 0 while reserve() refuses even a free action.)
QuoteAgreesWithReserve ==
    \A k \in Keys, amount \in Amounts :
        (/\ amount > 0
         /\ rows[k].state = "free"
         /\ VerifyTaskOwner(k[1]))
        => (Reserves(rows, k, amount) <=> amount <= Remaining(rows, k[1]))

Alloc == INSTANCE Allocation WITH rows <- rows

\* The locked, failing, retried transactions implement the atomic allocation.
ImplementsAllocation == Alloc!Spec
=============================================================================
