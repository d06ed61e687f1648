------------------------- MODULE CalibrationLedger -------------------------
(***************************************************************************)
(* CalibrationAllocation: the allocation shared by calibration runs, kept  *)
(* as an append-only file of whole states.  Every operation holds the file *)
(* lock from its read to its append, so it is one step; the append may     *)
(* fail, tear, or reach the file without being synced.  A file whose last  *)
(* line is torn is refused by every later operation.                       *)
(***************************************************************************)
EXTENDS Integers, FiniteSets, Functions

CONSTANTS Runs,         \* run identifiers that share the allocation
          Ceiling,      \* ceiling_usd
          Amounts,      \* bounds a run reserves: plans of paid calls cost something
          Actuals       \* costs a run settles; they may exceed its bound

ASSUME LedgerAssumption ==
    /\ IsFiniteSet(Runs)
    /\ Ceiling \in Nat
    /\ Amounts \subseteq Nat \ {0}
    /\ Actuals \subseteq Nat

VARIABLES rows,         \* the runs of the last complete state in the file
          torn          \* the last line has no newline

Rows == [state : {"free", "reserved", "settled", "uncertain"},
         reserved : Nat, actual : Nat]

FreeRun == [state |-> "free", reserved |-> 0, actual |-> 0]

\* What becomes of an append: nothing reaches the file, a part of the line
\* does, all of it does but is not synced, all of it does.  Only the last one
\* lets the operation return.
Fates == {"unwritten", "torn", "unsynced", "written"}

LedgerInit ==
    /\ rows = [r \in Runs |-> FreeRun]
    /\ torn = FALSE

Uncertain == \E r \in Runs : rows[r].state = "uncertain"

\* Mutant of Charge: a run that has not settled is charged nothing.
ChargeSettled(row) == IF row.state = "settled" THEN row.actual ELSE 0

\* A run is charged its actual cost once it settled and its bound before
\* that; an uncertain run is charged its bound for good.
Charge(row) == IF row.state = "settled" THEN row.actual ELSE row.reserved

Charged(rs) == SumFunctionOnSet([r \in Runs |-> Charge(rs[r])], Runs)

\* _remaining(), never negative.
Remaining == IF Charged(rows) > Ceiling THEN 0 ELSE Ceiling - Charged(rows)

\* The append of the state in which run r has this row.
Append(r, row, fate) ==
    /\ rows' = IF fate \in {"unsynced", "written"} THEN [rows EXCEPT ![r] = row] ELSE rows
    /\ torn' = (torn \/ fate = "torn")

\* reserve() raises ValueError for a run it knows, while any run is
\* uncertain, and beyond what remains.
CanReserve(r, amount) ==
    /\ ~torn
    /\ rows[r].state = "free"
    /\ ~Uncertain
    /\ amount <= Remaining

Reserve(r, amount, fate) ==
    /\ CanReserve(r, amount)
    /\ Append(r, [FreeRun EXCEPT !.state = "reserved", !.reserved = amount], fate)

\* assert_ready(): asked before every paid call.
AssertReady(r) == ~torn /\ rows[r].state = "reserved" /\ ~Uncertain

CanSettle(r) == ~torn /\ rows[r].state = "reserved"

\* The row of a run that settles: an unknown cost makes it uncertain.
SettledAs(row, known, actual) ==
    IF known THEN [row EXCEPT !.state = "settled", !.actual = actual]
             ELSE [row EXCEPT !.state = "uncertain"]

Settle(r, known, actual, fate) ==
    /\ CanSettle(r)
    /\ Append(r, SettledAs(rows[r], known, actual), fate)

LedgerNext ==
    \E r \in Runs, fate \in Fates :
        \/ \E amount \in Amounts : Reserve(r, amount, fate)
        \/ \E known \in BOOLEAN, actual \in Actuals : Settle(r, known, actual, fate)
-----------------------------------------------------------------------------
(* The allocation as its users see it: an uncertain run holds its bound.   *)

HeldRows ==
    [k \in Runs \X {"run"} |->
        [state    |-> IF rows[k[1]].state \in {"reserved", "uncertain"} THEN "held"
                      ELSE rows[k[1]].state,
         reserved |-> rows[k[1]].reserved,
         actual   |-> rows[k[1]].actual]]

Alloc == INSTANCE Allocation WITH
    Tasks <- Runs, Actions <- {"run"}, AppCeiling <- Ceiling, TaskCeiling <- Ceiling,
    rows <- HeldRows

\* The allocation file keeps the promises of the atomic allocation: whatever
\* appends fail or tear and however runs interleave, a bound is granted only
\* under the ceiling as charged at that moment, to a run that never had one,
\* and is replaced at most once, by the run's cost; an uncertain run holds it.
ImplementsAllocation == Alloc!Spec
=============================================================================
