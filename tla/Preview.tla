------------------------------- MODULE Preview -------------------------------
(***************************************************************************)
(* Paid routing previews: _Preview in preview.py and SQLPreviewRepository. *)
(* A submission claims a preview record for its idempotency key, reserves  *)
(* the upper cost of one classification, saves the started intent, calls   *)
(* the provider, saves what it cost, settles, and saves the route.  There  *)
(* is no journal: whatever fails to be saved is never guessed, and a retry *)
(* with the same key is answered with the record as it stands.             *)
(*                                                                         *)
(* A submission that claims a preview gives it a fresh identifier, so the  *)
(* records, reservations and calls are indexed by the claiming submission. *)
(* It alone saves its record, so the copy it holds in memory is the stored *)
(* one.  The budget authority is atomic, as BudgetLedger shows; which      *)
(* reservations it grants is a free choice.                                *)
(***************************************************************************)
EXTENDS Integers, FiniteSets

CONSTANTS
    Submissions,    \* HTTP requests for a preview, retries included
    Asks,           \* what each one asks: key, task, request digest, allocation
    Allocations,    \* budget allocations, each with its own bound on records
    NoSubmission,   \* the allocation is not locked
    MaxRecords,     \* limits.max_preview_records
    Estimate,       \* upper_cost() of the classification
    Costs           \* costs the provider may report

Unknown == -1       \* a cost that was not reported, or cannot be priced

ASSUME PreviewAssumption ==
    /\ NoSubmission \notin Submissions
    /\ \A s \in Submissions : Asks[s].allocation \in Allocations
    /\ MaxRecords \in Nat \ {0}
    /\ Estimate \in Nat
    /\ Costs \subseteq Nat

VARIABLES
    sub,        \* per submission, where it is
    lock,       \* per allocation, whose claim locks it
    row,        \* RoutingPreviewRow, by claiming submission
    ledger,     \* the authority's reservation for each preview
    calls       \* how often the provider was called for each preview

vars == <<sub, lock, row, ledger, calls>>

Points == {"new", "claim", "decide", "pin", "admit", "intent", "recheck", "account",
           "settle", "settled", "classified", "route", "stop",
           "answered", "conflict", "full", "refused", "returned", "raised", "crashed"}

\* In a transaction that locks the allocation.
Claiming == {"claim", "decide"}

\* Owns a preview and is still running.
Owning == {"pin", "admit", "intent", "recheck", "account", "settle", "settled",
           "classified", "route", "stop"}

\* seen is what a claim has read; actual and failed are what the provider
\* answered; verdict is the status stop() saves.
Sub == [pc : Points, seen : SUBSET Submissions, actual : Nat \cup {Unknown},
        failed : BOOLEAN, verdict : {"blocked", "uncertain"}]

NewSub == [pc |-> "new", seen |-> {}, actual |-> Unknown, failed |-> FALSE,
           verdict |-> "blocked"]

\* A RoutingPreview, as far as accounting goes.
Record == [status : {"absent", "claimed", "started", "accounted", "completed",
                     "blocked", "uncertain"},
           cost : {"not_incurred", "unknown", "known"},
           actual : Nat \cup {Unknown}, settled : BOOLEAN]

NoRecord == [status |-> "absent", cost |-> "not_incurred", actual |-> Unknown,
             settled |-> FALSE]

Reservation == [state : {"free", "held", "settled"}, actual : Nat]

\* Every submission, record and reservation is well formed.
TypeOK ==
    /\ sub \in [Submissions -> Sub]
    /\ lock \in [Allocations -> Submissions \cup {NoSubmission}]
    /\ row \in [Submissions -> Record]
    /\ ledger \in [Submissions -> Reservation]
    /\ calls \in [Submissions -> Nat]
-----------------------------------------------------------------------------
Init ==
    /\ sub = [s \in Submissions |-> NewSub]
    /\ lock = [a \in Allocations |-> NoSubmission]
    /\ row = [s \in Submissions |-> NoRecord]
    /\ ledger = [s \in Submissions |-> [state |-> "free", actual |-> 0]]
    /\ calls = [s \in Submissions |-> 0]

At(s, pc) == sub[s].pc = pc

GoTo(s, pc) == sub' = [sub EXCEPT ![s].pc = pc]

\* The claim or the submission ends, and what it remembered is gone.
End(s, pc) == sub' = [sub EXCEPT ![s] = [NewSub EXCEPT !.pc = pc]]

StopWith(s, verdict) == sub' = [sub EXCEPT ![s].pc = "stop", ![s].verdict = verdict]

Existing == {s \in Submissions : row[s].status # "absent"}

(* The claim.                                                              *)

\* run() refuses before it claims: stale policy, scope, authorization,
\* environment or classifier configuration.
Refuse(s) ==
    /\ At(s, "new")
    /\ End(s, "refused")
    /\ UNCHANGED <<lock, row, ledger, calls>>

LockAllocation(s) ==
    /\ At(s, "new")
    /\ lock[Asks[s].allocation] = NoSubmission
    /\ lock' = [lock EXCEPT ![Asks[s].allocation] = s]
    /\ GoTo(s, "claim")
    /\ UNCHANGED <<row, ledger, calls>>

ReadRecords(s) ==
    /\ At(s, "claim")
    /\ sub' = [sub EXCEPT ![s].pc = "decide", ![s].seen = Existing]
    /\ UNCHANGED <<lock, row, ledger, calls>>

Unlock(s) == lock' = [a \in Allocations |-> IF lock[a] = s THEN NoSubmission ELSE lock[a]]

SameKey(s, t) == Asks[s].key = Asks[t].key

SameRequest(s, t) == Asks[s].digest = Asks[t].digest

\* Mutant of Clashes: the key is not unique in the table.
ClashesOnTask(s, t) == Asks[s].task = Asks[t].task /\ ~SameKey(s, t)

\* The two unique constraints of the table.
Clashes(s, t) == SameKey(s, t) \/ Asks[s].task = Asks[t].task

CountedFor(s, ts) == {t \in ts : Asks[t].allocation = Asks[s].allocation}

\* What claim() answers when it stores nothing: the record of the key, as the
\* transaction read it or, after an IntegrityError, as it is now; a conflict;
\* or that the allocation is full.
Answer(s) ==
    LET keyed(ts) == {t \in ts : SameKey(s, t)}
        answer(ts) == IF \E t \in ts : SameRequest(s, t) THEN "answered" ELSE "conflict"
    IN  CASE keyed(sub[s].seen) # {} -> answer(keyed(sub[s].seen))
          [] keyed(sub[s].seen) = {}
               /\ Cardinality(CountedFor(s, sub[s].seen)) >= MaxRecords -> "full"
          [] OTHER -> answer(keyed(Existing))

\* The claim finds no record of its key, room for one more, and no clash.
Claims(s) ==
    /\ \A t \in sub[s].seen : ~SameKey(s, t)
    /\ Cardinality(CountedFor(s, sub[s].seen)) < MaxRecords
    /\ \A t \in Existing : ~Clashes(s, t)

\* The claim is committed; when its acknowledgement is lost, the record stays
\* claimed and its submission never learns of it.
Claim(s, acknowledged) ==
    /\ At(s, "decide")
    /\ Claims(s)
    /\ row' = [row EXCEPT ![s].status = "claimed"]
    /\ End(s, IF acknowledged THEN "pin" ELSE "raised")
    /\ Unlock(s)
    /\ UNCHANGED <<ledger, calls>>

ClaimAnswered(s) ==
    /\ At(s, "decide")
    /\ ~Claims(s)
    /\ End(s, Answer(s))
    /\ Unlock(s)
    /\ UNCHANGED <<row, ledger, calls>>

\* The transaction fails before its commit.
ClaimFails(s) ==
    /\ sub[s].pc \in Claiming
    /\ End(s, "raised")
    /\ Unlock(s)
    /\ UNCHANGED <<row, ledger, calls>>
-----------------------------------------------------------------------------
(* The owner of a preview.                                                 *)

\* save() commits the record r, and the submission goes on as next; or the
\* database fails, having committed it or not, and RepositoryUnavailable ends
\* the submission.
Save(s, r, next) ==
    /\ \/ row' = [row EXCEPT ![s] = r] /\ sub' = [sub EXCEPT ![s] = next]
       \/ row' \in {row, [row EXCEPT ![s] = r]} /\ End(s, "raised")
    /\ UNCHANGED <<lock, ledger, calls>>

\* pin_versions stores the policy and the catalogue.
Pin(s) ==
    /\ At(s, "pin")
    /\ \/ GoTo(s, "admit")
       \/ End(s, "raised")
       \/ StopWith(s, "blocked")
    /\ UNCHANGED <<lock, row, ledger, calls>>

\* execute() refuses the invocation, the deadline, the size or the price, or
\* the authority refuses the reservation.
Reject(s) ==
    /\ At(s, "admit")
    /\ StopWith(s, "blocked")
    /\ UNCHANGED <<lock, row, ledger, calls>>

\* The reservation is granted, or reserve() raises, having granted it or not.
Reserve(s) ==
    /\ At(s, "admit")
    /\ \/ ledger' = [ledger EXCEPT ![s].state = "held"] /\ GoTo(s, "intent")
       \/ ledger' \in {ledger, [ledger EXCEPT ![s].state = "held"]} /\ End(s, "raised")
    /\ UNCHANGED <<lock, row, calls>>

\* Mutant of Intent: the cost keeps its default, not_incurred.
IntentDefaultCost(s) ==
    /\ At(s, "intent")
    /\ Save(s, [row[s] EXCEPT !.status = "started"], [sub[s] EXCEPT !.pc = "recheck"])

Intent(s) ==
    /\ At(s, "intent")
    /\ Save(s, [row[s] EXCEPT !.status = "started", !.cost = "unknown"],
            [sub[s] EXCEPT !.pc = "recheck"])

\* Expired or no longer ready: zero cost is saved before the funds are
\* released.
Withdraw(s) ==
    /\ At(s, "recheck")
    /\ Save(s, [row[s] EXCEPT !.status = "accounted", !.cost = "not_incurred", !.actual = 0],
            [sub[s] EXCEPT !.pc = "settle", !.actual = 0, !.failed = TRUE])

\* The provider is called and answers, with a result or a failure, and a cost.
Dispatch(s, failed, actual) ==
    /\ At(s, "recheck")
    /\ calls' = [calls EXCEPT ![s] = @ + 1]
    /\ sub' = [sub EXCEPT ![s].pc = "account", ![s].failed = failed, ![s].actual = actual]
    /\ UNCHANGED <<lock, row, ledger>>

\* The provider raises, answers for another invocation, or its answer cannot
\* be priced: whether it is paid is not known.
DispatchLost(s) ==
    /\ At(s, "recheck")
    /\ calls' = [calls EXCEPT ![s] = @ + 1]
    /\ StopWith(s, "uncertain")
    /\ UNCHANGED <<lock, row, ledger>>

\* Mutant of AfterAccount: an unknown cost ends the preview as blocked.
AfterAccountBlocked(r) ==
    IF r.actual = Unknown THEN [r EXCEPT !.pc = "stop", !.verdict = "blocked"]
                          ELSE [r EXCEPT !.pc = "settle"]

AfterAccount(r) ==
    IF r.actual = Unknown THEN [r EXCEPT !.pc = "stop", !.verdict = "uncertain"]
                          ELSE [r EXCEPT !.pc = "settle"]

\* Mutant of Account: the cost is settled first and saved with the settlement.
AccountUnsaved(s) ==
    /\ At(s, "account")
    /\ sub' = [sub EXCEPT ![s] = AfterAccount(@)]
    /\ UNCHANGED <<lock, row, ledger, calls>>

\* The evidence and the cost are saved before the settlement.
Account(s) ==
    /\ At(s, "account")
    /\ Save(s, [row[s] EXCEPT !.status = "accounted", !.actual = sub[s].actual,
                              !.cost = IF sub[s].actual = Unknown THEN "unknown" ELSE "known"],
            AfterAccount(sub[s]))

\* settle() succeeds, or raises, having settled or not.
Settle(s) ==
    /\ At(s, "settle")
    /\ LET after == [ledger EXCEPT ![s] = [state |-> "settled", actual |-> sub[s].actual]]
       IN  \/ ledger' = after /\ GoTo(s, "settled")
           \/ ledger' \in {ledger, after} /\ End(s, "raised")
    /\ UNCHANGED <<lock, row, calls>>

Settled(s) ==
    /\ At(s, "settled")
    /\ Save(s, [row[s] EXCEPT !.settled = TRUE],
            [sub[s] EXCEPT !.pc = IF sub[s].failed THEN "stop" ELSE "classified"])

\* The answer is not a classification; otherwise the classification is saved.
Classified(s) ==
    /\ At(s, "classified")
    /\ \/ StopWith(s, "blocked") /\ UNCHANGED <<lock, row, ledger, calls>>
       \/ Save(s, row[s], [sub[s] EXCEPT !.pc = "route"])

Overran(s) == row[s].actual > Estimate

\* The deadline, readiness or the reservation stops the preview; the router
\* fails; or the decision completes it.
Route(s) ==
    /\ At(s, "route")
    /\ \/ StopWith(s, "blocked") /\ UNCHANGED <<lock, row, ledger, calls>>
       \/ ~Overran(s) /\ StopWith(s, "uncertain") /\ UNCHANGED <<lock, row, ledger, calls>>
       \/ /\ ~Overran(s)
          /\ Save(s, [row[s] EXCEPT !.status = "completed"], [NewSub EXCEPT !.pc = "returned"])

Stop(s) ==
    /\ At(s, "stop")
    /\ Save(s, [row[s] EXCEPT !.status = sub[s].verdict], [NewSub EXCEPT !.pc = "returned"])

\* The process dies; a transaction in progress is rolled back.
Crash(s) ==
    /\ sub[s].pc \in Claiming \cup Owning
    /\ End(s, "crashed")
    /\ Unlock(s)
    /\ UNCHANGED <<row, ledger, calls>>
-----------------------------------------------------------------------------
ClaimStep(s) ==
    \/ Refuse(s) \/ LockAllocation(s) \/ ReadRecords(s)
    \/ \E acknowledged \in BOOLEAN : Claim(s, acknowledged)
    \/ ClaimAnswered(s) \/ ClaimFails(s)

OwnerStep(s) ==
    \/ Pin(s) \/ Reject(s) \/ Reserve(s) \/ Intent(s) \/ Withdraw(s)
    \/ \E failed \in BOOLEAN, actual \in Costs \cup {Unknown} : Dispatch(s, failed, actual)
    \/ DispatchLost(s) \/ Account(s) \/ Settle(s) \/ Settled(s)
    \/ Classified(s) \/ Route(s) \/ Stop(s)

Next == \E s \in Submissions : ClaimStep(s) \/ OwnerStep(s) \/ Crash(s)

Spec == Init /\ [][Next]_vars
-----------------------------------------------------------------------------
\* The provider is called at most once for a key, whatever submissions repeat
\* it at the same time or after a crash, and only with funds reserved and the
\* started intent stored.
PaidOnce ==
    \A s \in Submissions : calls[s] > 0 =>
        /\ calls[s] = 1
        /\ ledger[s].state # "free"
        /\ row[s].status \notin {"absent", "claimed"}
        /\ \A t \in Submissions : (SameKey(s, t) /\ calls[t] > 0) => t = s

\* No settlement follows an unpersisted result: what the authority settled is
\* what the stored record says the call cost.
SettlementIsRecorded ==
    \A s \in Submissions : ledger[s].state = "settled" =>
        row[s].actual = ledger[s].actual /\ row[s].cost # "unknown"

\* A stored cost status is the truth about the call, at every moment at which
\* a crash may leave it behind.
CostStatusIsTrue ==
    \A s \in Submissions : /\ row[s].cost = "not_incurred" => calls[s] = 0
                           /\ row[s].cost = "known" => calls[s] = 1

\* A blocked or completed preview leaves nothing to reconcile: its funds are
\* not held, and a completed one was called and cost no more than reserved.
\* Everything in doubt is claimed, started, accounted or uncertain.
FinalIsReconciled ==
    \A s \in Submissions :
        /\ row[s].status \in {"blocked", "completed"} => ledger[s].state # "held"
        /\ row[s].status = "completed" => /\ calls[s] = 1
                                          /\ row[s].settled
                                          /\ row[s].actual <= Estimate
=============================================================================
