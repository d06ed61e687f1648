--------------------------- MODULE CalibrationRun ---------------------------
(***************************************************************************)
(* A live calibration run: CalibrationRunner drives classification,        *)
(* generation with recovery, and blind grading with retries over a corpus, *)
(* one paid call at a time; LiveCalibrationGuard admits each call and      *)
(* reserves and settles the run's bound in the shared allocation;          *)
(* CalibrationStore keeps the event journal and the final record.  Other   *)
(* runs use the same allocation meanwhile.                                 *)
(*                                                                         *)
(* A call that fails with an unknown cost has still charged something:     *)
(* paid is what the provider was really paid.  Appends to the event        *)
(* journal may fail at any time.                                           *)
(***************************************************************************)
EXTENDS CalibrationLedger, FiniteSetsExt

CONSTANTS Me,               \* the run_id of the run that is followed
          NumCases,         \* cases of the corpus
          Strategies,       \* strategies of the experiment
          Routers,          \* those that classify and route
          Recovering,       \* routers with recovery_enabled
          Bound,            \* _call_bound, per purpose of a call
          MaxAttempts,      \* max_generation_attempts
          Retries,          \* retries of the evaluator and of the adjudicator
          MaxAdjudications, \* max_adjudications
          AggregateCap,     \* aggregate_cap_usd
          Overrun,          \* bound on how far a charge exceeds its bound
          PeerAmounts,      \* what other runs reserve
          PeerActuals,      \* what other runs settle
          MaxInvocations    \* bound on calls of run() on one runner

ASSUME RunAssumption ==
    /\ Me \in Runs
    /\ Recovering \subseteq Routers /\ Routers \subseteq Strategies
    /\ IsFiniteSet(Strategies)
    /\ NumCases \in Nat \ {0}
    /\ MaxAttempts \in Nat \ {0}
    /\ {MaxAdjudications, AggregateCap, Overrun, MaxInvocations} \subseteq Nat
    /\ PeerAmounts \subseteq Amounts /\ PeerActuals \subseteq Actuals
    /\ Bound \in [{"classification", "generation", "judge", "adjudication"} -> Nat]
    /\ Retries \in [{"judge", "adjudication"} -> Nat]

VARIABLES pc,           \* where run() is
          invocation,   \* how often run() was called on this runner
          work,         \* the loops of run(): what is left of the case
          calls,        \* the runner's _call_records and _started_unsettled
          spent,        \* the runner's _spent
          halted,       \* the runner's _budget_stopped
          stopped,      \* run()'s local flag
          guard,        \* LiveCalibrationGuard
          record,       \* run.json and its checksum, per invocation
          paid,         \* what the provider was paid for the run (history)
          lost,         \* an action_completed event was not stored (history)
          overran       \* a charge exceeded its bound (history)

ledgerVars == <<rows, torn>>
loopVars == <<pc, work, stopped>>
countVars == <<calls, spent, halted>>
historyVars == <<paid, lost, overran>>
vars == <<ledgerVars, loopVars, countVars, historyVars, invocation, guard, record>>

Purposes == {"classification", "generation", "judge", "adjudication"}
Ended == {"idle", "done", "raised", "crashed"}
-----------------------------------------------------------------------------
(* plan_budget: the bound that the whole run reserves.                     *)

Candidates == NumCases * Cardinality(Strategies)

\* Mutant of EvaluationBound: the retries are planned and the first try is not.
EvaluationBoundOfRetries ==
    Candidates * Retries["judge"] * Bound["judge"]
    + Min({MaxAdjudications, Candidates}) * Retries["adjudication"] * Bound["adjudication"]

EvaluationBound ==
    Candidates * (Retries["judge"] + 1) * Bound["judge"]
    + Min({MaxAdjudications, Candidates}) * (Retries["adjudication"] + 1)
      * Bound["adjudication"]

GenerationBound ==
    NumCases * ( Cardinality(Recovering) * MaxAttempts * Bound["generation"]
               + Cardinality(Strategies \ Recovering) * Bound["generation"]
               + Cardinality(Routers) * Bound["classification"] )

PlanBound == GenerationBound + EvaluationBound

Admissible == PlanBound <= AggregateCap

\* The allocation knows the bound the run reserves and the costs it settles.
ASSUME PlanAssumption ==
    /\ PlanBound \in Amounts
    /\ 0..(PlanBound + Overrun) \subseteq Actuals
-----------------------------------------------------------------------------
(* State.                                                                  *)

NoWork == [case |-> 0, todo |-> {}, grading |-> {}, strategy |-> "", purpose |-> "",
           tries |-> 0, adjudicate |-> FALSE, adjudications |-> 0]

NoCalls == [known |-> 0, unknown |-> FALSE, unsettled |-> FALSE]

NewGuard == [once |-> FALSE, bound |-> FALSE, spent |-> 0, stopped |-> FALSE,
             finished |-> FALSE]

NoRecord == [file |-> "none", status |-> "started"]

Init ==
    /\ LedgerInit
    /\ pc = "idle"
    /\ invocation = 0
    /\ work = NoWork
    /\ calls = NoCalls
    /\ spent = 0
    /\ halted = FALSE
    /\ stopped = FALSE
    /\ guard = NewGuard
    /\ record = [i \in 1..MaxInvocations |-> NoRecord]
    /\ paid = 0
    /\ lost = FALSE
    /\ overran = FALSE

(* Answers that depend on data outside the protocol.                       *)

\* _validate_current_release: the release is reloaded and must be the pinned
\* one, with fresh evidence and the credential it names.
ValidateCurrentRelease == BOOLEAN

\* _case_blocker: the case fits the token envelopes of every route it may take.
CaseBlocker == BOOLEAN

\* _wire_bytes: the serialized request is within its input bound or not.
FitsInputBound == BOOLEAN

\* run() checks the plan, opens the store and forgets the calls of an
\* earlier invocation.  The first event may fail to be stored.
Start(appended) ==
    /\ pc \in Ended \ {"crashed"}
    /\ invocation < MaxInvocations
    /\ invocation' = invocation + 1
    /\ IF appended
       THEN /\ pc' = "starting"
            /\ work' = NoWork
            /\ calls' = NoCalls
            /\ spent' = 0
            /\ halted' = FALSE
            /\ stopped' = FALSE
       ELSE pc' = "raised" /\ UNCHANGED <<work, calls, spent, halted, stopped>>
    /\ UNCHANGED <<ledgerVars, historyVars, guard, record>>

\* require_ready: one authorization per guard; the release, the plan and the
\* commit must be valid, and the allocation must take the run's bound.
Authorizes(valid) ==
    /\ Admissible
    /\ ~guard.once
    /\ valid
    /\ CanReserve(Me, PlanBound)

AuthorizationRefused(valid) ==
    /\ pc = "starting"
    /\ ~Authorizes(valid)
    /\ guard' = [guard EXCEPT !.once = @ \/ Admissible]
    /\ stopped' = TRUE
    /\ pc' = "settling"
    /\ UNCHANGED <<ledgerVars, countVars, historyVars, invocation, work, record>>

\* Only a reservation that returned binds the guard to the run.
RequireReady(fate) ==
    /\ pc = "starting"
    /\ Authorizes(TRUE)
    /\ Reserve(Me, PlanBound, fate)
    /\ guard' = [guard EXCEPT !.once = TRUE, !.bound = (fate = "written")]
    /\ stopped' = (fate # "written")
    /\ pc' = IF fate = "written" THEN "working" ELSE "settling"
    /\ UNCHANGED <<countVars, historyVars, invocation, work, record>>
-----------------------------------------------------------------------------
(* The loops over cases, strategies and candidates.                        *)

\* run() looks at both flags before and after every strategy and grade.
Halted == halted \/ guard.stopped

StopWork ==
    /\ stopped' = TRUE
    /\ pc' = "settling"
    /\ work' = NoWork

\* A storage error leaves run(), past the settlement and the record.
Raise ==
    /\ pc' = "raised"
    /\ work' = NoWork
    /\ UNCHANGED stopped

Unchanged ==
    UNCHANGED <<ledgerVars, countVars, historyVars, invocation, guard, record>>

\* A blocked case is recorded as invalid for every strategy, in events that
\* may fail to be stored.
NextCase(blocked, appended) ==
    /\ pc = "working"
    /\ work.todo = {} /\ work.grading = {}
    /\ work.case < NumCases
    /\ IF blocked /\ ~appended THEN Raise
       ELSE /\ work' = [work EXCEPT !.case = @ + 1, !.todo = IF blocked THEN {} ELSE Strategies]
            /\ UNCHANGED <<pc, stopped>>
    /\ Unchanged

EndCases ==
    /\ pc = "working"
    /\ work.todo = {} /\ work.grading = {}
    /\ work.case = NumCases
    /\ pc' = "settling"
    /\ work' = NoWork
    /\ UNCHANGED stopped
    /\ Unchanged

\* The end of _execute_strategy and the strategy_completed event.  A strategy
\* with an output is graded later; every other one has its grade already.
EndStrategy(s, output, blocked) ==
    \/ Raise
    \/ (blocked \/ Halted') /\ StopWork
    \/ /\ ~blocked /\ ~Halted'
       /\ work' = [work EXCEPT !.todo = @ \ {s},
                               !.grading = IF output THEN @ \cup {s} ELSE @,
                               !.strategy = "", !.purpose = "", !.tries = 0]
       /\ pc' = "working"
       /\ UNCHANGED stopped

\* The call about to be made, the first one of its purpose.
Ask(s, purpose) ==
    /\ work' = [work EXCEPT !.strategy = s, !.purpose = purpose, !.tries = 1]
    /\ pc' = "calling"
    /\ UNCHANGED stopped

\* Strategies run in a random order; one may be invalid for the case.
NextStrategy(s) ==
    /\ pc = "working"
    /\ s \in work.todo
    /\ Unchanged
    /\ IF Halted THEN StopWork
       ELSE \/ Ask(s, IF s \in Routers THEN "classification" ELSE "generation")
            \/ EndStrategy(s, FALSE, FALSE)

\* The end of _grade: the count of adjudications and the flags again.
EndGrade ==
    \/ Halted' /\ StopWork
    \/ /\ ~Halted'
       /\ work' = [work EXCEPT !.grading = @ \ {work.strategy}, !.strategy = "",
                               !.purpose = "", !.tries = 0, !.adjudicate = FALSE,
                               !.adjudications = IF work.adjudicate THEN @ + 1 ELSE @]
       /\ pc' = "working"
       /\ UNCHANGED stopped

\* _grade of one candidate, in a random order.  A case without a rubric makes
\* no call; an adjudication is sampled while some are left.
NextGrade(s, rubric, adjudicate) ==
    /\ pc = "working"
    /\ work.todo = {}
    /\ s \in work.grading
    /\ adjudicate => work.adjudications < MaxAdjudications
    /\ IF Halted THEN StopWork
       ELSE IF rubric
       THEN /\ work' = [work EXCEPT !.strategy = s, !.purpose = "judge", !.tries = 1,
                                    !.adjudicate = adjudicate]
            /\ pc' = "calling"
            /\ UNCHANGED stopped
       ELSE /\ work' = [work EXCEPT !.grading = @ \ {s},
                                    !.adjudications = IF adjudicate THEN @ + 1 ELSE @]
            /\ pc' = "working"
            /\ UNCHANGED stopped
    /\ Unchanged
-----------------------------------------------------------------------------
(* What the three callers of the provider make of a call's result:         *)
(* "result" and "failure" were returned; "deadline", "blocked", "storage"  *)
(* and "error" were raised.                                                *)

Again ==
    /\ work' = [work EXCEPT !.tries = @ + 1]
    /\ pc' = "calling"
    /\ UNCHANGED stopped

\* Only a storage error leaves run(); the router may reject what it is given.
AfterClassification(result) ==
    \/ result = "storage" /\ Raise
    \/ result = "result" /\ Ask(work.strategy, "generation")
    \/ result # "storage" /\ EndStrategy(work.strategy, FALSE, result = "blocked")

\* choose_recovery allows another attempt up to max_generation_attempts.
Recovers == work.strategy \in Recovering /\ work.tries < MaxAttempts

\* A deadline ends the attempts; every other exception, storage errors among
\* them, is taken for an unknown outcome of the strategy.
AfterGeneration(result) ==
    \/ result = "result" /\ EndStrategy(work.strategy, TRUE, FALSE)
    \/ result \in {"result", "failure"} /\ Recovers /\ Again
    \/ EndStrategy(work.strategy, FALSE, FALSE)

\* The evaluator turns every exception into an error score; that and a score
\* off the rubric's scale are retried.
AfterEvaluation(result) ==
    \/ work.tries <= Retries[work.purpose] /\ Again
    \/ /\ result = "result" \/ work.tries > Retries[work.purpose]
       /\ IF work.purpose = "judge" /\ work.adjudicate
          THEN Ask(work.strategy, "adjudication")
          ELSE EndGrade

Continue(result) ==
    \/ work.purpose = "classification" /\ AfterClassification(result)
    \/ work.purpose = "generation" /\ AfterGeneration(result)
    \/ work.purpose \in {"judge", "adjudication"} /\ AfterEvaluation(result)
-----------------------------------------------------------------------------
(* _provider_action.                                                       *)

\* The strategy's deadline has passed: nothing is asked.
DeadlinePassed ==
    /\ pc = "calling"
    /\ Unchanged
    /\ Continue("deadline")

WithinCap == spent + Bound[work.purpose] <= AggregateCap

\* The runner's own admission: the input bound and the aggregate cap.
RunnerRefuses(fits) ==
    /\ pc = "calling"
    /\ ~(fits /\ WithinCap)
    /\ halted' = TRUE
    /\ UNCHANGED <<ledgerVars, historyVars, invocation, calls, spent, guard, record>>
    /\ Continue("blocked")

\* before_dispatch: the run's bound, the release as it is now, the allocation.
BeforeDispatch(valid) ==
    /\ guard.bound
    /\ ~guard.stopped
    /\ guard.spent + Bound[work.purpose] <= PlanBound
    /\ valid
    /\ AssertReady(Me)

GuardRefuses(valid) ==
    /\ pc = "calling"
    /\ WithinCap
    /\ ~BeforeDispatch(valid)
    /\ guard' = [guard EXCEPT !.stopped = TRUE]
    /\ UNCHANGED <<ledgerVars, countVars, historyVars, invocation, record>>
    /\ Continue("blocked")

\* The action_started event is not stored: the call is not made.
IntentLost ==
    /\ pc = "calling"
    /\ WithinCap
    /\ BeforeDispatch(TRUE)
    /\ Unchanged
    /\ Continue("storage")

Dispatch ==
    /\ pc = "calling"
    /\ WithinCap
    /\ BeforeDispatch(TRUE)
    /\ pc' = "waiting"
    /\ UNCHANGED <<work, stopped>>
    /\ Unchanged

\* Mutant of AfterDispatch: an unknown cost does not stop the guard.
AfterDispatchKnown(known, charge) ==
    LET total == guard.spent + charge
    IN  IF ~known THEN guard
        ELSE [guard EXCEPT !.spent = total,
                           !.stopped = charge > Bound[work.purpose] \/ total > PlanBound]

\* after_dispatch: an unknown cost, a cost above its bound and a total above
\* the run's bound stop the guard.
AfterDispatch(known, charge) ==
    LET total == guard.spent + charge
    IN  IF ~known THEN [guard EXCEPT !.stopped = TRUE]
        ELSE [guard EXCEPT !.spent = total,
                           !.stopped = charge > Bound[work.purpose] \/ total > PlanBound]

\* The provider charges for the call in flight.
PaidCall(charge) ==
    /\ pc = "waiting"
    /\ paid' = paid + charge
    /\ overran' = (overran \/ charge > Bound[work.purpose])

\* An answer with a known cost, whose action_completed event is stored: the
\* call is settled, and the guard decides before the runner adds to its total
\* (whose own comparison, made after the guard's, is never the first to fail).
ReturnKnown(kind, charge, late) ==
    /\ PaidCall(charge)
    /\ calls' = [calls EXCEPT !.known = @ + charge]
    /\ guard' = AfterDispatch(TRUE, charge)
    /\ spent' = IF guard'.stopped THEN spent ELSE spent + charge
    /\ UNCHANGED <<ledgerVars, invocation, halted, record, lost>>
    /\ Continue(IF guard'.stopped THEN "blocked" ELSE IF late THEN "deadline" ELSE kind)

\* The provider raised, or its answer does not tell its cost or its binding.
ReturnUnknown(raised, charge) ==
    /\ PaidCall(charge)
    /\ calls' = [calls EXCEPT !.unknown = TRUE, !.unsettled = TRUE]
    /\ guard' = AfterDispatch(FALSE, charge)
    /\ UNCHANGED <<ledgerVars, invocation, spent, halted, record, lost>>
    /\ Continue(IF raised THEN "error" ELSE "blocked")

\* The action_completed event is not stored: the storage error leaves
\* _provider_action before the guard and the runner count the cost.
ReturnLost(known, charge) ==
    /\ PaidCall(charge)
    /\ calls' = [known     |-> IF known THEN calls.known + charge ELSE calls.known,
                 unknown   |-> calls.unknown \/ ~known,
                 unsettled |-> TRUE]
    /\ lost' = TRUE
    /\ UNCHANGED <<ledgerVars, invocation, spent, halted, guard, record>>
    /\ Continue("storage")
-----------------------------------------------------------------------------
(* The end of run(): settlement, then the record and its checksum.         *)

\* Mutant of TotalIsKnown: what was counted is taken for what was paid.
TotalIsAlwaysKnown == TRUE

\* known_total is None while any call is unsettled or of unknown cost.
TotalIsKnown == ~calls.unsettled /\ ~calls.unknown

\* finish_run does nothing without a reservation, and nothing twice.
FinishesRun == guard.bound /\ ~guard.finished

NothingToSettle ==
    /\ pc = "settling"
    /\ ~FinishesRun
    /\ pc' = "finishing"
    /\ UNCHANGED <<work, stopped>>
    /\ Unchanged

\* Mutant of SettlementFails: a failed append is not reported.
SettlementFailsAbove(fate) == TotalIsKnown /\ calls.known > rows[Me].reserved

\* settle() raises for a torn file, for a failed append and, after the append,
\* for a cost above the run's bound.
SettlementFails(fate) ==
    \/ ~CanSettle(Me)
    \/ fate # "written"
    \/ TotalIsKnown /\ calls.known > rows[Me].reserved

FinishRun(fate) ==
    /\ pc = "settling"
    /\ FinishesRun
    /\ IF CanSettle(Me) THEN Settle(Me, TotalIsKnown, calls.known, fate)
                        ELSE UNCHANGED ledgerVars
    /\ stopped' = (stopped \/ SettlementFails(fate))
    /\ guard' = [guard EXCEPT !.finished = TRUE, !.stopped = @ \/ SettlementFails(fate)]
    /\ pc' = "finishing"
    /\ UNCHANGED <<countVars, historyVars, invocation, work, record>>

\* store.finish: run.json is created and written; the checksum comes later.
\* A stopped run stores a run_stopped event first.
WriteRecord(complete) ==
    /\ pc = "finishing"
    /\ record' = [record EXCEPT ![invocation] =
                    [file   |-> IF complete THEN "unchecked" ELSE "torn",
                     status |-> IF stopped THEN "stopped" ELSE "completed"]]
    /\ pc' = IF complete THEN "checking" ELSE "raised"
    /\ UNCHANGED <<ledgerVars, countVars, historyVars, invocation, work, stopped, guard>>

WriteChecksum ==
    /\ pc = "checking"
    /\ record' = [record EXCEPT ![invocation].file = "checked"]
    /\ pc' = "done"
    /\ UNCHANGED <<ledgerVars, countVars, historyVars, invocation, work, stopped, guard>>

\* load(): an unfinished run loads as started; a record that is torn or that
\* has no checksum is refused.
Load(i) ==
    CASE record[i].file = "none"    -> "started"
      [] record[i].file = "checked" -> record[i].status
      [] OTHER                      -> "refused"

\* The store fails before it changed anything.
FinishFails ==
    /\ pc \in {"finishing", "checking"}
    /\ pc' = "raised"
    /\ UNCHANGED <<work, stopped>>
    /\ Unchanged

\* The process dies; the files remain.
Crash ==
    /\ pc \notin Ended
    /\ pc' = "crashed"
    /\ work' = NoWork
    /\ calls' = NoCalls
    /\ spent' = 0
    /\ halted' = FALSE
    /\ stopped' = FALSE
    /\ guard' = NewGuard
    /\ UNCHANGED <<ledgerVars, historyVars, invocation, record>>

\* Another run on the same allocation.
Peer(r, fate) ==
    /\ r # Me
    /\ \/ \E amount \in PeerAmounts : Reserve(r, amount, fate)
       \/ \E known \in BOOLEAN, actual \in PeerActuals : Settle(r, known, actual, fate)
    /\ UNCHANGED <<loopVars, countVars, historyVars, invocation, guard, record>>

\* What the call in flight is charged: its bound or more.  A smaller charge
\* leaves more room and is refused, settled and lost in the same places.
Charges == IF pc = "waiting"
           THEN {Bound[work.purpose], Bound[work.purpose] + Overrun} ELSE {}

Next ==
    \/ \E appended \in BOOLEAN : Start(appended)
    \/ \E valid \in ValidateCurrentRelease : AuthorizationRefused(valid) \/ GuardRefuses(valid)
    \/ \E fate \in Fates : RequireReady(fate) \/ FinishRun(fate)
    \/ \E blocked \in CaseBlocker, appended \in BOOLEAN : NextCase(blocked, appended)
    \/ \E s \in Strategies :
           NextStrategy(s) \/ \E rubric, adjudicate \in BOOLEAN : NextGrade(s, rubric, adjudicate)
    \/ EndCases
    \/ DeadlinePassed
    \/ \E fits \in FitsInputBound : RunnerRefuses(fits)
    \/ IntentLost \/ Dispatch
    \/ \E charge \in Charges :
           \/ \E kind \in {"result", "failure"}, late \in BOOLEAN :
                  ReturnKnown(kind, charge, late)
           \/ \E raised \in BOOLEAN : ReturnUnknown(raised, charge)
           \/ \E known \in BOOLEAN : ReturnLost(known, charge)
    \/ NothingToSettle
    \/ \E complete \in BOOLEAN : WriteRecord(complete)
    \/ WriteChecksum \/ FinishFails \/ Crash
    \/ \E r \in Runs, fate \in Fates : Peer(r, fate)

Spec == Init /\ [][Next]_vars
-----------------------------------------------------------------------------
(* Properties.                                                             *)

\* What the allocation says a run cost is what the provider was paid for it:
\* costs that were not reported, calls that raised and events that were lost
\* never turn into a settled amount that is too small.
SettledIsTrue == rows[Me].state = "settled" => rows[Me].actual = paid

\* The bound that plan_budget computes covers every call the loops of the
\* runner, its recovery and its graders can make: until a charge exceeds its
\* own bound, no call is refused for want of budget.
PlanCovers ==
    pc = "calling" /\ ~overran =>
        /\ guard.spent + Bound[work.purpose] <= PlanBound
        /\ spent + Bound[work.purpose] <= AggregateCap

\* A record that loads as completed has its cost settled in the allocation,
\* within the run's bound, unless the journal lost the end of a call; a crash
\* between the record, its checksum and the settlement never shows otherwise.
CompletedIsSettled ==
    \A i \in DOMAIN record :
        Load(i) = "completed" /\ ~lost =>
            /\ rows[Me].state = "settled"
            /\ rows[Me].actual <= rows[Me].reserved

\* Where the journal stores the end of every call, none is dispatched once an
\* earlier one is unsettled: neither retries of an evaluator, nor recovery, nor
\* the next strategy, case or grade go on.
UnknownStopsUnlessLost ==
    [][calls.unsettled /\ ~lost => ~(pc = "calling" /\ pc' = "waiting")]_vars
=============================================================================
