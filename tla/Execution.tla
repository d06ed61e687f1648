------------------------------ MODULE Execution ------------------------------
(***************************************************************************)
(* The bounded execution of one task: _Execution in orchestrator.py with   *)
(* the verification mixin, the budget authority it reserves from and the   *)
(* repository it saves to.                                                 *)
(*                                                                         *)
(* Every paid operation follows one protocol: admit and reserve, save the  *)
(* started intent, check again, call the outside world, save what was      *)
(* observed, settle, save the final record.  The process may crash before  *)
(* any step; a save may be refused, or committed without acknowledgement,  *)
(* and is then journaled; a reservation or settlement may be refused, or   *)
(* committed without acknowledgement.                                      *)
(*                                                                         *)
(* A checkpoint consults the environment, dependency readiness, the        *)
(* cancellation flag and the clock.  What these answer is a free choice at *)
(* every checkpoint; what the execution itself remembers is not.           *)
(***************************************************************************)
EXTENDS Integers, Sequences, FiniteSets, Functions

CONSTANTS
    Callers,            \* submissions with one idempotency key
    Live,               \* live authorization: paid classification, no unknown cost
    Evaluators,         \* number of semantic evaluator bindings of the plan
    EvaluatorRetries,   \* EvaluatorBinding.max_retries
    Domain,             \* the plan requires V3 domain validation
    ToolPlan,           \* the class of each tool call, in order
    Estimate,           \* reserved upper bound of each kind of operation
    Costs,              \* costs an operation may report
    Ceiling,            \* limits.task_cost_ceiling_usd
    Authority,          \* what the budget authority holds for the task
    MaxGenerations,     \* limits.max_total_generation_attempts
    MaxEscalations,     \* limits.max_quality_escalations
    MaxRetries,         \* limits.max_infrastructure_retries
    MaxToolRecoveries,  \* limits.max_tool_recoveries
    MaxOps              \* bound on the operations of one task

Unknown == -1           \* a cost that was not reported

Kinds == {"classification", "generation", "validation", "evaluation", "domain",
          "tool", "alternate_tool"}

ToolKinds == {"tool", "alternate_tool"}

\* Read-only, or side-effecting: without idempotency key or reconciliation
\* evidence, with a key only, with reconciliation evidence.
ToolClasses == {"read_only", "unkeyed", "keyed", "reconciled"}

Tools == Len(ToolPlan)

ASSUME ExecutionAssumption ==
    /\ Live \in BOOLEAN
    /\ Evaluators \in Nat /\ EvaluatorRetries \in Nat
    /\ Domain \in BOOLEAN
    /\ ToolPlan \in Seq(ToolClasses)
    /\ Live => Evaluators = 0 /\ ~Domain /\ Tools = 0
    /\ Estimate \in [Kinds -> Nat]
    /\ Costs \subseteq Nat
    /\ Ceiling \in Nat /\ Authority \in Nat
    /\ MaxGenerations \in Nat /\ MaxEscalations \in Nat
    /\ MaxRetries \in Nat /\ MaxToolRecoveries \in Nat
    /\ MaxOps \in Nat

VARIABLES
    caller,     \* what became of each submission
    run,        \* the owning execution: control point and flags, in memory
    task,       \* the owning execution's TaskResult, in memory
    row,        \* the TaskResult in the database
    journal,    \* the TaskResult in the recovery journal
    ledger,     \* the budget authority's reservation of each operation
    calls       \* how often the outside world saw each operation

vars == <<caller, run, task, row, journal, ledger, calls>>

Ids == 1..MaxOps

Terminal == {"SUCCEEDED", "FAILED", "BLOCKED", "CANCELLED"}

Statuses == {"CREATED", "CLASSIFIED", "ROUTED", "RUNNING", "VALIDATING", "RECOVERING"}
              \cup Terminal

\* Why an operation or a checkpoint failed, as far as control depends on it:
\* "terminal" stands for every type choose_recovery only stops on.
Failures == {"none", "environment", "cancelled", "terminal", "infrastructure",
             "quality", "evaluator", "tool"}

OpStatuses == {"absent", "started", "observed", "succeeded", "failed", "cancelled"}

\* One record of attempts, evaluator_attempts or tool_events.  V0 and domain
\* checks have no started record; their entry stands for the reservation that
\* reserved_cost_usd counts and, once charged, for the cost in known_cost_usd.
\* The step of a tool event is the position of its tool call in the plan.
Op == [kind : Kinds, step : Nat, status : OpStatuses, actual : Nat \cup {Unknown}]

NoOp == [kind |-> "generation", step |-> 0, status |-> "absent", actual |-> Unknown]

\* A TaskResult; complete says that total_cost_usd is not None.
TaskResult == [status : Statuses \cup {"absent"}, revision : Nat,
               generations : Nat, escalations : Nat, retries : Nat, recoveries : Nat,
               known : Nat, reserved : Int, complete : BOOLEAN, ops : [Ids -> Op]]

NoTask == [status |-> "absent", revision |-> 0,
           generations |-> 0, escalations |-> 0, retries |-> 0, recoveries |-> 0,
           known |-> 0, reserved |-> 0, complete |-> TRUE, ops |-> [i \in Ids |-> NoOp]]

NewTask == [NoTask EXCEPT !.status = "CREATED"]

Reservation == [state : {"free", "held", "settled"}, amount : Nat, actual : Nat]

NoReservation == [state |-> "free", amount |-> 0, actual |-> 0]

Points == {"idle", "preflight", "classify", "route", "loop", "admit", "intent", "recheck",
           "evidence", "settle", "validating", "finish", "finish_attempt",
           "retry_evaluation", "recover", "reroute", "recover_tool", "replay_tool",
           "complete", "stop",
           "returned", "raised", "crashed", "rejected"}

Ended == {"returned", "raised", "crashed", "rejected"}

Run == [pc : Points, kind : Kinds, id : Nat, attempt : Nat,
        actual : Nat \cup {Unknown}, failure : Failures, dispatched : BOOLEAN,
        costViolation : BOOLEAN, budgetUnavailable : BOOLEAN,
        evaluator : Nat, retry : Nat, tool : Nat, replay : BOOLEAN,
        verdict : Terminal]

NoRun == [pc |-> "idle", kind |-> "generation", id |-> 0, attempt |-> 0,
          actual |-> Unknown, failure |-> "none", dispatched |-> FALSE,
          costViolation |-> FALSE, budgetUnavailable |-> FALSE,
          evaluator |-> 0, retry |-> 0, tool |-> 0, replay |-> FALSE,
          verdict |-> "FAILED"]

EndedRun(pc) == [NoRun EXCEPT !.pc = pc]

\* stop(): the execution will end with a terminal status and a failure.
Halt(r, status) == [r EXCEPT !.pc = "stop", !.verdict = status]

StatusFor(failure) == CASE failure = "cancelled" -> "CANCELLED"
                        [] failure = "environment" -> "BLOCKED"
                        [] OTHER -> "FAILED"

\* Every stored, journaled and running record is well formed: in particular no
\* unreported cost ever enters an account as a number.
TypeOK ==
    /\ caller \in [Callers -> {"new", "owner", "answered", "lost"}]
    /\ run \in Run
    /\ task \in TaskResult
    /\ row \in TaskResult
    /\ journal \in TaskResult
    /\ ledger \in [Ids -> Reservation]
    /\ calls \in [Ids -> Nat]
-----------------------------------------------------------------------------
(* The repository.                                                         *)

\* _persist_children: a started record gains evidence without changing what
\* it already says, and a finished one never changes.
RecordProgresses(old, new) ==
    /\ new.status # "absent"
    /\ new.kind = old.kind /\ new.step = old.step
    /\ old.actual # Unknown => new.actual = old.actual
    /\ old.status \in {"succeeded", "failed", "cancelled"} => new = old

\* save() accepts t after prev: the revision follows, and
\* _verify_task_progression and the progression of each record hold.
Accepts(prev, t) ==
    /\ prev.status \notin Terminal \cup {"absent"}
    /\ t.revision = prev.revision + 1
    /\ t.known >= prev.known
    /\ t.complete => prev.complete
    /\ t.generations >= prev.generations
    /\ t.escalations >= prev.escalations
    /\ t.retries >= prev.retries
    /\ t.recoveries >= prev.recoveries
    /\ \A i \in Ids : prev.ops[i].status # "absent" =>
                          RecordProgresses(prev.ops[i], t.ops[i])

\* _Execution.save: number the revision and commit it; when the database is
\* unavailable, whether or not it committed, journal the revision and raise.
\* A revision the repository does not accept raises ConcurrentUpdate.
Save(t, r) ==
    LET n == [t EXCEPT !.revision = @ + 1]
    IN  \/ /\ Accepts(row, n)
           /\ row' = n /\ task' = n /\ run' = r
           /\ UNCHANGED journal
        \/ /\ Accepts(row, n)
           /\ row' \in {row, n}
           /\ journal' = n /\ task' = NoTask /\ run' = EndedRun("raised")
        \/ /\ ~Accepts(row, n)
           /\ task' = NoTask /\ run' = EndedRun("rejected")
           /\ UNCHANGED <<row, journal>>

\* reconcile_pending replays the journaled revision, or finds it stored.
Reconcile ==
    /\ journal.status # "absent"
    /\ row = journal \/ Accepts(row, journal)
    /\ row' = journal
    /\ journal' = NoTask
    /\ UNCHANGED <<caller, run, task, ledger, calls>>

\* Mutant of Create: the claim does not look for a duplicate.
CreateAlways(c) ==
    /\ caller[c] = "new"
    /\ row' = NewTask
    /\ task' = NewTask
    /\ run' = [NoRun EXCEPT !.pc = "preflight"]
    /\ caller' = [caller EXCEPT ![c] = "owner"]
    /\ UNCHANGED <<journal, ledger, calls>>

\* create(): the first submission owns the task, any later one is answered
\* with the stored record.
Create(c) ==
    /\ caller[c] = "new"
    /\ IF row.status = "absent"
       THEN /\ row' = NewTask
            /\ task' = NewTask
            /\ run' = [NoRun EXCEPT !.pc = "preflight"]
            /\ caller' = [caller EXCEPT ![c] = "owner"]
       ELSE /\ caller' = [caller EXCEPT ![c] = "answered"]
            /\ UNCHANGED <<row, task, run>>
    /\ UNCHANGED <<journal, ledger, calls>>

\* create() fails, with or without having claimed the task.
CreateUnavailable(c) ==
    /\ caller[c] = "new"
    /\ row' \in IF row.status = "absent" THEN {row, NewTask} ELSE {row}
    /\ caller' = [caller EXCEPT ![c] = "lost"]
    /\ UNCHANGED <<run, task, journal, ledger, calls>>
-----------------------------------------------------------------------------
(* The budget, as the execution sees it.                                   *)

Debit(reservation) ==
    IF reservation.state = "settled" THEN reservation.actual ELSE reservation.amount

LedgerDebit == SumFunction([i \in Ids |-> Debit(ledger[i])])

\* Mutant of Remaining: what the task itself has reserved is not subtracted.
RemainingUnreserved ==
    LET least(a, b) == IF a < b THEN a ELSE b
        funds == least(Authority - LedgerDebit, Ceiling - task.known)
    IN  IF funds < 0 THEN 0 ELSE funds

Remaining ==
    LET least(a, b) == IF a < b THEN a ELSE b
        funds == least(Authority - LedgerDebit, Ceiling - task.known - task.reserved)
    IN  IF funds < 0 THEN 0 ELSE funds

\* All the work a generation commits the task to must fit before it starts.
PlanCost == Estimate["generation"] + Estimate["validation"]
              + Evaluators * Estimate["evaluation"]
              + (IF Domain THEN Estimate["domain"] ELSE 0)
              + Tools * Estimate["tool"]

AdmissionCost(kind) == IF kind = "generation" THEN PlanCost ELSE Estimate[kind]

\* Mutant of SafeToolCall: a key is taken to protect the alternate tool too.
SafeToolCallAnyTool(r) == ~(r.replay /\ ToolPlan[r.tool] = "unkeyed")

\* _check_tool: a side effect is repeated only with reconciliation evidence,
\* or on the same tool under its idempotency key.
SafeToolCall(r) ==
    LET class == ToolPlan[r.tool]
    IN  (r.replay /\ class \in {"unkeyed", "keyed"}) => (class = "keyed" /\ r.kind = "tool")

\* check_admission, and the bounds verify_semantic checks itself.
Admissible ==
    /\ AdmissionCost(run.kind) <= Remaining
    /\ run.kind = "generation" => task.generations < MaxGenerations
    /\ run.kind \in ToolKinds => SafeToolCall(run)

\* In live execution an attempt that ended without a cost stops the task.
UnknownLiveCost ==
    /\ Live
    /\ \E i \in Ids : /\ task.ops[i].kind \in {"classification", "generation"}
                      /\ task.ops[i].status \in {"succeeded", "failed", "cancelled"}
                      /\ task.ops[i].actual = Unknown

\* Mutant of CheckpointOutcomes: an overrun does not stop the task.
CheckpointIgnoresOverrun ==
    {"environment", "infrastructure", "terminal"}
      \cup IF run.budgetUnavailable \/ UnknownLiveCost THEN {} ELSE {"none", "cancelled"}

\* checkpoint(): what the execution remembers excludes passing; otherwise the
\* environment, readiness, cancellation and the deadline decide.
CheckpointOutcomes ==
    {"environment", "infrastructure", "terminal"}
      \cup IF run.budgetUnavailable \/ run.costViolation \/ UnknownLiveCost
           THEN {} ELSE {"none", "cancelled"}

\* validation_checkpoint() reports a changed environment as a failure of the
\* attempt; elsewhere the change is raised and blocks the task at once.
ChecksWithinAttempt == {"validation", "evaluation", "domain"}
-----------------------------------------------------------------------------
(* From creation to the first route.                                       *)

AdmitAt(r, kind) == [r EXCEPT !.pc = "admit", !.kind = kind, !.failure = "none",
                              !.actual = Unknown, !.dispatched = FALSE]

Quiet == UNCHANGED <<caller, ledger, calls>>

\* run(): pinning, live and synthetic preconditions, limits, authorization,
\* the first checkpoint.
Preflight ==
    /\ run.pc = "preflight"
    /\ \/ run' = Halt(run, "BLOCKED")
       \/ \E f \in CheckpointOutcomes \ {"none"} : run' = Halt(run, StatusFor(f))
       \/ Live /\ run' = AdmitAt(run, "classification")
       \/ run' = [run EXCEPT !.pc = "classify"]
    /\ UNCHANGED <<task, row, journal>> /\ Quiet

\* The classification is supplied, mocked or already paid for.
Classify ==
    /\ run.pc = "classify"
    /\ \/ \E status \in {"FAILED", "BLOCKED"} : run' = Halt(run, status)
          /\ UNCHANGED <<task, row, journal>>
       \/ Save([task EXCEPT !.status = "CLASSIFIED"], [run EXCEPT !.pc = "route"])
    /\ Quiet

\* A failed attempt is handed to the recovery policy, unless it ends the task
\* by itself.
ConsultsRecovery ==
    /\ run.failure \notin {"evaluator", "environment", "cancelled"}
    /\ ~run.budgetUnavailable

\* A raised environment change blocks the task wherever environment() is
\* called outside a checkpoint: for an evaluator quote, for a recovery, and
\* for the cost of a classification that was called and not yet recorded.
EnvironmentChanged ==
    /\ \/ run.pc \in {"route", "reroute", "recover_tool"}
       \/ run.pc = "recover" /\ ConsultsRecovery
       \/ run.pc = "admit" /\ run.kind = "evaluation"
       \/ run.pc = "evidence" /\ run.kind = "classification" /\ run.dispatched
    /\ run' = Halt(run, "BLOCKED")
    /\ UNCHANGED <<task, row, journal>> /\ Quiet

\* select(): the decision is recorded even when it is a rejection.
Route(rejected) ==
    /\ run.pc = "route"
    /\ Save([task EXCEPT !.status = "ROUTED"],
            IF rejected THEN Halt(run, "FAILED") ELSE [run EXCEPT !.pc = "loop"])
    /\ Quiet

\* The head of the attempt loop: checkpoint, readiness, generate.
Loop ==
    /\ run.pc = "loop"
    /\ \/ \E f \in CheckpointOutcomes \ {"none"} : run' = Halt(run, StatusFor(f))
       \/ run' = Halt(run, "BLOCKED")
       \/ "none" \in CheckpointOutcomes /\ run' = AdmitAt(run, "generation")
    /\ UNCHANGED <<task, row, journal>> /\ Quiet
-----------------------------------------------------------------------------
(* One paid operation, of any kind.                                        *)

\* What a refusal to admit the operation leads to.
Refused(r, f) ==
    CASE r.kind \in ChecksWithinAttempt /\ ~(r.kind = "validation" /\ f = "environment")
           -> [r EXCEPT !.pc = "finish_attempt", !.failure = f]
      [] r.kind = "generation" /\ ~r.budgetUnavailable -> Halt(r, "BLOCKED")
      [] r.kind = "classification" /\ f # "environment" -> Halt(r, "FAILED")
      [] OTHER -> Halt(r, StatusFor(f))

\* The checkpoint, the admission check, a dependency or the authority refuses.
\* The head of the loop has made the checkpoint of a generation.
Refuse(f) ==
    /\ run.pc = "admit"
    /\ \/ f \in CheckpointOutcomes \ {"none"} /\ run.kind # "generation"
       \/ f \in {"environment", "terminal"} /\ run.kind = "generation"
       \/ f = "evaluator" /\ run.kind = "evaluation"
    /\ run' = Refused(run, f)
    /\ UNCHANGED <<task, row, journal>> /\ Quiet

\* Operation identifiers are fresh; this is the next one.
Fresh(id) == /\ ledger[id].state = "free"
             /\ \A i \in Ids : i < id => ledger[i].state # "free"

Held(id) == [ledger EXCEPT ![id] = [state |-> "held", amount |-> Estimate[run.kind],
                                    actual |-> 0]]

CanReserve ==
    /\ run.pc = "admit"
    /\ "none" \in CheckpointOutcomes
    /\ Admissible
    /\ LedgerDebit + Estimate[run.kind] <= Authority

\* reserve() is granted and counted in reserved_cost_usd.
Reserve(id) ==
    /\ CanReserve
    /\ Fresh(id)
    /\ ledger' = Held(id)
    /\ task' = [task EXCEPT !.reserved = @ + Estimate[run.kind]]
    /\ run' = [run EXCEPT !.pc = "intent", !.id = id,
                          !.attempt = IF run.kind = "generation" THEN id ELSE @]
    /\ UNCHANGED <<caller, row, journal, calls>>

\* remaining() or reserve() raises; the reservation may have been committed.
ReserveUnavailable(id) ==
    /\ run.pc = "admit"
    /\ Fresh(id)
    /\ \/ UNCHANGED ledger
       \/ CanReserve /\ ledger' = Held(id)
    /\ run' = Refused([run EXCEPT !.budgetUnavailable = TRUE], "terminal")
    /\ UNCHANGED <<caller, task, row, journal, calls>>

WithOp(t, id, status, actual) ==
    [t EXCEPT !.ops[id] = [kind |-> run.kind, step |-> run.tool,
                           status |-> status, actual |-> actual]]

\* Mutant of Intent: the started record stays in memory until the next save.
IntentUnsaved ==
    /\ run.pc = "intent"
    /\ task' = [WithOp(task, run.id, "started", Unknown) EXCEPT !.status = "RUNNING"]
    /\ run' = [run EXCEPT !.pc = "recheck"]
    /\ UNCHANGED <<row, journal>> /\ Quiet

\* The started intent is saved before the outside world is called.
Intent ==
    /\ run.pc = "intent"
    /\ LET t == WithOp(task, run.id, "started", Unknown)
       IN  Save(IF run.kind = "generation"
                THEN [t EXCEPT !.status = "RUNNING", !.generations = @ + 1]
                ELSE t,
                [run EXCEPT !.pc = "recheck"])
    /\ Quiet

\* Kinds whose provider evidence is saved before settlement can fail.
Observed == {"classification", "generation", "evaluation"}

\* The checkpoint after the save, or the refreshed route, withdraws the call:
\* nothing was spent.
Withdraw(f) ==
    /\ run.pc = "recheck"
    /\ f \in (CheckpointOutcomes \ {"none"})
              \cup (IF run.kind = "evaluation" THEN {"evaluator"} ELSE {})
    /\ run' = IF f = "environment" /\ run.kind \notin ChecksWithinAttempt
              THEN Halt(run, "BLOCKED")
              ELSE [run EXCEPT !.pc = IF run.kind = "classification" THEN "evidence" ELSE "settle",
                               !.failure = IF run.kind = "classification" THEN "terminal" ELSE f,
                               !.actual = 0]
    /\ UNCHANGED <<task, row, journal>> /\ Quiet

\* The live authorization refuses the concrete request: no call, no cost.
LiveRefusal ==
    /\ run.pc = "recheck"
    /\ Live /\ run.kind = "generation"
    /\ run' = [run EXCEPT !.pc = "evidence", !.failure = "terminal", !.actual = 0]
    /\ UNCHANGED <<task, row, journal>> /\ Quiet

\* How a call of each kind may end.
CallOutcomes(kind) ==
    CASE kind = "classification" -> {"none", "terminal"}
      [] kind = "generation" -> {"none", "infrastructure", "terminal"}
      [] kind = "validation" -> {"none", "quality"} \cup (CheckpointOutcomes \ {"none"})
      [] kind = "evaluation" -> {"none", "quality", "terminal", "evaluator"}
      [] kind = "domain" -> {"none", "quality", "infrastructure", "terminal"}
      [] OTHER -> {"none", "tool"}

\* The call to the provider, the checks, the evaluator or the tool.  A V0
\* check that costs more than its bound fails the validation by itself.
Dispatch(f, actual) ==
    /\ run.pc = "recheck"
    /\ "none" \in CheckpointOutcomes
    /\ f \in CallOutcomes(run.kind)
    /\ (run.kind = "validation" /\ actual > Estimate["validation"]) => f = "terminal"
    /\ calls' = [calls EXCEPT ![run.id] = @ + 1]
    /\ run' = [run EXCEPT !.pc = IF run.kind \in Observed THEN "evidence" ELSE "settle",
                          !.failure = f, !.actual = actual, !.dispatched = TRUE]
    /\ UNCHANGED <<caller, task, row, journal, ledger>>

Evidence ==
    /\ run.pc = "evidence"
    /\ Save(WithOp(task, run.id, "observed", run.actual), [run EXCEPT !.pc = "settle"])
    /\ Quiet

\* Mutant of NextVerification: V3 domain validation is skipped.
NextVerificationWithoutDomain(r) ==
    IF r.evaluator < Evaluators THEN AdmitAt(r, "evaluation")
                                ELSE [r EXCEPT !.pc = "finish_attempt"]

NextVerification(r) ==
    CASE r.evaluator < Evaluators -> AdmitAt(r, "evaluation")
      [] r.evaluator >= Evaluators /\ Domain -> AdmitAt(r, "domain")
      [] OTHER -> [r EXCEPT !.pc = "finish_attempt"]

AfterSettle(r) ==
    CASE r.kind = "generation" /\ r.failure = "none" -> [r EXCEPT !.pc = "validating"]
      [] r.kind = "validation" /\ r.failure = "none" -> NextVerification(r)
      [] \/ r.kind \in {"generation", "validation"} /\ r.failure # "none"
         \/ r.kind = "domain" /\ ~r.dispatched -> [r EXCEPT !.pc = "finish_attempt"]
      [] OTHER -> [r EXCEPT !.pc = "finish"]

FinalStatus(r) == CASE ~r.dispatched /\ r.kind = "evaluation" -> "cancelled"
                    [] r.failure = "none" -> "succeeded"
                    [] OTHER -> "failed"

\* Mutant of Charge: the reservation is released even when the cost is unknown
\* or the authority did not take the settlement.
ChargeReleases(settled) ==
    [task EXCEPT !.known = IF run.actual = Unknown THEN @ ELSE @ + run.actual,
                 !.reserved = @ - Estimate[run.kind],
                 !.complete = @ /\ run.actual # Unknown]

\* charge(): settle with the authority and move the cost from reserved to
\* known; an unknown cost, and one the authority did not take, stay reserved.
Charge(settled) ==
    [task EXCEPT
        !.known = IF run.actual = Unknown THEN @ ELSE @ + run.actual,
        !.reserved = IF settled THEN @ - Estimate[run.kind] ELSE @,
        !.complete = @ /\ run.actual # Unknown,
        !.ops[run.id] = IF run.kind \in {"validation", "domain"}
                        THEN [kind |-> run.kind, step |-> run.tool,
                              status |-> FinalStatus(run), actual |-> run.actual]
                        ELSE @]

Settled == [ledger EXCEPT ![run.id].state = "settled", ![run.id].actual = run.actual]

Overran == run.actual > Estimate[run.kind]

Settle ==
    /\ run.pc = "settle"
    /\ ledger' = IF run.actual = Unknown THEN ledger ELSE Settled
    /\ task' = Charge(run.actual # Unknown)
    /\ run' = AfterSettle([run EXCEPT !.costViolation = @ \/ Overran])
    /\ UNCHANGED <<caller, row, journal, calls>>

\* settle() raises; the settlement may have been committed.
SettleUnavailable ==
    /\ run.pc = "settle"
    /\ run.actual # Unknown
    /\ ledger' \in {ledger, Settled}
    /\ task' = Charge(FALSE)
    /\ run' = AfterSettle([run EXCEPT !.costViolation = @ \/ Overran,
                                      !.budgetUnavailable = TRUE])
    /\ UNCHANGED <<caller, row, journal, calls>>
-----------------------------------------------------------------------------
(* What follows an operation.                                              *)

NextTool(r) ==
    IF r.tool < Tools THEN AdmitAt([r EXCEPT !.tool = @ + 1, !.replay = FALSE], "tool")
                      ELSE [r EXCEPT !.pc = "complete"]

\* The possible continuations once the final record of an operation is saved.
AfterFinish(r) ==
    CASE r.kind = "classification" ->
           {IF r.failure = "none" /\ r.actual # Unknown THEN [r EXCEPT !.pc = "classify"]
                                                        ELSE Halt(r, "FAILED")}
      [] r.kind = "evaluation" ->
           LET attempt(f) == [r EXCEPT !.pc = "finish_attempt", !.failure = f]
           IN  IF ~r.dispatched THEN {attempt(r.failure)} ELSE
               {attempt(g) : g \in CheckpointOutcomes \ {"none"}}
                 \cup (IF "none" \notin CheckpointOutcomes THEN {}
                       ELSE IF r.failure = "none"
                       THEN {NextVerification([r EXCEPT !.evaluator = @ + 1, !.retry = 0])}
                       ELSE {attempt(r.failure)}
                              \cup (IF r.failure = "evaluator" /\ r.retry < EvaluatorRetries
                                    THEN {[r EXCEPT !.pc = "retry_evaluation"]} ELSE {}))
      [] r.kind = "domain" -> {[r EXCEPT !.pc = "finish_attempt"]}
      [] OTHER ->
           {CASE r.failure = "none" -> NextTool(r)
              [] r.failure # "none" /\ r.dispatched -> [r EXCEPT !.pc = "recover_tool"]
              [] OTHER -> Halt(r, StatusFor(r.failure))}

FinishOperation ==
    /\ run.pc = "finish"
    /\ \E r \in AfterFinish(run) :
          Save(WithOp(task, run.id, FinalStatus(run), run.actual), r)
    /\ Quiet

\* The provider answered: the task is validating, and V0 comes first.
Validating ==
    /\ run.pc = "validating"
    /\ Save([task EXCEPT !.status = "VALIDATING"], AdmitAt(run, "validation"))
    /\ Quiet

\* Mutant of RetryEvaluation: the retry is not counted.
RetryEvaluationUncounted ==
    /\ run.pc = "retry_evaluation"
    /\ Save(task, AdmitAt(run, "evaluation"))
    /\ Quiet

\* The evaluator failed for infrastructure reasons and is called again.
RetryEvaluation ==
    /\ run.pc = "retry_evaluation"
    /\ Save(task, AdmitAt([run EXCEPT !.retry = @ + 1], "evaluation"))
    /\ Quiet

\* Mutant of FinishAttempt: the completed record is rebuilt without the cost
\* that was already saved with the provider's evidence.
FinishAttemptForgets(f) ==
    /\ run.pc = "finish_attempt"
    /\ IF run.failure = "none" THEN f \in CheckpointOutcomes ELSE f = run.failure
    /\ Save([task EXCEPT !.ops[run.attempt] =
                [kind |-> "generation", step |-> 0,
                 status |-> IF f = "none" THEN "succeeded" ELSE "failed",
                 actual |-> 0]],
            IF f = "none" THEN NextTool(run)
                          ELSE [run EXCEPT !.pc = "recover", !.failure = f])
    /\ Quiet

\* The generation attempt ends after all its verification: one last checkpoint
\* before it may count as a success.
FinishAttempt(f) ==
    /\ run.pc = "finish_attempt"
    /\ IF run.failure = "none" THEN f \in CheckpointOutcomes ELSE f = run.failure
    /\ LET op == task.ops[run.attempt]
           called == op.status = "observed"
       IN  Save([task EXCEPT !.ops[run.attempt] =
                    [kind |-> "generation", step |-> 0,
                     status |-> CASE ~called -> "cancelled"
                                  [] called /\ f = "none" -> "succeeded"
                                  [] OTHER -> "failed",
                     actual |-> IF called THEN op.actual ELSE 0]],
                IF f = "none" THEN NextTool(run)
                              ELSE [run EXCEPT !.pc = "recover", !.failure = f])
    /\ Quiet

\* Failures that end the task without consulting the recovery policy.
GiveUp ==
    /\ run.pc = "recover"
    /\ ~ConsultsRecovery
    /\ run' = Halt(run, IF run.budgetUnavailable THEN "FAILED" ELSE StatusFor(run.failure))
    /\ UNCHANGED <<task, row, journal>> /\ Quiet

\* choose_recovery: the attempt and funding bounds within which another
\* generation may be chosen; routes, backoff and the deadline may forbid it.
CanRecover ==
    /\ Remaining > 0
    /\ task.generations < MaxGenerations
    /\ \/ run.failure = "quality" /\ task.escalations < MaxEscalations
       \/ run.failure = "infrastructure" /\ task.retries < MaxRetries

Recover(again) ==
    /\ run.pc = "recover"
    /\ ConsultsRecovery
    /\ again => CanRecover
    /\ Save([task EXCEPT !.status = "RECOVERING"],
            IF again THEN [run EXCEPT !.pc = "reroute"] ELSE Halt(run, "FAILED"))
    /\ Quiet

\* The recovery is counted and routed again through the whole policy.
Reroute(rejected) ==
    /\ run.pc = "reroute"
    /\ Save([task EXCEPT !.status = "ROUTED",
                         !.escalations = IF run.failure = "quality" THEN @ + 1 ELSE @,
                         !.retries = IF run.failure = "infrastructure" THEN @ + 1 ELSE @],
            IF rejected THEN Halt(run, "FAILED")
            ELSE [run EXCEPT !.pc = "loop", !.evaluator = 0, !.retry = 0])
    /\ Quiet

\* choose_recovery for a tool: bounds first, then the safety of a replay.
AfterToolFailure ==
    {Halt(run, "FAILED")}
      \cup (IF Remaining = 0 \/ task.recoveries >= MaxToolRecoveries THEN {}
            ELSE IF ToolPlan[run.tool] = "unkeyed" THEN {Halt(run, "BLOCKED")}
            ELSE {[run EXCEPT !.pc = "replay_tool"],
                  [run EXCEPT !.pc = "replay_tool", !.kind = "alternate_tool"]})

RecoverTool ==
    /\ run.pc = "recover_tool"
    /\ \E r \in AfterToolFailure : Save([task EXCEPT !.status = "RECOVERING"], r)
    /\ Quiet

ReplayTool ==
    /\ run.pc = "replay_tool"
    /\ task' = [task EXCEPT !.recoveries = @ + 1, !.status = "VALIDATING"]
    /\ run' = AdmitAt([run EXCEPT !.replay = TRUE], run.kind)
    /\ UNCHANGED <<row, journal>> /\ Quiet

\* The last checkpoint, then success.
Complete(f) ==
    /\ run.pc = "complete"
    /\ f \in CheckpointOutcomes
    /\ IF f = "none"
       THEN Save([task EXCEPT !.status = "SUCCEEDED"], EndedRun("returned"))
       ELSE run' = Halt(run, StatusFor(f)) /\ UNCHANGED <<task, row, journal>>
    /\ Quiet

Stop ==
    /\ run.pc = "stop"
    /\ Save([task EXCEPT !.status = run.verdict], EndedRun("returned"))
    /\ Quiet

\* The process dies; its memory is gone.
Crash ==
    /\ run.pc \notin Ended \cup {"idle"}
    /\ run' = EndedRun("crashed")
    /\ task' = NoTask
    /\ UNCHANGED <<row, journal>> /\ Quiet
-----------------------------------------------------------------------------
Init ==
    /\ caller = [c \in Callers |-> "new"]
    /\ run = NoRun
    /\ task = NoTask
    /\ row = NoTask
    /\ journal = NoTask
    /\ ledger = [i \in Ids |-> NoReservation]
    /\ calls = [i \in Ids |-> 0]

\* One step of the owning execution.
Step ==
    \/ Preflight \/ Classify \/ EnvironmentChanged \/ Loop
    \/ \E rejected \in BOOLEAN : Route(rejected) \/ Reroute(rejected)
    \/ \E id \in Ids : Reserve(id) \/ ReserveUnavailable(id)
    \/ \E f \in Failures : Refuse(f) \/ Withdraw(f) \/ FinishAttempt(f) \/ Complete(f)
    \/ Intent \/ LiveRefusal
    \/ \E f \in Failures, actual \in Costs \cup {Unknown} : Dispatch(f, actual)
    \/ Evidence \/ Settle \/ SettleUnavailable \/ FinishOperation
    \/ Validating \/ RetryEvaluation
    \/ GiveUp \/ \E again \in BOOLEAN : Recover(again)
    \/ RecoverTool \/ ReplayTool \/ Stop

Next ==
    \/ \E c \in Callers : Create(c) \/ CreateUnavailable(c)
    \/ Step
    \/ Crash
    \/ Reconcile

Spec == Init /\ [][Next]_vars
-----------------------------------------------------------------------------
Called(i) == calls[i] > 0

Recorded(t) == {i \in Ids : t.ops[i].status # "absent"}

SumOver(S, f(_)) == SumFunction([i \in S |-> f(i)])

Overrun(i) == IF ledger[i].state = "settled" /\ ledger[i].actual > ledger[i].amount
              THEN ledger[i].actual - ledger[i].amount ELSE 0

\* The outside world is only ever called for an operation whose funds are
\* reserved and whose started intent is in the database, and sees each
\* operation at most once, whatever crashes, outages, journal replays and
\* resubmissions happen.
IntentBeforeCall ==
    \A i \in Ids : Called(i) => /\ calls[i] = 1
                                /\ ledger[i].state # "free"
                                /\ row.ops[i].status # "absent"

\* The task's spending never passes its own ceiling, which only the execution
\* enforces, by more than what reported costs exceeded their reservations.
SpendWithinCeiling == LedgerDebit <= Ceiling + SumOver(Ids, Overrun)

\* While an execution runs, its account covers what the authority debits for
\* the operations it knows of, even when a settlement was not acknowledged; and
\* after any crash the stored record alone accounts for every reservation of
\* the operations it names, up to what was reserved for them.
AccountCoversLedger ==
    /\ run.pc \notin Ended \cup {"idle"} =>
        SumOver(Recorded(task), LAMBDA i : Debit(ledger[i])) <= task.known + task.reserved
    /\ SumOver(Recorded(row), LAMBDA i : Debit(ledger[i]) - Overrun(i))
        <= row.known + row.reserved

\* Once an operation has cost more than its reservation, the task calls the
\* outside world for nothing more.
NoCallAfterOverrun ==
    \A i, j \in Ids : (Overrun(i) > 0 /\ i < j) => ~Called(j)

\* A stored success has nothing in doubt: every recorded operation ended, none
\* overran, every check the plan requires passed after the last generation,
\* every tool call succeeded, and what stays reserved is exactly the
\* reservations of the operations whose cost is unknown.  A live success knows
\* the cost of every attempt.
SuccessIsSound ==
    row.status = "SUCCEEDED" =>
        LET ids == Recorded(row)
            generations == {i \in ids : row.ops[i].kind = "generation"}
            last == CHOOSE i \in generations : \A j \in generations : j <= i
            passed(kinds) == Cardinality({i \in ids : /\ i >= last
                                                      /\ row.ops[i].kind \in kinds
                                                      /\ row.ops[i].status = "succeeded"})
        IN  /\ \A i \in ids : /\ row.ops[i].status \in {"succeeded", "failed", "cancelled"}
                              /\ Overrun(i) = 0
            /\ passed({"generation"}) = 1
            /\ passed({"validation"}) = 1
            /\ passed({"evaluation"}) = Evaluators
            /\ passed({"domain"}) = IF Domain THEN 1 ELSE 0
            /\ passed(ToolKinds) = Tools
            /\ row.reserved = SumOver({i \in ids : row.ops[i].actual = Unknown},
                                      LAMBDA i : Estimate[row.ops[i].kind])
            /\ Live => \A i \in ids : row.ops[i].kind \in {"classification", "generation"}
                                       => row.ops[i].actual # Unknown

\* A side effect that cannot be reconciled is performed at most once, or only
\* repeated on the same tool under its idempotency key.
SideEffectsSafe ==
    \A n \in 1..Tools :
        LET performed(kinds) == {i \in Ids : /\ Called(i) /\ row.ops[i].kind \in kinds
                                             /\ row.ops[i].step = n}
        IN  /\ ToolPlan[n] = "unkeyed" => Cardinality(performed(ToolKinds)) <= 1
            /\ ToolPlan[n] = "keyed" => performed({"alternate_tool"}) = {}

\* Every loop of the execution is bounded by its limits: attempts by
\* max_total_generation_attempts, evaluator calls by their retries, tool calls
\* by max_tool_recoveries.
OperationsBounded ==
    Cardinality({i \in Ids : ledger[i].state # "free"})
        <= (IF Live THEN 1 ELSE 0)
             + MaxGenerations * (2 + Evaluators * (EvaluatorRetries + 1)
                                   + (IF Domain THEN 1 ELSE 0))
             + Tools + MaxToolRecoveries

\* The repository accepts every revision the execution saves: none raises
\* ConcurrentUpdate out of execute().
SavesAccepted == run.pc # "rejected"

\* A terminal record never changes again: not by a late save, a journal
\* replay or a resubmission.
TerminalIsFinal == [][row.status \in Terminal => row' = row]_vars
=============================================================================
