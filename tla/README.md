# A TLA+ model of model-router

`model_router` (under `src/src/model_router/`) routes a task to a model, executes it
within hard cost and attempt limits, verifies what came back, and keeps durable evidence
of every paid call. It is a Python library with a small HTTP service, one SQL database
(SQLite or PostgreSQL) shared by threads, processes and hosts, and a local recovery
journal for when that database is unavailable.

This directory models the parts of it that keep state and can fail halfway. The modules
are checked with TLC on small instances, and the theorems in the `*Proofs` modules are
proved with TLAPS for every value of the constants. Line numbers below are in
`src/src/model_router/`; `PROJECT.json` maps every definition to its lines.

## 1. Inventory

| Component | State | Operations | Interacts with |
|---|---|---|---|
| Budget authority (`storage/budget.py`) | allocation, task and reservation rows | `reserve`, `settle`, `remaining`, each one write transaction that locks the allocation | called by execution, previews and shadow runs |
| Execution orchestrator (`execution/orchestrator.py`, `verification.py`, `lifecycle.py`, `admission.py`) | one `TaskResult` in memory per execution, plus flags (`cost_violation`, `budget_unavailable`) | `run`, `generate`, `verify_semantic`, `run_tools`, `charge`, `reserve`, `save`, `stop` | budget authority, repository, providers, tools, health, recovery policy |
| Recovery policy (`escalation/recovery.py`) | none | `choose_recovery` | called after a failed attempt or tool call |
| Task repository (`storage/repository.py`) | task rows and their children, outbox rows | `create`, `save`, `get` | database |
| Recovery journal (`storage/repository.py` 285-360) | one JSON-lines file under a thread and file lock | `retain_pending`, `reconcile_pending` | written when a save fails; replayed by an operator |
| Outbox (`storage/repository.py` 364-443) | event rows with a lease | `claim_outbox`, `ack_outbox`, `pending_outbox` | delivery workers |
| Health circuits (`health/service.py`) | one `_Circuit` and one observation per scope | `observe`, `admit_probe`, `run_probes`, `available`, `apply` | every call reports to it; routing asks it |
| Shadow experiments (`shadow/service.py`) | debits of the service, reservations in two scopes, deferred-save flag of the task | `run`, `_reserve`, `_run`, `_settle`, `_callback` | runs inside the execution before success |
| Routing previews (`execution/preview.py`, `storage/previews.py`) | one preview row per idempotency key, bounded per allocation | `claim`, `save`; `run` and `execute`: reserve, intent, call, account, settle, route | budget authority, provider, router |
| Calibration (`calibration/`) | an allocation journal file shared by runs, an event journal and a checksummed record per run | `plan_budget`, `reserve`, `assert_ready`, `run`, `grade`, `settle`, `finish` | files and paid providers |
| Router and policy (`router.py`, `policy/`) | none | pure functions of request, environment and configuration | execution, previews, recovery |
| Release (`release/`) | manifest and references, activation receipts, canary reports | `load_release`, `preflight`, `activate`, `build_app`, `check`, `run_canaries` | files, database, live execution |
| HTTP service, telemetry, configuration, migrations, dashboard | configuration files, read models | loading, translating, projecting | the above |

What is hard in it:

* **Money and calls under failure.** A provider call is paid for before its evidence is
  stored. The process may die, and the database, the budget authority or the journal may
  fail, between any two of: reserve, save the intent, call, save the evidence, settle,
  save the final record. Each of these may also have *committed* although the caller saw
  an error.
* **Retries.** A submission with the same idempotency key, a reservation with the same
  action id, a settlement, a journaled revision, a tool call with a side effect: each may
  be repeated, possibly with other data.
* **Concurrency.** Several processes share one allocation and one task table;
  reconciliation runs beside executions; health reports arrive after the circuit they
  belong to has moved on; delivery workers race for leases.
* **Nested loops with limits.** Evaluator retries inside attempts inside recoveries, then
  tool recoveries; counters and ceilings at their boundaries, after overruns and with
  unknown costs.

The correctness questions per component, and where each is answered:

| Component | What makes it correct | Where |
|---|---|---|
| Budget authority | concurrent reservations never exceed a ceiling; a granted amount is held; settlement happens once; the whole is an atomic allocation | `BudgetLedger`, `SpendingProofs` |
| Execution | no call without a stored intent and funds; each operation called once; attempts, spending and operations bounded across crashes; terminal records final; success means everything required passed; no unsafe side effect twice | `Execution`, `ExecutionProofs` |
| Journal | replay never races an execution; nothing retained is lost; the journal drains; a returned success is stored | `RecoveryJournal`, `RecoveryJournalProofs` |
| Outbox | one live lease holder per event; finished only after delivery, and for good; every event is acknowledged | `Outbox`, `OutboxProofs` |
| Health circuit | bounded recovery; recovery happens | `HealthCircuit`, `ServiceProofs` |
| Previews | one key is paid once; the stored record never contradicts the call or the ledger, wherever a submission dies | `Preview`, `ServiceProofs` |
| Router and recovery policy | no call outside the hard constraints, however health changes and recovery moves; rejections name the true obstacle; preferred floors are not passed over | `Router`, `RoutedTask`, `SpendingProofs` |
| Shadow | real spending stays within the shadow ceilings; no reservation is stranded | `Shadow`, `ServiceProofs` |
| Calibration | the plan's bound covers every call; what is settled was paid; an unknown cost stops the run; the file implements an atomic allocation | `CalibrationLedger`, `CalibrationRun`, `CalibrationRunProofs` |
| Release | money leaves only under a receipt for what is on disk, with valid evidence; a canary's cap bounds everything its allocation pays but for overruns; reports are truthful but for a lost classification | `ReleaseGate`, `Release`, `ReleaseProofs` |

## 2. Modules

`BudgetRows` holds the reservation rows of one allocation and what they debit.
`Allocation` EXTENDS it with the abstract specification: a reservation is granted in one
atomic step and settled at most once. `BudgetLedger` is the real authority: a client
locks the allocation (`LockedAllocation`: `BEGIN IMMEDIATE`, or `SELECT ... FOR UPDATE`),
reads the rows, decides on what it read, and commits; a transaction may roll back, or
commit with its acknowledgement lost. `seen` keeps what was read apart from the rows, so
that a missing lock would show. `settle(None)` returns before any transaction and is a
stutter. Money is a natural number of its smallest unit; `BudgetTaskRow` repeats the
immutable task ceiling of its allocation and is not a variable of its own. `Alloc ==
INSTANCE Allocation` with the identity on `rows` is the refinement mapping.

`Execution` is one task from `create` to its terminal record. `run` is the owning
execution's control point and flags, `task` its record in memory, `row` and `journal` the
stored and the journaled record, `ledger` the authority's reservation of each operation,
and `calls` how often the outside world saw each operation. All paid operations
(classification, generation, V0 validation, semantic evaluation, V3 domain validation,
tool calls) pass through the same actions, `Reserve`, `Intent`, `Dispatch`, `Evidence`,
`Settle`, `FinishOperation`, which differ by kind where the code does; the points of
`run.pc` are the places where the code may stop between them. `Save` is
`_Execution.save` with its three outcomes: committed; unavailable (committed or not),
hence journaled and raised; refused by the repository's progression checks (`Accepts`).
`Crash` may happen anywhere. Abstractions:

* what a checkpoint learns from the environment, readiness, cancellation and the clock,
  and every verdict, is a free choice at each point where the code asks. What the
  execution itself remembers (`cost_violation`, `budget_unavailable`, unknown live cost)
  is not free. This allows more behaviours than the code, never fewer;
* the budget authority is its atomic specification: `BudgetLedger` shows that this is
  what it implements. Other tasks of the allocation appear only as refusals;
* an operation's record keeps its kind, its position, its status and its cost; digests,
  scopes, version pins and content are not modelled;
* shadow experiments run after verification on an isolated budget: `Shadow` models them,
  and `RecoveryJournal` what they do to the task's saves.

Two consequences of the code are visible in the model and worth knowing. A `create`
whose acknowledgement is lost leaves a CREATED task without an owner, which every
resubmission is answered with. And `environment()` is called again to price a
classification that was already dispatched (`orchestrator.py:671`): when the environment
changed meanwhile, the task is BLOCKED with that attempt still started and its funds
held. Neither breaks a property of `Execution`: no money is spent twice. What the second
does to a canary report is in `Release`, and in section 5.

`RecoveryJournal` is the journal file, the executions that append to it and the
reconciliation that replays it. Its granularity is the append and the single replayed
line, because faults strike between them. A task has one owner, so its revision number
identifies the payload. `tornTail` says that the file ends inside a line: the next append
completes that line instead of starting its own. A save of a running shadow experiment
that is journaled sets `_defer_shadow_persistence`, and every later save of the task goes
to the journal only. An append that fails leaves nothing, part of its line, or the whole
line when only the `fsync` after it raised.

`HealthCircuit` is the circuit of one scope. Calls and probes are dispatched by one
action and report by another, so that reports meet circuits that have moved on. Time is
relative: the model keeps ages, saturated where the code stops distinguishing them. Only
the newest `FailureThreshold` failures are kept, since no more are ever counted. `probe`
and `call` are the probes and calls in flight, which the circuit itself cannot tell apart
when they report. One abstraction narrows it: `observe` reads the clock before it takes the lock, and
here both are one step.

`Preview` is the paid routing preview: `SQLPreviewRepository.claim` as a transaction that
locks its allocation, reads the table and inserts or answers, and then the owner's way
through `_Preview.run` and `execute`, one action per transaction or call. A claiming
submission gives its preview a fresh identifier, so records, reservations and calls are
indexed by the submission that owns them, and since it alone saves its record, the copy
it holds is the stored one. A retry is answered with the record as it stands and never
resumes it. There is no journal here: a save, reservation or settlement that fails may
have committed, and ends the submission. Answers of the authorization, the provider, the
authority and the router are free choices. Generic exceptions are a "blocked" stop before
the call and an "uncertain" one after it; none can be raised between the reservation and
the call, because `ready()` catches its own.

`Delivery` is what the outbox promises: an event is published, delivered one or more
times, and finished only after that. `Outbox` is what the code does: `_insert_event` in
the transaction of a save or of a journal replay, `claim_outbox` with the clock it read
*before* its transaction waited for the database, `ack_outbox`, which on PostgreSQL reads
the row and updates it in a later statement, readers of `pending_outbox` that acknowledge
without an owner, workers that die or outlast their lease. Time is what is left of each
lease, in the row and in the worker's head. `DeliveryState` is the refinement mapping.

`RoutingPolicy` holds the operators of `policy/` and what configuration loading accepts
(`BundleAssumption`, which TLC evaluates on the instance), and what the contracts of a
request and of an environment accept (`RequestValid`, `EnvironmentValid`). A catalogue,
bands, floors and modifiers are parameters; null is `None`. `Router` is `route()`: each
filter keeps a set of positions of the plan, and what stands in the way of a position is a
set of names. A plan that names a model or an effort the catalogue lacks is an error
(`PlanUnsupported`), as are a target of that kind and a waiver without evidence.
`RoutedTask` composes the router with the recovery policy: a route is selected, checked
again at the dispatch in the environment as it is then, and replaced after a failure by
what `choose_recovery` proposes and the router grants: the proposal, the trial after the
back-off and the selection each read the environment anew. Two blockers stand only in previews,
where nothing executes; the orchestrator discharges them when its composition has the
adapter they ask for (`Dischargeable`). Records and saves are `Execution`'s;
there, verdicts and refusals are free, here they follow from the policy.

`Shadow` is the experiment that a successful task starts: sampling and eligibility, one
reservation per action in the task's and the period's scope with compensation when one
fails, the calls with their callbacks and deadlines, and settlement, for tasks that run
concurrently. A cost that a call does not report is still spent. What has to hold before
an experiment starts is a set of named conditions.

`CalibrationLedger` is the allocation file: each operation holds the file lock from its
read to its append, so it is one step; the append may not happen, tear, or reach the file
unsynced. It implements `Allocation` with one task per run. `CalibrationRun` composes it
with one live run: the loops over cases and strategies, classification, generation with
recovery, grading with retries and adjudication, the guard that admits each call, the
event journal whose appends may fail, the record and its checksum, and crashes.

`ReleaseGate` states what a manifest may say and every check of `preflight`. `Release` is
the life of a release: the operator edits what is on disk, time passes, the environment
changes, `activate` writes (or tears) a receipt, a service and a canary run are built with
it, and every paid call repeats `check`. The money of a task is what `Execution` shows in
detail, reduced to what the allocation and the report can tell apart (`Calls`): what its
recorded calls were held at and cost, and what a last call cost that did not report it.
The recorded cost may exceed its reservation, which ends the task (`checkpoint`). The paid
calls of a task and the `check` right before each of them are one step, their settlement
another, which may fail with or without having committed, and the report a third; the
process may die between them, and preflight may stop passing after a classification was
paid (`LoseClassification`). Building the application creates its allocation even when the
canary is then refused (`RefuseCanary`). `over`, and the fields `paid`, `over` and `lost`
of a report, are history for the properties: no action reads them. The separate allocation
that `:classify-route` draws on is not part of it: `Preview` has its payments.

The `MC*` modules give the constants that a `.cfg` cannot express. A `*Proofs` module
EXTENDS the component it is named after and holds its inductive invariants and theorems.
Two hold those of several components: `SpendingProofs` of `BudgetLedger` and `RoutedTask`,
`ServiceProofs` of `Preview`, `HealthCircuit` and `Shadow`. `SumTheorems` holds what they
share about sums over finite sets and about the extremes of sets of numbers.
Definitions called "Mutant of ..." or placed directly before a definition with the same
parameters are variants of it, each with a plausible mistake; replacing the original by
its variant must break the property they are listed with in `PROJECT.json`, which shows
that the property depends on that piece of code.

## 3. What is checked

| Run | Instance | What it shows |
|---|---|---|
| `budget` | 2 clients, 3 tasks (one foreign) with 2 actions, amounts 1-2, actual cost 0 or 3, ceilings 3 and 2 | `DebitWithinCeilings`, `GrantedIsHeld`, `QuoteAgreesWithReserve`, and the refinement `ImplementsAllocation` |
| `attempts` | live authorization: 2 submissions, paid classification, 2 generations, 1 escalation, 1 retry, costs 1, 2 and unknown against estimates of 1, ceiling 3, authority 4 | `IntentBeforeCall`, `SpendWithinCeiling`, `AccountCoversLedger`, `SavesAccepted`, `NoCallAfterOverrun`, `TerminalIsFinal` |
| `plan` | one generation, V0, one evaluator with one retry, V3, an unkeyed and a keyed tool call with one recovery; ceiling 9 | `SuccessIsSound`, `SideEffectsSafe`, `OperationsBounded` |
| `journal` | 2 tasks, one with a shadow experiment, 4 revisions, 3 faults of every kind | `RowFollowsOwner`, `NothingLostSilently`, and the liveness properties `ProductionDrains` and `RecoverableIsStored` |
| `journal_gap` | one shadow task, an outage and a failing append | violation, see section 5 |
| `circuit` | 3 probers, 2 callers, thresholds 2, at most 3 half-open probes, window, cooldown and freshness of 2 ticks | `RecoveryBounded`, `Recovers` (liveness) |
| `preview` | 4 submissions: one, its retry under another allocation, a competitor for the only record of the first allocation, and one that reuses the key for another request; costs 1, 2 and unknown against a reservation of 1 | `PaidOnce`, `SettlementIsRecorded`, `CostStatusIsTrue`, `FinalIsReconciled` |
| `outbox` | 2 events, 2 workers, 1 reader, batches of 1, leases of 2 ticks, a wait of at most 1, 2 faults | `OneLeaseHolder`, the refinement `ImplementsDelivery`, `EventuallyAcknowledged` (liveness) |
| `calibration` | a run and a peer on an allocation of 14; 1 case, a router with recovery and a fixed strategy, 2 attempts, 1 judge retry, 1 adjudication, charges up to 1 above their bound | `SettledIsTrue`, `PlanCovers`, `CompletedIsSettled`, `UnknownStopsUnlessLost`, and the refinement `ImplementsAllocation` |
| `routing` | 77 pairs of request and classification over three tiers with a hard floor, two preferred floors and a modifier; 3 generations, 2 escalations, 2 retries, 8 units of time, funds 12, one change of health | `CallPermitted`, `RecoveryDirection`, `RejectionIsTruthful`, `NoPreferredRouteOverlooked` |
| `shadow` | 2 tasks of generation, V0 and one evaluator, bounds of 1, charges 0 to 2, ceilings 3, authority 3 and 4, 2 faults | `SpendWithinCaps`, `NothingStranded` |
| `release` | a live release with ceilings of 2, one with an application ceiling of 3 on the same allocation, one that only routes, and an edited reference; three environments, 2 receipts, 1 report, caps 2 and 3, tasks that cost up to 2 against reservations of 0 to 2, evidence that expires after one tick, one change | `CanarySpendWithinCap`, `ReportTruthful`, `PaidCallCovered` |

Why the bounds are enough to be interesting. In `budget` the ceilings are below the sum of
two reservations, so two clients always compete, and an actual cost of 3 overruns every
reservation. In `attempts` the ceiling admits one whole attempt and part of another, and
is below the authority's, so both the task's and the authority's checks decide; costs of 2
overrun their reservation. `plan` has funds and room for every retry its limits allow and
for one operation more, so `OperationsBounded` could be violated. `MaxOps` bounds how many
operation identifiers exist, and in each run exceeds what the limits allow. In `journal`,
two deferred revisions and three faults are what it takes to make a pass meet its own
earlier replays; the production task beside it shows that the two do not disturb each
other. In `circuit`, three probers against a success threshold of two let a late result of
an earlier recovery overlap with the probes of the next. In `preview` the retry holds
another allocation's lock, so only the unique constraint orders it, and the competitor
meets the record bound. In `outbox` two workers compete for every event and a lease can
expire while its worker waits, delivers or acknowledges. The ceiling of `calibration` is
one above what the plan needs, so a peer or an overrun takes the last of it; `run()` is
called once per runner, as the CLI does. The cases of `routing` are chosen so
that capability, floors, ceilings, context, caches, price and validation each exclude some
model that the others would prefer. In `shadow` two tasks do not fit under the period
ceiling together. In `release` the raised ceiling competes with the allocation an earlier
release created, under a cap that only the first release fits. A task may reserve its
ceiling in one call or in two, cost more than it reserved, or leave the cost of its last
call unknown; a run has two cases, so the lost classification is that of the second; every
process may die between a call, its settlement and its report. One report is one canary
run: that several draw on one allocation is left to the proof, and the service beside it
does the same.

Deadlock is checked for the ledger, the circuit, the routed task, shadow runs and
releases; executions, previews, the journal, the outbox and calibration runs really end.
`budget`, `shadow` and `release` use symmetry; none of them has a liveness property. TLC
keeps coverage with every operator inlined, which is why `Router` and `RoutedTask` hand
computed values on as parameters rather than as LET definitions.

**Fairness.** `HealthCircuit`, `RecoveryJournal` and `Outbox` have fairness; the properties
of all other modules are safety properties and need none. In `RecoveryJournal` an execution keeps taking steps (weak fairness of
`OwnerStep`: the orchestrator has no unbounded wait), an append that waits for the journal
guard gets it (strong fairness of `RetainPending`, because reconciliation takes the guard
again and again), and reconciliation is called again and again (weak fairness of
`Reconcile`). The last one is an assumption about the operator: the library exposes
`reconcile_pending` and readiness reports a pending journal, but nothing in the library
calls it periodically. In `HealthCircuit` time passes, calls and probes return because
both have timeouts, and `run_probes` is called again and again, which is again the
operator's part. `Recovers` in addition assumes that from some time on no probe fails a
recovery. In `Outbox` time passes and each delivery worker keeps taking steps (weak
fairness of `WorkerStep`: a worker polls in a loop, and one that died is replaced by one
with the same owner); readers promise nothing. Faults are finitely many because
`MaxFaults` bounds them.

## 4. What is proved

| Theorem | For every |
|---|---|
| `SpendingProofs!TypeCorrect` | set of clients, tasks, actions, amounts, ceilings |
| `SpendingProofs!GrantsAreKept` (`GrantedIsHeld`) | the same |
| `SpendingProofs!CeilingsHold` (`DebitWithinCeilings`) | the same |
| `SpendingProofs!QuotesAgree` (`QuoteAgreesWithReserve`) | the same |
| `SpendingProofs!LedgerImplementsAllocation` (`ImplementsAllocation`) | the same |
| `SpendingProofs!RoutedInvHolds` | catalogue, policy, prices, limits, requests, changes of health, failures and bounds |
| `SpendingProofs!CallsPermitted` (`CallPermitted`) | the same |
| `SpendingProofs!RecoveryMovesOneWay` (`RecoveryDirection`) | the same |
| `SpendingProofs!NoPlannedRouteOverlooked` | catalogue, policy, prices, limits, request, environment, target |
| `SpendingProofs!RejectionNamesObstacle` | the same, without a target |
| `ExecutionProofs!TypeCorrect` | plan, limits, estimates, costs, submissions |
| `ExecutionProofs!CallsFollowIntents` (`IntentBeforeCall`) | the same |
| `ExecutionProofs!TerminalStays` (`TerminalIsFinal`) | the same |
| `ExecutionProofs!EverySaveAccepted` (`SavesAccepted`) | the same |
| `ExecutionProofs!OverrunStopsCalls` (`NoCallAfterOverrun`) | the same |
| `ExecutionProofs!SpendingBounded` (`SpendWithinCeiling`) | the same |
| `ExecutionProofs!AccountIsCovered` (`AccountCoversLedger`) | the same |
| `ExecutionProofs!OperationsAreBounded` (`OperationsBounded`) | the same |
| `ExecutionProofs!SideEffectsAreSafe` (`SideEffectsSafe`) | the same |
| `ExecutionProofs!SuccessesAreSound` (`SuccessIsSound`) | the same |
| `RecoveryJournalProofs!RowsFollow` (`RowFollowsOwner`) | set of tasks, shadow tasks and faults, any number of revisions and faults |
| `RecoveryJournalProofs!RetainedStays` (`NothingLostSilently`) | the same |
| `ServiceProofs!TypeCorrect` | set of submissions, what they ask, allocations, estimate, costs |
| `ServiceProofs!PaysOnce` (`PaidOnce`) | the same |
| `ServiceProofs!SettlementsAreRecorded` (`SettlementIsRecorded`) | the same |
| `ServiceProofs!CostStatusesAreTrue` (`CostStatusIsTrue`) | the same |
| `ServiceProofs!FinalsAreReconciled` (`FinalIsReconciled`) | the same |
| `ServiceProofs!RecoveryIsBounded` (`RecoveryBounded`) | thresholds, window, cooldown, set of probers and callers, outcomes |
| `ServiceProofs!ShadowInvHolds` | finite set of tasks, sequence of actions, bounds, charges, ceilings, number of faults |
| `ServiceProofs!ShadowTypesHold` (the types, `ShadowTypeOK`) | the same |
| `ServiceProofs!SpendIsWithinCaps` (`SpendWithinCaps`) | the same |
| `ServiceProofs!NothingIsStranded` (`NothingStranded`) | the same |
| `OutboxProofs!TypeCorrect` | number of events, set of workers and readers, lease, batch size, wait, faults |
| `OutboxProofs!LeasesExclude` (`OneLeaseHolder`) | the same |
| `OutboxProofs!OutboxDelivers` (`ImplementsDelivery`) | the same |
| `CalibrationRunProofs!CompletedRunsSettle` (`CompletedIsSettled`) | corpus, strategies, prices, retries, other runs, invocations |
| `CalibrationRunProofs!UnknownCostsStopTheRun` (`UnknownStopsUnlessLost`) | the same |
| `CalibrationRunProofs!PlanIsEnough` (`PlanCovers`) | the same |
| `CalibrationRunProofs!AllocationFileImplements` (`ImplementsAllocation`) | the same |
| `CalibrationRunProofs!SettlementIsTrue` (`SettledIsTrue`) | the same, for one invocation |
| `ReleaseProofs!PaidCallsAreCovered` (`PaidCallCovered`) | set of manifests, environments, receipts, reports and caps, any time and number of changes |
| `ReleaseProofs!CanaryWithinCap` (`CanarySpendWithinCap`) | the same |
| `ReleaseProofs!ReportsAreTruthful` (`ReportTruthful`) | the same |

The assumptions are the named ASSUMEs of the component modules: constants have their
types; tables hold finitely many tasks, actions and runs (`FiniteAssumption`,
`LedgerAssumption`); the task ceiling is at most the application ceiling (checked when an
allocation is created); live execution has no evaluators, domain validation or tools
(`run()` rejects them); the amounts the calibration ledger accepts include the bound of
the plan and the costs it may settle (`PlanAssumption`); the manifests of a release are
ones the loader accepts, their ceilings are natural numbers and no provider component is
named like one of the service's own (`ReleaseAssumption`: the code prefixes them with
`provider:`); the pinned bundle is one that loading accepts (`BundleAssumption`), requests
and environments are ones their contracts accept (`TaskAssumption`); the half-open limit is
at least the recovery threshold (`HealthAssumption`); shadow tasks are finitely many and the
actions of an experiment distinct, a generation and its V0 check first
(`ShadowAssumption`).

*Sums.* The library folds a sum in an order that CHOOSE picks, and the provers cannot
instantiate an induction principle. `SumTheorems` avoids both: a sum of natural numbers
over a finite set is the cardinality of its `Units`, one pair for each unit of each
element, and induction is by a minimal counterexample in the well-founded order of
subsets (`MinimalSubset`). What the components need follows: a sum changes by what one
element changes, is monotone, needs only its terms that are not zero (`SumSupport`), and is
the same when indices are paired off (`SumPaired`).

*Ledger.* The properties are about rows, but the code decides on what a transaction
*read*. The invariant therefore says that a transaction in progress holds
the lock (`LockExcludes`), that rows it has read are still the rows (`ReadsAreCurrent`),
and that the amount it carries is one its operation allows (`AmountsMatch`). From these, a
commit changes the rows exactly as a `Grant` or a `Settle` of `Allocation` does, or not at
all; the ceilings then follow from what one row adds to the two sums.

*Routing.* `Granted` is what a decision of the router says, whatever the plan it came
from: the model and effort are in the catalogue, no filter objects, and the reserve is part
of the worst case the budget was checked against. `CallPermitted` follows from the route
computed at the dispatch, in the environment of that moment, and `RoutedInv` carries the
rest from step to step: only what it says of the models changes in the environment
(`Steady`), funds stay natural, the current route is one the router granted, and a proposed
target lies in the direction its failure permits (`Directed`). That the later readings
return the same target, and not another feasible one, is why the direction survives a
change of health in between. Two theorems are about `route()` alone. A decision meets every
preferred floor that some certified candidate of its plan meets (`SurvivorExists`, used by
`NoPlannedRouteOverlooked`). And health takes exactly one obstacle from a candidate and
changes neither plan nor price (`OnlyHealthDiffers`), so a request refused for availability
is one that a fully available catalogue would route (`RejectionNamesObstacle`).

*Execution.* `IntentBeforeCall` is not inductive: it says nothing about the moment before
the call. `Inv` adds that before a dispatch the operation has not been called and
its funds are reserved (`BeforeCall`), that at the dispatch its intent is in the row
(`IntentStored`), that a row which does not exist has no records (`RowBlank`), that a
running execution has a task (`Owned`), and that the control state is coherent (`RunOK`).
`AcceptedKeepsRecords` carries the proof through journal replays: the repository never
accepts a revision that drops a record it has. Five invariants rest on `Inv`:

* `AccountInv` relates the program counter to what the task records of the operation and
  of the open attempt (`Tracked`), the task to the row it will next be compared with
  (`InStep`), and orders the reservations by id (`LedgerOK`). Every save then progresses
  in the sense of the repository, and an overrun is remembered until the task ends.
* `MoneyInv` is the balance. Until the authority has been unavailable, what the task
  accounts for is exactly what is debited (`Balanced`); after it, at least as much
  (`Covered`); and every stored or journaled revision covers the reservations it names up
  to their amounts (`SnapshotCovered`). The admission check compares the ceiling with that
  account, so a reservation stays under it (`WithinCeiling`).
* `BoundInv` gives each point of the program what the run may still reserve (`Left`): what
  is reserved and what is left never exceed the bound, a reservation takes one from what
  is left, and counting a generation, a retry or a recovery pays for what follows it. Its
  other half orders the tool calls by the steps of the plan (`ToolsPaced`): the first call
  of a step is on the tool itself, and a second is a replay, which `SafeToolCall` admits
  only where it is safe.
* `HeldInv` says that, until the authority has been unavailable, the task knows of every
  reservation and what it calls reserved is what the authority holds (`HeldOf`).
* `SoundInv` carries `SuccessIsSound` to the only save that stores a success. An execution
  that can still succeed is on its `Course`: at each point of the program the records
  since the last generation show exactly the checks that were passed (`Progressed`), the
  answer under verification is recorded (`Answered`), and every record but those of the
  operation and the attempt in progress is final and settled if and only if its cost is
  known (`Booked`). When the task completes, `Booked` and `HeldInv` make its reserved
  amount the estimates of the operations of unknown cost. An execution that stops, or
  that found the authority unavailable, is off the course and cannot succeed.

*Journal.* `RowFollowsOwner` needs that no line, in the file or in the hands of a
reconciliation, is ahead of the execution that wrote it (`Follows`).
`NothingLostSilently` needs what a pass is entitled to drop (`PassSafe`): the lines it
read are the whole file, nothing is appended under its guard, and each line it has passed
is kept or stored.

*Previews.* The properties say what a crash may leave behind, so they must hold at every
point; `Accounted` is their part about one submission. It is not inductive without
`Stage`, which says for each point of the program what record, reservation and number of
calls go with it. `UniqueKeys` is the only part about two submissions; it comes from the
unique constraint and not from the lock, which two allocations do not share.

*Health circuits.* `RecoveryBounded` is almost inductive. What it needs is that the set of
running probes is finite and that, of the circuit, only the counters matter: the proof
leaves open which failures are recorded (`CircuitShape`). A report may meet any state; the
argument is that every step that ends a recovery makes the probes of that recovery late, so
that they are never counted in the next.

*Shadow.* For each task, its phase says how far it is (`Progress`), what its calls have
cost (`Calls`) and what the authority holds for each action in both scopes (`RowsKept`),
but for the rows on which the authority itself has raised. `Books` is the table the service
keeps: a task's debit and the period's are its row sum and its grand total. The ceilings
cannot be part of that as they stand, since a charge may overrun its bound. What they do
cover is the part of each entry within its bound (`Capped`), which a reservation is checked
to fit into and a settlement never enlarges; what was really spent exceeds it only by
overruns, which is what `SpendWithinCaps` allows.

*Outbox.* A worker knows its lease from a clock it read before its transaction; another
worker's claim compares the row with a clock that is late as well. `LeasesAreRows` relates
the two: while a worker believes that it holds a pending event, the row names it as owner
and grants it at least as long. The refinement needs that what a client
acknowledges it has delivered (`AcksAreDone`, `DoneIsDelivered`) and that what it holds
was published (`HeldExist`); a row that is already finished when the second statement of
an acknowledgement writes it is a stutter of `Delivery`.

*Calibration.* `Inv` is the control of `run()` and its guard: when each of them has
stopped and which records may say completed. `Planned` follows the loops over cases,
strategies, attempts and grades: what the guard has counted and the priced calls that are
left stay within the bound that was reserved, so the guard never stops a run for want of
funds before a charge exceeds its own bound. `Bounded` gives the refinement its costs:
what a run settles is an amount the ledger accepts. The file has one row per run and
`Allocation` one per task and action; `SumPaired` equates the two sums.
`SettlementIsTrue` is about a runner that runs once, as the CLI does (section 5).

*Release.* An altered receipt stays recognisable because, but for the time put into it, it
is one that `activate` wrote (`ReceiptsWritten`); the hash `build_app` recomputes excludes
that one alteration, so a process holds a receipt as it was written and its allocation has
the ceilings of its release (`ProcessesBuilt`). `PreflightCovers` then reads the evidence
off an empty list of blockers: a live release needs a healthy provider or classifier, and
only evidence that has not expired names one. That the bound is strict holds because a paid
call is to an enabled model or to the classifier; a live release that has neither passes
preflight at the very moment its evidence expires, but has nothing to call, which the guard
of `Execute` says. For the money, what was paid, with what the call in progress has reserved
and overrun beyond its cost, is within the debits and the overruns (`Covered`). A call is
made only when its reservation fits, so at that moment the payments are within the ceiling
of the row and the overruns, and nothing pays at any other (`Capped`): the debits
themselves may exceed the ceiling after an overrun, which is why the bound is kept on the
payments. A canary's cap is compared with the ceiling when it starts. The snapshot of the
run in progress lacks the call in progress, or the classification it lost, and no other,
and has no overrun while its cases succeed (`InProgress`).

Only model-checked:

* the liveness properties `Recovers`, `ProductionDrains`, `RecoverableIsStored` and
  `EventuallyAcknowledged`: the prover does not handle ENABLED, so it cannot use fairness;
* `RejectionIsTruthful` and `NoPreferredRouteOverlooked` of `RoutedTask`. They are stated for
  the bundle of the run and not true of every bundle: a model may be disabled, a preferred
  floor may be attained by disabled models only, which is a configuration error, and a model
  above the floor may lack a known price or the funds of its required checks, which the
  second property ignores. `RejectionNamesObstacle` and
  `NoPlannedRouteOverlooked` are their general forms, with these cases as hypotheses. What
  the latter leaves to TLC is that the plan lists every enabled model within the limits: the
  plan is built by folds and selections over sequences, which is induction over data.

No theorem states the types of `HealthCircuit` and of `RoutedTask` (`CircuitTypeOK`,
`RoutedTypeOK`): the first bounds what `SelectSeq` returns and the second a power, the
back-off, both opaque to the provers. The inductive invariants carry as much of them as the
proofs need. Runs list no type invariants: they are stated for the reader and the proofs.

## 5. Where the code and its documentation disagree

`journal_gap` is the one disagreement with a run. Once a shadow save is deferred, a later
shadow save whose append fails has already taken a revision number, and
`ShadowService._callback` drops the error. The success is journaled with the number after
the missing one and can never be replayed, although `execute()` returned it and
`README.md:194` promises that reconciliation restores completion evidence.
`RecoverableIsStored` shows the promise kept wherever no append failed.

Other behaviours that modelling brought to light, for whoever changes this code:

* *Reconciliation.* `reconcile_pending` is documented to "retain only entries still
  failing" (`storage/repository.py:305`). Lines are replayed one by one and the file is
  rewritten at the end. If the process dies after replaying two revisions of one task, the
  next pass finds the row beyond the first of them, takes it for a conflict and keeps it,
  on every pass; readiness stays blocked on a line that is stored. Only tasks with
  deferred saves have two lines, which is why `ProductionDrains` holds.
* *Journal.* An append torn inside its line swallows the record appended after it,
  although `retain_pending` returned for that one. `NothingLostSilently` shows that this
  is the only way a retained revision is lost, and that the unparseable line stays and
  keeps readiness blocked.
* *Circuit.* `observe` says that general traffic cannot close an open circuit
  (`health/service.py:123`). When the circuit is half open and a probe is pending, any
  result is taken for the probe's. A probe that fails with a quality or budget failure is
  returned before it is counted and its admission is never given back; when it was the
  last one, the circuit is half open for good (`docs/health-audit.md:57` says that failed
  probes reopen it), which is why the probes of `circuit` have no such outcome.
* *Outbox.* `ack_outbox` on PostgreSQL reads the row without a lock (`repository.py:427`)
  and updates it later (`:440`); a lease taken over in between is acknowledged by its
  former holder. The event was delivered, so `Delivery` still holds.
* *Router.* When every model at or above a preferred floor is disabled in the catalogue,
  which loading accepts, `route()` raises `ConfigurationError` (`router.py:251`) rather
  than relaxing the floor (`docs/configuration.md:124`). And a fallback that recovery
  proposes (`escalation/recovery.py:286`) is refused whenever a preferred floor above it
  is attained by some other candidate.
* *Shadow.* `_run` ignores `validation_cost` (`shadow/service.py:447`): after a V0
  validator that raised, the reservation is held for an unknown cost and the record says 0.
* *Calibration.* A second `run()` on the same runner can settle the wrong amount. When the
  first was left by a `CalibrationStorageError` before its settlement, the second starts
  with empty call records (`runner.py:928`), is refused its authorization, which is given
  once, and `finish_run` then settles the reservation of the first at 0 (`runner.py:1064`),
  although unknown spend "deliberately holds its bound" (`calibration/live.py`). The CLI
  runs a runner once (`calibration/cli.py:151`), so this is a hypothesis of
  `SettlementIsTrue` and a bound of the run (`MaxInvocations`); with two invocations TLC
  finds the violation. All other properties of a calibration run are proved for any number
  of invocations. When the
  event that ends a call of unknown cost cannot be stored, the run goes on
  (`runner.py:426`, `:616`), against `docs/calibration-lab.md:74`;
  `UnknownStopsUnlessLost` is about the other case.
* *Release.* `service/release.py:6` speaks of refreshing readiness before admission, but
  only live calls repeat `check`. After a crash the last canary snapshot may call its cost
  complete with the task in progress missing; `ReportTruthful` bounds this to what one task
  reserves and its overrun.
* *Lost classification.* The classifier of the end-to-end canary has been called and paid
  when preflight stops passing: evidence expires, a file or a key changes.
  `orchestrator.py:671` reads the environment to price the call before it saves or charges
  it, and since the release's snapshot contains the result of `check` (`runtime.py:153`),
  it raises. `execute()` returns a BLOCKED task with a total and a known cost of 0, and
  `run_canaries` (`live.py:91-96`) writes `cost_complete: true` and a known spend without
  that call, where `docs/release-notes-v0.1.0-rc1.md:14` speaks of "exact cost accounting
  and fail-closed unknown-cost behavior". With `known = paid` in place of `known + lost =
  paid` in `ReportTruthful`, TLC finds this in `release`. As it stands the property says
  that nothing else can be missing from a report marked complete, that its status is then
  `failed`, and that a passed report is exact. The reservation stays, so
  `CanarySpendWithinCap` is not affected.

## 6. Not modelled

* `get`, telemetry, analytics, dashboard, reports: they read.
* Parsing, digests, schemas, prompts and provider wire formats, the phase 4 policy
  documents among them: data.
* Configuration loading beyond what it accepts, migrations, CLI: run once by an operator.
* The HTTP service: authentication, translation into the operations modelled here, and the
  request slots of `ReleaseService`, a semaphore around them.
* Offline calibration, and scoring and statistics over graded answers: no money moves.
* The in-memory budget authority of `execution/admission.py`: the SQL one is the shared
  one, and both meet the same `Allocation`.
* Several health scopes at once: the projection onto an environment is a pure function,
  and `RoutedTask` lets each model's observed health change freely.

## 7. Plan

Every safety property that a run checks is a theorem, but for the ones listed at the end of
section 4. What is left, most valuable first:

1. That `BuildCandidates` lists every enabled model within the limits, from lemmas on
   `FoldLeft` and `FlattenSeq` by a minimal counterexample, as `SumTheorems` has them for
   sums. `InOrder` needs what the standard `SelectSeq` returns, which the provers lack.
2. Several health scopes in one module, with the projection onto an environment.
3. The phase 4 policy and the HTTP slots of `ReleaseService`, should they come to keep state.
