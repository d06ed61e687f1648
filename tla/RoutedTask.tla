----------------------------- MODULE RoutedTask -----------------------------
(***************************************************************************)
(* A task as the router and the recovery policy see it: a route is         *)
(* selected, checked again when its call is dispatched, and after a failed *)
(* attempt replaced by what choose_recovery proposes and the router grants. *)
(* The environment is read anew at every step, and health, account access  *)
(* and usability of any model may have changed since the last reading.     *)
(*                                                                         *)
(* Records, saves and the ledger are Execution's; tool calls too.          *)
(***************************************************************************)
EXTENDS Router

CONSTANTS
    Cases,              \* the requests and classifications: [req, cls]
    Baseline,           \* the environment before anything changed
    HealthViews,        \* the health a model may be observed in
    Failures,           \* the ways an attempt may fail
    Discharged,         \* readiness blockers this deployment discharges
    MaxGenerations, MaxEscalations, MaxRetries,
    MaxElapsed, InitialBackoff, MaxBackoff,
    Funds,              \* what the authority holds for the task
    MaxChanges          \* bound on the number of health changes

\* UNHEALTHY is the only state a policy may exclude, and must.
HealthConfigured == ExcludedStates = {"UNHEALTHY"}

\* An active policy configures finite counters and an ordered back-off.
RecoveryConfigured ==
    /\ MaxGenerations \in Nat \ {0} /\ MaxElapsed \in Nat \ {0}
    /\ MaxEscalations \in Nat /\ MaxRetries \in Nat
    /\ InitialBackoff \in Nat \ {0} /\ MaxBackoff \in Nat /\ InitialBackoff <= MaxBackoff

\* The composition discharges these placeholders of a preview, and no other.
Dischargeable == {"period_budget_unverified", "side_effect_execution_unconfigured"}

ASSUME TaskAssumption ==
    /\ HealthConfigured /\ RecoveryConfigured
    /\ \A c \in Cases : RequestValid(c.req)
    /\ EnvironmentValid(Baseline) /\ HealthViews \subseteq ModelHealth
    /\ Discharged \subseteq Dischargeable
    /\ Funds \in Nat

VARIABLES
    task,       \* the case
    env,        \* the environment as it is now, funds excepted
    funds,      \* what remains with the authority
    elapsed,
    counters,
    route,      \* the current decision
    failure,    \* what the last attempt failed with
    proposal,   \* what recovery proposed
    pc,
    changes

routedVars == <<task, env, funds, elapsed, counters, route, failure, proposal, pc, changes>>

Ended == {"succeeded", "stopped", "blocked", "raised"}

NoRoute == [kind |-> "none"]
NoFailure == [type |-> "none", retryable |-> FALSE, after |-> None, validated |-> FALSE]
NoProposal == [action |-> "none", target |-> <<>>, backoff |-> 0]

\* One type invariant: the scalars and the phase; the outcome records are Router's.
RoutedTypeOK ==
    /\ task \in Cases
    /\ env.models \in [Aliases -> HealthViews]
    /\ funds \in 0..Funds
    /\ elapsed \in Nat
    /\ counters \in [generations : 0..MaxGenerations, escalations : 0..MaxEscalations,
                     retries : 0..MaxRetries]
    /\ route.kind \in {"none", "decision"}
    /\ failure \in Failures \cup {NoFailure}
                    \cup [type : {"BUDGET_FAILURE", "CAPABILITY_FAILURE", "PROVIDER_FAILURE"},
                          retryable : {FALSE}, after : {None}, validated : {FALSE}]
    /\ pc \in Ended \cup {"new", "routed", "admitted", "called", "failed", "trial",
                      "reselect"}
    /\ changes \in 0..MaxChanges

Now(amount) == [env EXCEPT !.remaining = amount]

Target(d) == <<[model |-> d.model, effort |-> d.effort, source |-> "fallback"]>>

Ready(d) == d.kind = "decision" /\ d.blockers \subseteq Discharged

-----------------------------------------------------------------------------
\* The recovery policy.

PreferredEffort(m) == InOrder(m, Preference)[1]

\* The next effort that the prior lists in its first entry for the current model.
NextPriorEffort(d) ==
    LET order  == Catalog[d.model].efforts
        listed == SelectSeq(Band(Total(task.cls)).candidates, LAMBDA e : e.model = d.model)
        here   == Min({i \in 1..Len(order) : order[i] = d.effort})
        later  == {i \in (here + 1)..Len(order) :
                     listed # <<>> /\ order[i] \in ToSet(listed[1].efforts)}
    IN IF later = {} THEN <<>> ELSE Target([model |-> d.model, effort |-> order[Min(later)]])

NextTierTarget(d) ==
    LET higher == {m \in Enabled : Rank(m) > Rank(d.model)}
        next   == CHOOSE m \in higher : \A n \in higher : Rank(m) <= Rank(n)
    IN IF higher = {} THEN <<>>
       ELSE Target([model |-> next, effort |-> PreferredEffort(next)])

MinimumPermittedRank(d) ==
    Max({0, d.limits.floor} \cup {f.min : f \in {x \in d.floors : x.strength = "hard"}})

HealthyFallbackAnyTier(d) ==
    LET other == {m \in Enabled \ {d.model} :
                    Known(env, m) /\ env.models[m].usable
                      /\ env.models[m].state \notin ExcludedStates}
        best  == CHOOSE m \in other : \A n \in other : Rank(m) >= Rank(n)
    IN IF other = {} THEN <<>> ELSE Target([model |-> best, effort |-> PreferredEffort(best)])

\* The highest usable model of the same or a lower tier that the hard floors permit.
HealthyFallback(d) ==
    LET other == {m \in Enabled \ {d.model} :
                    /\ MinimumPermittedRank(d) <= Rank(m) /\ Rank(m) <= Rank(d.model)
                    /\ Known(env, m) /\ env.models[m].usable
                    /\ env.models[m].state \notin ExcludedStates}
        best  == CHOOSE m \in other : \A n \in other : Rank(m) >= Rank(n)
    IN IF other = {} THEN <<>>
       ELSE Target([model |-> best,
                    effort |-> IF Supports(best, d.effort) THEN d.effort ELSE PreferredEffort(best)])

Backoff ==
    LET doubled == IF 0 \in {InitialBackoff, MaxBackoff} THEN 0
                   ELSE Min({InitialBackoff * 2^counters.retries, MaxBackoff})
    IN Max({doubled, failure.after})

Stop(action) == [action |-> action, target |-> <<>>, backoff |-> 0]

Propose(action, target) == [action |-> action, target |-> target, backoff |-> 0]

QualityRecovery(d) ==
    IF counters.generations >= MaxGenerations \/ counters.escalations >= MaxEscalations
    THEN Stop("stop_attempts")
    ELSE IF NextPriorEffort(d) # <<>> THEN Propose("increase_effort", NextPriorEffort(d))
    ELSE IF NextTierTarget(d) # <<>> THEN Propose("increase_tier", NextTierTarget(d))
    ELSE Stop("stop")

Impaired(m) == Known(env, m) /\ (~env.models[m].usable
                                   \/ env.models[m].state \in {"DEGRADED", "UNHEALTHY"})

Unusable(m) == Known(env, m) /\ (~env.models[m].usable \/ env.models[m].state = "UNHEALTHY")

InfrastructureRecovery(d) ==
    IF counters.generations >= MaxGenerations \/ counters.retries >= MaxRetries
    THEN Stop("stop_attempts")
    ELSE IF Impaired(d.model) /\ HealthyFallback(d) # <<>>
    THEN Propose("health_aware_fallback", HealthyFallback(d))
    ELSE IF Unusable(d.model) \/ ~failure.retryable \/ failure.after > MaxBackoff
    THEN Stop("recoverable_failure")
    ELSE IF elapsed + Backoff >= MaxElapsed THEN Stop("stop_deadline")
    ELSE [action |-> "retry_backoff", target |-> Target(d), backoff |-> Backoff]

\* Only a confirmed quality failure is escalated; everything unclear is diagnosed.
ChooseRecovery(d) ==
    IF failure.type = "QUALITY_FAILURE" /\ ~failure.validated THEN Stop("diagnose")
    ELSE IF failure.type \in {"BUDGET_FAILURE", "CAPABILITY_FAILURE"} THEN Stop("stop")
    ELSE IF funds <= 0 THEN Stop("stop_budget")
    ELSE IF elapsed >= MaxElapsed THEN Stop("stop_deadline")
    ELSE CASE failure.type = "QUALITY_FAILURE" -> QualityRecovery(d)
           [] failure.type \in {"TIMEOUT", "RATE_LIMIT", "PROVIDER_FAILURE"} ->
                InfrastructureRecovery(d)
           [] OTHER -> Stop("diagnose")

-----------------------------------------------------------------------------
\* The steps of the task.

RoutedInit ==
    /\ task \in Cases
    /\ env = Baseline
    /\ funds = Funds
    /\ elapsed = 0
    /\ counters = [generations |-> 0, escalations |-> 0, retries |-> 0]
    /\ route = NoRoute /\ failure = NoFailure /\ proposal = NoProposal
    /\ pc = "new"
    /\ changes = 0

\* The health of a model is observed anew.
Observe(m, view) ==
    /\ pc \notin Ended
    /\ changes < MaxChanges
    /\ view # env.models[m]
    /\ env' = [env EXCEPT !.models[m] = view]
    /\ changes' = changes + 1
    /\ UNCHANGED <<task, funds, elapsed, counters, route, failure, proposal, pc>>

\* What becomes of the task when the router answers r.
Answered(r) == CASE r.kind = "decision"  -> "routed"
                 [] r.kind = "rejection" -> "stopped"
                 [] r.kind = "error"     -> "raised"

Taken(r) == IF r.kind = "decision" THEN r ELSE route

Select ==
    /\ pc = "new"
    /\ \E r \in {Route(task.req, task.cls, Now(funds), <<>>)} :
        /\ pc' = Answered(r)
        /\ route' = Taken(r)
    /\ UNCHANGED <<task, env, funds, elapsed, counters, failure, proposal, changes>>

\* The loop head and admission: a route that is not ready, or that the remaining
\* time, attempts or funds do not admit, blocks the task.
Admissible ==
    /\ Ready(route)
    /\ elapsed < MaxElapsed
    /\ counters.generations < MaxGenerations
    /\ route.needed <= funds

Block ==
    /\ pc = "routed" /\ ~Admissible
    /\ pc' = "blocked"
    /\ UNCHANGED <<task, env, funds, elapsed, counters, route, failure, proposal, changes>>

Admit ==
    /\ pc = "routed" /\ Admissible
    /\ funds' = funds - route.bound
    /\ counters' = [counters EXCEPT !.generations = @ + 1]
    /\ pc' = "admitted"
    /\ UNCHANGED <<task, env, elapsed, route, failure, proposal, changes>>

\* Just before the call the same target is routed again in the environment as it is.
Refreshed == Route(task.req, task.cls, Now(funds + route.bound), Target(route))

DispatchUnchecked ==
    /\ pc = "admitted"
    /\ pc' = "called"
    /\ UNCHANGED <<task, env, funds, elapsed, counters, route, failure, proposal, changes>>

Dispatch ==
    /\ pc = "admitted" /\ Ready(Refreshed)
    /\ pc' = "called"
    /\ UNCHANGED <<task, env, funds, elapsed, counters, route, failure, proposal, changes>>

Withdraw ==
    /\ pc = "admitted"
    /\ \E r \in {Refreshed} :
        /\ ~Ready(r)
        /\ \/ r.kind = "error" /\ pc' = "raised" /\ UNCHANGED failure
           \/ /\ r.kind # "error" /\ pc' = "failed"
              /\ failure' = [NoFailure EXCEPT !.type =
                    IF r.kind = "rejection" THEN r.failure ELSE "CAPABILITY_FAILURE"]
    /\ funds' = funds + route.bound
    /\ UNCHANGED <<task, env, elapsed, counters, route, proposal, changes>>

Settled(actual) == /\ funds' = funds + route.bound - actual
                   /\ elapsed' = elapsed + 1

Succeed ==
    /\ pc = "called"
    /\ Settled(route.bound)
    /\ pc' = "succeeded"
    /\ UNCHANGED <<task, env, counters, route, failure, proposal, changes>>

Fail(f, billed) ==
    /\ pc = "called"
    /\ Settled(IF billed THEN route.bound ELSE 0)
    /\ failure' = f
    /\ pc' = "failed"
    /\ UNCHANGED <<task, env, counters, route, proposal, changes>>

Retries == {"increase_effort", "increase_tier", "retry_backoff", "health_aware_fallback"}

\* A proposal of another attempt sleeps out its back-off; anything else ends the task.
Recover ==
    /\ pc = "failed"
    /\ \E a \in {ChooseRecovery(route)} :
        /\ proposal' = a
        /\ elapsed' = elapsed + a.backoff
        /\ pc' = IF a.action \in Retries THEN "trial" ELSE "stopped"
    /\ UNCHANGED <<task, env, funds, counters, route, failure, changes>>

\* After the back-off the proposal counts only if the router grants its target.
Try ==
    /\ pc = "trial"
    /\ \E next \in {Route(task.req, task.cls, Now(funds), proposal.target)} :
        /\ pc' = IF next.kind = "error" THEN "raised"
                 ELSE IF Ready(next) THEN "reselect" ELSE "stopped"
        /\ counters' =
              IF ~Ready(next) THEN counters
              ELSE IF proposal.action \in {"increase_effort", "increase_tier"}
              THEN [counters EXCEPT !.escalations = @ + 1]
              ELSE [counters EXCEPT !.retries = @ + 1]
    /\ UNCHANGED <<task, env, funds, elapsed, route, failure, proposal, changes>>

\* The granted target is selected in one more reading of the environment.
Reselect ==
    /\ pc = "reselect"
    /\ \E r \in {Route(task.req, task.cls, Now(funds), proposal.target)} :
        /\ pc' = Answered(r)
        /\ route' = Taken(r)
    /\ UNCHANGED <<task, env, funds, elapsed, counters, failure, proposal, changes>>

Finished == pc \in Ended /\ UNCHANGED routedVars

RoutedNext ==
    \/ \E m \in Aliases, view \in HealthViews : Observe(m, view)
    \/ Select \/ Block \/ Admit \/ Dispatch \/ Withdraw \/ Succeed
    \/ \E f \in Failures, billed \in BOOLEAN : Fail(f, billed)
    \/ Recover \/ Try \/ Reselect
    \/ Finished

RoutedSpec == RoutedInit /\ [][RoutedNext]_routedVars

-----------------------------------------------------------------------------
\* What the hard constraints demand of a model, from the policy and the catalog alone.
HardFloors == {r.min : r \in {x \in Matched(Floors, task.cls) : x.strength = "hard"}}

Affordable(m, amount) ==
    LET val    == DetermineValidation(task.req, Now(amount))
        limits == ResolveLimits(task.req, Now(amount))
    IN \A q \in ToSet(Quotes(task.req, m, Now(amount), val)) :
        /\ limits.cost # None => q.known <= limits.cost
        /\ q.generation <= amount

Lawful(m, amount) ==
    LET limits == ResolveLimits(task.req, Now(amount)) IN
    /\ CheckCapabilities(task.req, m) = {}
    /\ \A f \in HardFloors : Rank(m) >= f
    /\ WithinLimits(m, limits)
    /\ Affordable(m, amount)

\* No provider call is made, on the first route or after any number of recoveries
\* and changes of health, on a model that lacks a capability, is below a hard floor
\* or the caller's floor, above the ceiling, unaffordable, excluded or unverified
\* in the environment at the call.
CallPermitted ==
    [][pc = "admitted" /\ pc' = "called" =>
          /\ Lawful(route.model, funds + route.bound)
          /\ ~NoHealthyPath(env, route.model) /\ Verified(env, route.model)]_routedVars

Later(d, e) == \E i, j \in 1..Len(Catalog[d.model].efforts) :
                  /\ i < j
                  /\ Catalog[d.model].efforts[i] = d.effort /\ Catalog[d.model].efforts[j] = e.effort

\* Recovery moves in one direction: a validated quality failure leads to a later
\* effort of the same model or to a higher tier, an infrastructure failure never to
\* a higher tier.
RecoveryDirection ==
    [][pc = "reselect" /\ pc' = "routed" =>
          IF failure.type = "QUALITY_FAILURE"
          THEN \/ Rank(route'.model) > Rank(route.model)
               \/ route'.model = route.model /\ Later(route, route')
          ELSE Rank(route'.model) <= Rank(route.model)]_routedVars

AllHealthy == [env EXCEPT !.models =
    [m \in Aliases |-> [state |-> "HEALTHY", access |-> "verified", usable |-> TRUE]],
    !.remaining = funds]

\* A rejection names the true obstacle: with every model healthy the request would be
\* routed if, and only if, the rejection blames availability.
RejectionIsTruthful ==
    pc = "new" =>
        \A r \in {Route(task.req, task.cls, Now(funds), <<>>)},
           h \in {Route(task.req, task.cls, AllHealthy, <<>>)} :
            r.kind = "rejection" =>
                (r.failure = "PROVIDER_FAILURE") = (h.kind = "decision")

\* The first route passes over a preferred floor only if no enabled model of the
\* whole catalog at or above that floor is lawful, usable and certified.
NoPreferredRouteOverlooked ==
    pc = "new" =>
        \A r \in {Route(task.req, task.cls, Now(funds), <<>>)} :
          r.kind = "decision" =>
            \A f \in FloorEvidence(task.cls) :
                f.min > Rank(r.model) =>
                    \A m \in Enabled :
                        Rank(m) >= f.min =>
                            \/ ~Lawful(m, funds)
                            \/ NoHealthyPath(env, m)
                            \/ ~Verified(env, m)
=============================================================================
