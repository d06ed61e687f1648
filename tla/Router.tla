------------------------------- MODULE Router -------------------------------
(***************************************************************************)
(* route(): the deterministic choice of one model and effort for a request, *)
(* a classification and an environment snapshot.  Candidates are examined  *)
(* in plan order; each filter keeps a set of positions of the plan, and    *)
(* the first position that survives is selected.                           *)
(*                                                                         *)
(* An outcome is a decision, a rejection, or an error raised to the caller. *)
(***************************************************************************)
EXTENDS RoutingPolicy

CONSTANT ExcludedStates     \* policy.health.exclude_states

Decision(c, blockers, bound, needed, limits, floors) ==
    [kind |-> "decision", model |-> c.model, effort |-> c.effort, source |-> c.source,
     blockers |-> blockers, bound |-> bound, needed |-> needed, limits |-> limits,
     floors |-> floors]

Rejection(failure, constraints, retryable) ==
    [kind |-> "rejection", failure |-> failure, constraints |-> constraints,
     retryable |-> retryable]

Error(what) == [kind |-> "error", what |-> what]

Known(env, m) == m \in DOMAIN env.models

Verified(env, m) == Known(env, m) /\ env.models[m].access = "verified"

\* An absent observation excludes nothing: it leaves the account unknown.
NoHealthyPath(env, m) ==
    \/ ~Catalog[m].enabled
    \/ Known(env, m) /\ \/ env.models[m].state \in ExcludedStates
                        \/ ~env.models[m].usable
                        \/ env.models[m].access = "unavailable"

\* Evidence of a cache hit is not a guarantee: hit and miss must both fit.
\* The quotes of a candidate are the hit, followed by the miss when a hit is expected.
Quotes(req, m, env, val) ==
    <<EstimateCost(req, m, env, val)>>
      \o IF req.evidence /\ req.cached > 0
         THEN <<EstimateCost([req EXCEPT !.evidence = FALSE], m, env, val)>> ELSE <<>>

\* What the generation reserves: the dearer of the two.
QuotedBound(quotes) == Max({q.generation : q \in ToSet(quotes)})

\* What must fit before the generation is admitted: its reserve and the required work.
NeededFor(quotes) ==
    Max({q.known + QuotedBound(quotes) - q.generation : q \in ToSet(quotes)})

BudgetOf(quotes, limits, env) ==
    LET checks == {CheckBudget(q, limits, env) : q \in ToSet(quotes)}
    IN [violations |-> UNION {b.violations : b \in checks},
        blockers   |-> UNION {b.blockers : b \in checks}
                         \cup {x \in {"cache_miss_estimate_unavailable"} :
                                 Len(quotes) = 2 /\ quotes[2].unknown # {}}]

TierViolations(m, plan, limits) ==
    {v \in {"model_tier_floor"} : Rank(m) < Max({plan.hard, limits.floor, 0})}
      \cup {v \in {"model_tier_ceiling"} : limits.ceiling # None /\ Rank(m) > limits.ceiling}

Violations(req, m, env, quotes, limits, plan) ==
    CheckCapabilities(req, m)
      \cup TierViolations(m, plan, limits)
      \cup {v \in {"no_healthy_permitted_path"} : NoHealthyPath(env, m)}
      \cup BudgetOf(quotes, limits, env).violations

\* What keeps a feasible candidate from certifying its own price, funding and access.
CandidateBlockers(m, env, quotes, limits) ==
    (BudgetOf(quotes, limits, env).blockers
        \cap (FundingBlockers \cup {"cache_miss_estimate_unavailable"}))
      \cup quotes[1].unknown
      \cup {b \in {"account_unknown"} : ~Verified(env, m)}

\* The prerequisites of execution a preview may still lack.
ReadinessBlockers(req, m, env, val, quotes, limits) ==
    val.blockers \cup BudgetOf(quotes, limits, env).blockers
      \cup {b \in {"account_unknown"} : ~Verified(env, m)}
      \cup {b \in {"stale_snapshot"} : ~env.fresh}
      \cup {b \in {"recovery_unconfigured"} : ~env.recoveryBounded}
      \cup {b \in {"durable_retention_unavailable"} : ~env.durable}
      \cup {b \in {"health_snapshot_unversioned"} : ~env.versioned}
      \cup {b \in {"side_effect_execution_unconfigured"} : req.sideEffect}
      \cup {b \in {"period_budget_unverified"} : limits.spend # None}

BudgetKeys == {"task_cost_ceiling_usd", "remaining_budget", "model_tier_floor",
               "model_tier_ceiling"}

\* Availability blamed as soon as some candidate is unavailable.
UnroutableAny(removed) ==
    LET all == UNION removed
    IN IF "no_healthy_permitted_path" \in all
       THEN Rejection("PROVIDER_FAILURE", all, TRUE)
       ELSE Rejection("CAPABILITY_FAILURE", all, FALSE)

\* Availability explains a rejection only when nothing else is in the way.
Unroutable(removed) ==
    LET all == UNION removed
    IN IF {"no_healthy_permitted_path"} \in removed
       THEN Rejection("PROVIDER_FAILURE", all, TRUE)
       ELSE IF all \cap BudgetKeys # {}
       THEN Rejection("BUDGET_FAILURE", all, FALSE)
       ELSE Rejection("CAPABILITY_FAILURE", all, FALSE)

\* The recovery target was feasible for nobody, or was filtered out.
TargetRefused(constraints) ==
    IF constraints \cap {"remaining_budget", "task_cost_ceiling_usd", "model_tier_ceiling"} # {}
    THEN Rejection("BUDGET_FAILURE", constraints, FALSE)
    ELSE Rejection(IF "no_healthy_permitted_path" \in constraints
                   THEN "PROVIDER_FAILURE" ELSE "CAPABILITY_FAILURE", constraints, TRUE)

\* The plan, with the recovery target, when there is one and the policy did not list
\* it, appended.  Every caller passes no target or exactly one.
PlanFor(cls, limits, wanted) ==
    [BuildCandidates(cls, limits) EXCEPT !.candidates =
        @ \o SelectSeq(wanted, LAMBDA w : ~Listed(@, w.model, w.effort))]

PreferredFloors(plan) == {f.min : f \in {x \in plan.floors : x.strength = "preferred"}}

AttainedHardOnly(plan, kept) == plan.hard

\* The highest preferred floor that a surviving candidate meets, else the hard floor.
Attained(plan, kept) ==
    LET met == {f \in PreferredFloors(plan) :
                  \E i \in kept : Rank(plan.candidates[i].model) >= f}
    IN IF met = {} THEN plan.hard ELSE Max(met)

\* Which positions survive each filter, given what is in the way of each position.
Filtered(plan, violations, blockers) ==
    LET feasible  == {i \in DOMAIN violations : violations[i] = {}}
        certified == {i \in feasible : blockers[i] = {}}
        kept      == IF certified # {} THEN certified ELSE feasible
        attained  == Attained(plan, kept)
    IN [feasible |-> feasible,
        removed  |-> [i \in DOMAIN violations \ kept |->
                        IF i \in feasible THEN blockers[i] ELSE violations[i]],
        attained |-> attained,
        kept     |-> {i \in kept : Rank(plan.candidates[i].model) >= attained},
        waived   |-> {f \in PreferredFloors(plan) : f > attained}]

\* The examination of a plan, candidate by candidate, with the quotes of each.
Examine(req, env, quotes, limits, plan) ==
    LET at(i) == plan.candidates[i].model
    IN Filtered(plan,
                [i \in DOMAIN quotes |-> Violations(req, at(i), env, quotes[i], limits, plan)],
                [i \in DOMAIN quotes |-> CandidateBlockers(at(i), env, quotes[i], limits)])

\* Waiving a preferred floor needs evidence of what stood in the way.
WaiverUnexplained(x, plan, limits) ==
    /\ x.waived # {}
    /\ \A i \in DOMAIN x.removed : Rank(plan.candidates[i].model) > x.attained => x.removed[i] = {}
    /\ limits.ceiling # None => plan.preferred <= limits.ceiling

\* Fallbacks are a last resort; within a group a healthy model comes first.
FirstOf(positions, env, plan, primaryFirst) ==
    LET primary == {i \in positions : plan.candidates[i].source # "fallback"}
        pool    == IF primaryFirst /\ primary # {} THEN primary ELSE positions
        healthy == {i \in pool : LET m == plan.candidates[i].model IN
                        Known(env, m) /\ env.models[m].state = "HEALTHY"}
    IN Min(IF healthy # {} THEN healthy ELSE pool)

InputInvalid(req, cls, env, wanted) ==
    \/ ~(DOMAIN env.models \subseteq Aliases)
    \/ LimitsInvalid(req, env)
    \/ ClassificationInvalid(cls)
    \/ \E w \in ToSet(wanted) : w.model \notin Aliases \/ ~Supports(w.model, w.effort)

\* The selected position: its readiness, its reserve and what it needs.
Selected(i, req, env, val, quotes, limits, plan) ==
    LET c == plan.candidates[i]
    IN Decision(c, ReadinessBlockers(req, c.model, env, val, quotes[i], limits),
                QuotedBound(quotes[i]), NeededFor(quotes[i]), limits, plan.floors)

\* What the examination x of the plan leads to.
Conclude(req, env, wanted, val, quotes, limits, plan, x) ==
    LET wants(i) == Listed(wanted, plan.candidates[i].model, plan.candidates[i].effort)
        targets  == {i \in x.kept : wants(i)}
    IN IF x.feasible = {} THEN Unroutable({x.removed[i] : i \in DOMAIN x.removed})
       ELSE IF WaiverUnexplained(x, plan, limits) THEN Error("ConfigurationError")
       ELSE IF wanted # <<>> /\ targets = {}
         THEN TargetRefused(UNION {x.removed[i] : i \in {j \in DOMAIN x.removed : wants(j)}})
       ELSE Selected(FirstOf(IF wanted = <<>> THEN x.kept ELSE targets, env, plan, wanted = <<>>),
                     req, env, val, quotes, limits, plan)

RouteQuoted(req, env, wanted, val, quotes, limits, plan) ==
    Conclude(req, env, wanted, val, quotes, limits, plan,
             Examine(req, env, quotes, limits, plan))

\* A candidate is looked up in the catalog (without an entry it raises a KeyError, here
\* the same error) and must have its effort there.
PlanUnsupported(plan) ==
    \E i \in 1..Len(plan.candidates) :
        LET c == plan.candidates[i] IN c.model \notin Aliases \/ ~Supports(c.model, c.effort)

RoutePlan(req, env, wanted, val, limits, plan) ==
    IF limits.ceiling # None /\ plan.hard > limits.ceiling
    THEN Rejection("BUDGET_FAILURE", {"hard_floor_vs_ceiling"}, FALSE)
    ELSE IF PlanUnsupported(plan) THEN Error("ConfigurationError")
    ELSE RouteQuoted(req, env, wanted, val,
                     [i \in 1..Len(plan.candidates) |->
                        Quotes(req, plan.candidates[i].model, env, val)], limits, plan)

RouteWithin(req, cls, env, wanted, limits) ==
    IF None \notin {limits.floor, limits.ceiling} /\ limits.floor > limits.ceiling
    THEN Rejection("BUDGET_FAILURE", {"floor_vs_ceiling"}, FALSE)
    ELSE RoutePlan(req, env, wanted, DetermineValidation(req, env), limits,
                   PlanFor(cls, limits, wanted))

Route(req, cls, env, wanted) ==
    IF InputInvalid(req, cls, env, wanted) THEN Error("InputError")
    ELSE IF \A m \in Aliases : CheckCapabilities(req, m) # {}
      THEN Rejection("CAPABILITY_FAILURE",
                     UNION {CheckCapabilities(req, m) : m \in Aliases}, FALSE)
    ELSE RouteWithin(req, cls, env, wanted, ResolveLimits(req, env))
=============================================================================
