---------------------------- MODULE RoutingPolicy ----------------------------
(***************************************************************************)
(* The policy operators the router is built from: limit overlays,          *)
(* capability checks, required validation, cost quotes, budget             *)
(* feasibility and the ordered candidate plan.  The pinned bundle (catalog, *)
(* routing policy, budgets, validation) is a parameter; TLC evaluates the  *)
(* assumption below, which is what configuration loading accepts.          *)
(*                                                                         *)
(* Absent values (null) are None.  Charges are in the catalog's unit.      *)
(***************************************************************************)
EXTENDS Integers, Sequences, FiniteSets, SequencesExt

CONSTANTS
    Catalog,        \* alias -> rank, enabled, efforts, capabilities, window, output, price
    Families,       \* task families
    Components,     \* complexity component -> [min, max]
    Bands,          \* sequence of [min, max, candidates]
    Floors,         \* sequence of [match, strength, min]
    Modifiers,      \* sequence of [match, add, preferred]
    Preference,     \* floor_candidate_effort_preference
    Profiles,       \* validation profile -> base, semantic, evaluator, domain, validator
    DefaultProfile,
    Evaluators,     \* the evaluator bindings that are enabled
    Consequences,   \* consequence -> profile, approval, clearance
    Defaults,       \* default limits
    Applications    \* trusted application -> limits

None == -1

Optional == Nat \cup {None}

Aliases == DOMAIN Catalog

Rank(m) == Catalog[m].rank

Enabled == {m \in Aliases : Catalog[m].enabled}

MinRank == Min({Rank(m) : m \in Aliases})

Supports(m, effort) == effort \in ToSet(Catalog[m].efforts)

\* Configuration loading: what a bundle must satisfy before it is pinned.
Ranks == {Rank(m) : m \in Aliases}

TotalMin == MapThenSumSet(LAMBDA c : Components[c].min, DOMAIN Components)
TotalMax == MapThenSumSet(LAMBDA c : Components[c].max, DOMAIN Components)

Prices == [input : Optional, cached : Optional, write : Optional, output : Optional,
           threshold : Optional, longInput : Optional, longOutput : Optional,
           longCached : Optional, longWrite : Optional]

CatalogValid ==
    /\ Aliases # {} /\ IsFiniteSet(Aliases)
    /\ \A m, n \in Aliases : Rank(m) = Rank(n) => m = n
    /\ \A m \in Aliases : /\ Rank(m) \in Nat /\ Catalog[m].price \in Prices
                          /\ Catalog[m].efforts \in Seq(STRING)
                          /\ Catalog[m].efforts # <<>> /\ IsInjective(Catalog[m].efforts)
                          /\ Catalog[m].output <= Catalog[m].window

\* Every enabled model has an effort a floor, a fallback or a recovery can select.
EffortsDerivable ==
    /\ Preference # <<>> /\ IsInjective(Preference)
    /\ \A m \in Enabled : ToSet(Preference) \cap ToSet(Catalog[m].efforts) # {}

EntriesValid(entries) ==
    \A e \in ToSet(entries) : /\ e.model \in Aliases
                              /\ e.efforts # <<>> /\ IsInjective(e.efforts)
                              /\ \A x \in ToSet(e.efforts) : Supports(e.model, x)

TiersKnown ==
    /\ \A b \in ToSet(Bands) : EntriesValid(b.candidates)
    /\ \A r \in ToSet(Modifiers) : EntriesValid(r.add) /\ r.preferred \in Ranks \cup {None}
    /\ \A r \in ToSet(Floors) : r.min \in Ranks

BandsPartition ==
    /\ Bands # <<>> /\ Bands[1].min = TotalMin /\ Bands[Len(Bands)].max = TotalMax
    /\ \A i \in 1..Len(Bands) : /\ Bands[i].min <= Bands[i].max
                                /\ Bands[i].candidates # <<>>
                                /\ i > 1 => Bands[i].min = Bands[i - 1].max + 1

MatchValid(match) ==
    /\ match.families # {} \/ match.flags # {} \/ match.complexity # None
         \/ DOMAIN match.components # {}
    /\ match.families \subseteq Families
    /\ match.complexity # None => match.complexity \in TotalMin..TotalMax
    /\ \A c \in DOMAIN match.components :
        c \in DOMAIN Components /\ match.components[c] \in Components[c].min..Components[c].max

\* A modifier has one effect: candidates, a preferred floor, or an annotation only.
RulesValid ==
    /\ \A r \in ToSet(Floors) : MatchValid(r.match)
    /\ \A r \in ToSet(Modifiers) : MatchValid(r.match) /\ (r.add = <<>> \/ r.preferred = None)

LimitFields == {"floor", "ceiling", "cost", "deadline", "spend", "period", "live"}

Limits == [LimitFields -> Optional]

\* The default limits as an application's overlay leaves them; None is below every limit.
WithDefault(overlay, f) == IF overlay[f] = None THEN Defaults[f] ELSE overlay[f]

PeriodsPaired ==
    /\ (Defaults.spend = None) = (Defaults.period = None)
    /\ \A a \in DOMAIN Applications :
        (WithDefault(Applications[a], "spend") = None) = (WithDefault(Applications[a], "period") = None)

LimitsOrdered ==
    /\ Defaults \in Limits /\ \A a \in DOMAIN Applications : Applications[a] \in Limits
    /\ {Defaults.floor, Defaults.ceiling} \subseteq Ranks
    /\ Defaults.floor <= Defaults.ceiling
    /\ \A a \in DOMAIN Applications :
        LET o == Applications[a] IN
            /\ {o.floor, o.ceiling} \subseteq Ranks \cup {None}
            /\ Max({Defaults.floor, o.floor}) <= Min({Defaults.ceiling, WithDefault(o, "ceiling")})

\* Profile 0 is deterministic, 1 and 2 are semantic, 3 is the application's domain; a
\* profile builds on no stronger one and on no cycle.
ValidationValid ==
    /\ DOMAIN Profiles = 0..3 /\ DefaultProfile \in 0..3
    /\ DOMAIN Consequences = {"low", "moderate", "high", "critical"}
    /\ \A c \in DOMAIN Consequences : Consequences[c].profile \in 0..3
    /\ \A p \in 0..3 :
        /\ Profiles[p].base \in (IF p = 0 THEN {None} ELSE 0..(p - 1))
        /\ Profiles[p].semantic \in (IF p = 3 THEN {None, 1, 2} ELSE {None})
        /\ (Profiles[p].evaluator # "none") = (p \in {1, 2})
        /\ Profiles[p].domain = (p = 3) /\ ~Profiles[p].validator

\* An active policy that enables live execution bounds the cost and time of a task and
\* prices what it may select.
LiveIsBounded ==
    Defaults.live = 1 =>
        /\ None \notin {Defaults.cost, Defaults.deadline}
        /\ \A m \in Enabled : Defaults.floor <= Rank(m) /\ Rank(m) <= Defaults.ceiling =>
              None \notin {Catalog[m].price.input, Catalog[m].price.output}

ASSUME BundleAssumption ==
    /\ CatalogValid /\ EffortsDerivable /\ BandsPartition /\ TiersKnown /\ RulesValid
    /\ PeriodsPaired /\ LimitsOrdered /\ ValidationValid /\ LiveIsBounded

\* What the contracts of a request and of an environment snapshot accept.
Requests ==
    [requirements : SUBSET STRING, input : Nat, output : Nat, cached : Nat, written : Nat,
     evidence : BOOLEAN, sideEffect : BOOLEAN, approved : BOOLEAN, cleared : BOOLEAN,
     consequence : DOMAIN Consequences, validation : DOMAIN Profiles \cup {None},
     constraints : Limits]

RequestValid(req) ==
    /\ req \in Requests
    /\ req.requirements # {}
    /\ req.cached + req.written <= req.input

ModelHealth == [state : {"HEALTHY", "DEGRADED", "UNHEALTHY"},
                access : {"verified", "unknown", "unavailable"}, usable : BOOLEAN]

Environments(models) ==
    [synthetic : BOOLEAN, application : STRING, budget : Limits, overlay : Limits,
     validation : DOMAIN Profiles \cup {None}, mocks : SUBSET DOMAIN Profiles,
     evaluatorCost : Optional, domainCost : Optional, toolCharge : BOOLEAN,
     toolCost : Optional, minimumAction : Optional, remaining : Optional, fresh : BOOLEAN,
     recoveryBounded : BOOLEAN, durable : BOOLEAN, versioned : BOOLEAN, models : {models}]

EnvironmentValid(env) ==
    /\ env \in Environments(env.models)
    /\ env.mocks # {} => env.synthetic
    /\ \A m \in DOMAIN env.models : env.models[m] \in ModelHealth

-----------------------------------------------------------------------------
\* Limits.  live_execution_enabled is 0, 1 or None: "current and overlay" is a minimum.

NoLimits == [f \in LimitFields |-> None]

ReplacePresent(base, overlay) ==
    [f \in LimitFields |-> IF overlay[f] = None THEN base[f] ELSE overlay[f]]

\* A tightening overlay: floors combine by maximum, everything else by minimum.
Tighten(base, overlay) ==
    [f \in LimitFields |->
        IF None \in {base[f], overlay[f]} THEN Max({base[f], overlay[f]})
        ELSE IF f = "floor" THEN Max({base[f], overlay[f]})
        ELSE Min({base[f], overlay[f]})]

PeriodChanges(base, overlay) ==
    None \notin {base.period, overlay.period} /\ base.period # overlay.period

\* The overlays applied in order: application, environment, caller.
Overlays(req, env) ==
    <<IF env.application \in DOMAIN Applications THEN Applications[env.application]
                                                 ELSE NoLimits,
      env.overlay, req.constraints>>

DeploymentLimits(env) ==
    IF env.synthetic THEN ReplacePresent(Defaults, env.budget) ELSE Tighten(Defaults, env.budget)

ResolveLimits(req, env) ==
    LET o == Overlays(req, env)
    IN Tighten(Tighten(Tighten(DeploymentLimits(env), o[1]), o[2]), o[3])

\* A changed period, or a period without its spend ceiling, is an InputError.
LimitsInvalid(req, env) ==
    LET o == Overlays(req, env)
        before(i) == FoldLeft(Tighten, DeploymentLimits(env), SubSeq(o, 1, i - 1))
        final == ResolveLimits(req, env)
    IN \/ ~env.synthetic /\ PeriodChanges(Defaults, env.budget)
       \/ \E i \in 1..Len(o) : PeriodChanges(before(i), o[i])
       \/ (final.spend = None) # (final.period = None)

-----------------------------------------------------------------------------
\* Capabilities and physical context.
CheckCapabilities(req, m) ==
    (req.requirements \ Catalog[m].capabilities)
      \cup {v \in {"output_allowance"} : req.output > Catalog[m].output}
      \cup {v \in {"combined_context"} : req.input + req.output > Catalog[m].window}

-----------------------------------------------------------------------------
\* Required validation.  Levels are 0..3; visiting a profile visits what it builds on.
Requires(p) == {Profiles[p].base, Profiles[p].semantic} \ {None}

Visited(S) ==
    {p \in DOMAIN Profiles :
        \A T \in SUBSET DOMAIN Profiles :
            S \subseteq T /\ (\A q \in T : Requires(q) \subseteq T) => p \in T}

DetermineValidation(req, env) ==
    LET c         == Consequences[req.consequence]
        requested == {DefaultProfile, c.profile, req.validation, env.validation} \ {None}
        profiles  == Visited(requested)
        mocked(p) == env.synthetic /\ p \in env.mocks
        evaluated == {p \in profiles : Profiles[p].evaluator # "none"}
    IN [level      |-> Max(requested),
        profiles   |-> profiles,
        evaluators |-> {Profiles[p].evaluator : p \in evaluated},
        blockers   |->
            {b \in {"evaluator_unconfigured"} :
                \E p \in evaluated : ~mocked(p) /\ Profiles[p].evaluator \notin Evaluators}
            \cup {b \in {"domain_validator_unconfigured"} :
                \E p \in profiles : Profiles[p].domain /\ ~Profiles[p].validator /\ ~mocked(p)}
            \cup {b \in {"approval_missing"} : c.approval /\ ~req.approved}
            \cup {b \in {"domain_clearance_missing"} : c.clearance /\ ~req.cleared}]

-----------------------------------------------------------------------------
\* Cost quotes.  An unknown required component makes the total unknown.
Times(a, b) == IF None \in {a, b} THEN None ELSE a * b

TokenCharge(tokens, rate, multiplier) ==
    IF tokens = 0 THEN 0 ELSE Times(tokens, Times(rate, multiplier))

KnownSum(f) == SumFunction([n \in DOMAIN f |-> IF f[n] = None THEN 0 ELSE f[n]])

GenerationCharges(req, m) ==
    LET p       == Catalog[m].price
        read    == IF req.evidence THEN req.cached ELSE 0
        long    == p.threshold # None /\ req.input > p.threshold
        mult(x) == IF long THEN x ELSE 1
    IN [uncached_input    |-> TokenCharge(req.input - read - req.written, p.input, mult(p.longInput)),
        cache_read_input  |-> TokenCharge(read, p.cached, mult(p.longCached)),
        cache_write_input |-> TokenCharge(req.written, Times(p.input, p.write), mult(p.longWrite)),
        output            |-> TokenCharge(req.output, p.output, mult(p.longOutput))]

ChargeIf(due, name, amount) == IF due THEN <<[name |-> name, amount |-> amount]>> ELSE <<>>

\* In the order in which funding attributes the first crossing.
RequiredCharges(req, env, val) ==
    ChargeIf(val.evaluators # {}, "required_evaluator", env.evaluatorCost)
    \o ChargeIf(3 \in val.profiles, "required_domain_validator",
                IF "domain_validator_unconfigured" \in val.blockers THEN None ELSE env.domainCost)
    \o ChargeIf(env.toolCharge \/ req.sideEffect, "required_tool", env.toolCost)

Quote(generation, required, cacheRead) ==
    [generation |-> KnownSum(generation),
     known      |-> KnownSum(generation)
                      + KnownSum([i \in 1..Len(required) |-> required[i].amount]),
     required   |-> required,
     unknown    |-> {n \in DOMAIN generation : generation[n] = None}
                      \cup {c.name : c \in {x \in ToSet(required) : x.amount = None}},
     cacheRead  |-> cacheRead]

EstimateCost(req, m, env, val) ==
    Quote(GenerationCharges(req, m), RequiredCharges(req, env, val),
          IF req.evidence THEN req.cached ELSE 0)

-----------------------------------------------------------------------------
\* Budget feasibility: hard violations, and blockers that only stop execution.
FirstUnfunded(cost, remaining) ==
    LET sum(i) == cost.generation
                    + KnownSum([j \in 1..i |-> cost.required[j].amount])
        over   == {i \in 1..Len(cost.required) :
                      cost.required[i].amount # None /\ sum(i) > remaining}
    IN IF over = {} THEN "none" ELSE cost.required[Min(over)].name

FundingBlocker(name) ==
    CASE name = "required_evaluator"        -> {"required_evaluator_budget"}
      [] name = "required_domain_validator" -> {"required_domain_validator_budget"}
      [] name = "required_tool"             -> {"required_tool_budget"}
      [] OTHER                              -> {}

FundingBlockers == {"required_evaluator_budget", "required_domain_validator_budget",
                    "required_tool_budget"}

CheckBudget(cost, limits, env) ==
    LET funded   == env.remaining # None => cost.generation <= env.remaining
        short    == env.remaining # None /\ funded /\ cost.known > env.remaining
        unfunded == IF short THEN FirstUnfunded(cost, env.remaining) ELSE "none"
    IN [violations |->
            {v \in {"floor_vs_ceiling"} : None \notin {limits.floor, limits.ceiling}
                                            /\ limits.floor > limits.ceiling}
            \cup {v \in {"task_cost_ceiling_usd"} : limits.cost # None /\ cost.known > limits.cost}
            \cup {v \in {"remaining_budget"} : ~funded \/ (short /\ unfunded = "none")},
        blockers   |->
            cost.unknown \cup FundingBlocker(unfunded)
            \cup {b \in {"live_execution_disabled"} : limits.live # 1}
            \cup {b \in {"finite_task_cost_ceiling_required"} : limits.cost = None}
            \cup {b \in {"task_deadline_required"} : limits.deadline = None}
            \cup {b \in {"deadline"} : limits.deadline # None /\ env.minimumAction # None
                                         /\ env.minimumAction > limits.deadline}]

-----------------------------------------------------------------------------
\* The candidate plan.
Total(cls) == MapThenSumSet(LAMBDA c : cls.components[c], DOMAIN Components)

KnownFlags == UNION {r.match.flags : r \in ToSet(Floors) \cup ToSet(Modifiers)}

ClassificationInvalid(cls) ==
    \/ cls.family \notin Families
    \/ \E c \in DOMAIN Components : cls.components[c] \notin Components[c].min..Components[c].max
    \/ cls.supplied # None /\ cls.supplied # Total(cls)
    \/ ~(cls.flags \subseteq KnownFlags)

Matches(match, cls) ==
    /\ match.families # {} => cls.family \in match.families
    /\ match.flags \subseteq cls.flags
    /\ match.complexity # None => Total(cls) >= match.complexity
    /\ \A c \in DOMAIN match.components : cls.components[c] >= match.components[c]

Band(total) == CHOOSE b \in ToSet(Bands) : b.min <= total /\ total <= b.max

InOrder(m, efforts) == SelectSeq(efforts, LAMBDA e : Supports(m, e))

Entry(m, efforts) == [model |-> m, efforts |-> efforts]

Pairs(entries, source) ==
    FlattenSeq([i \in 1..Len(entries) |->
        [j \in 1..Len(entries[i].efforts) |->
            [model |-> entries[i].model, effort |-> entries[i].efforts[j], source |-> source]]])

Listed(cands, m, effort) == \E c \in ToSet(cands) : c.model = m /\ c.effort = effort

AddCandidates(cands, entries, source) ==
    FoldLeft(LAMBDA acc, c : IF Listed(acc, c.model, c.effort) THEN acc ELSE Append(acc, c),
             cands, Pairs(entries, source))

WithinLimits(m, limits) ==
    /\ limits.floor # None => Rank(m) >= limits.floor
    /\ limits.ceiling # None => Rank(m) <= limits.ceiling

Matched(rules, cls) == {r \in ToSet(rules) : Matches(r.match, cls)}

FloorEvidence(cls) ==
    {[strength |-> r.strength, min |-> r.min] : r \in Matched(Floors, cls)}
      \cup {[strength |-> "preferred", min |-> r.preferred] :
              r \in {x \in Matched(Modifiers, cls) : x.preferred # None}}

FloorOf(strength, floors) ==
    Max({MinRank} \cup {f.min : f \in {x \in floors : x.strength = strength}})

Apart(m, prior) == Min({IF Rank(m) > r THEN Rank(m) - r ELSE r - Rank(m) : r \in prior})

BuildCandidates(cls, limits) ==
    LET prior      == Band(Total(cls)).candidates
        priorRanks == {Rank(e.model) : e \in ToSet(prior)}
        efforts    == FlattenSeq([i \in 1..Len(prior) |-> prior[i].efforts])
        floors     == FloorEvidence(cls)
        matched    == SelectSeq(Modifiers, LAMBDA r : Matches(r.match, cls))
        added      == FlattenSeq([i \in 1..Len(matched) |-> matched[i].add])
        listed     == AddCandidates(AddCandidates(<<>>, prior, "prior"), added, "modifier")
        applicable == Max({FloorOf("hard", floors), FloorOf("preferred", floors), limits.floor})
        raised     == IF floors # {} \/ limits.floor > MinRank
                      THEN {m \in Enabled : Rank(m) >= applicable
                                              /\ m \notin {c.model : c \in ToSet(listed)}}
                      ELSE {}
        byRank     == SetToSortSeq(raised, LAMBDA m, n : Rank(m) < Rank(n))
        others     == {m \in Enabled : m \notin {e.model : e \in ToSet(prior)}
                                         /\ WithinLimits(m, limits)}
        nearest    == SetToSortSeq(others, LAMBDA m, n :
                        \/ Apart(m, priorRanks) < Apart(n, priorRanks)
                        \/ Apart(m, priorRanks) = Apart(n, priorRanks) /\ Rank(m) < Rank(n))
        fallback(m) == IF InOrder(m, efforts) # <<>> THEN InOrder(m, efforts)
                                                     ELSE InOrder(m, Preference)
    IN [candidates |->
            AddCandidates(
                AddCandidates(listed,
                    [i \in 1..Len(byRank) |-> Entry(byRank[i], InOrder(byRank[i], Preference))],
                    "floor"),
                [i \in 1..Len(nearest) |-> Entry(nearest[i], fallback(nearest[i]))], "fallback"),
        floors     |-> floors,
        hard       |-> FloorOf("hard", floors),
        preferred  |-> FloorOf("preferred", floors)]
=============================================================================
