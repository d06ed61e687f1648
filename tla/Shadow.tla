------------------------------- MODULE Shadow -------------------------------
(***************************************************************************)
(* Shadow experiments of concurrent tasks: one generation, its             *)
(* deterministic validation and its evaluations, all reserved before the   *)
(* first call in two scopes of the budget authority (the task's and the    *)
(* period's) and in the service's own debits, and settled one by one.      *)
(* Callbacks that store the evidence fail, deadlines pass, and authority   *)
(* calls fail with or without having taken effect.                         *)
(*                                                                         *)
(* Costs are reported or not.  A cost that is not reported is at most its  *)
(* bound; a reported one may exceed it.                                    *)
(***************************************************************************)
EXTENDS Integers, Sequences, FiniteSets, FiniteSetsExt, Functions

CONSTANTS
    Tasks,          \* tasks whose success starts an experiment
    Actions,        \* sequence: "generation", "v0", then the evaluators
    Circumstances,  \* in which a task may succeed, see ShadowAssumption
    Rate,           \* the sampling rate, in hundredths
    Bound,          \* action -> what it may cost
    Charges,        \* what a call may cost
    TaskCap, PeriodCap,     \* the experiment's configured ceilings
    Ceilings,       \* the authority's ceilings, per scope
    MaxFaults       \* bound: how often a call of the authority raises

UnknownCost == -1
Scopes == {"task", "period"}
Names == {Actions[i] : i \in 1..Len(Actions)}

\* What has to hold, next to the sampling, before an experiment reserves anything.
Preflight == {"privacy allowed", "mock provider", "synthetic environment", "no tools",
              "production succeeded", "production routed", "correlated"}
Configured == {"enabled", "comparison", "ceilings"}
Routed == {"routed", "the model wanted"}
ModelReady == {"deadline", "fresh snapshot", "model usable"}
Priced == {"generation price", "v0 price"}
EvaluatorsReady == {"semantic validator", "mock evaluator", "plans are the refs",
                    "evaluators usable", "evaluator prices"}
V0Ready == {"no V3", "v0 ready"}

Conditions == UNION {Preflight, Configured, Routed, ModelReady, Priced, EvaluatorsReady, V0Ready}

\* Blockers of the route that the experiment's own allocation and evaluators answer.
Discharged(refs) ==
    {"recovery_unconfigured", "period_budget_unverified"} \cup
    IF refs THEN {"evaluator_unconfigured", "required_evaluator_budget", "required_evaluator"}
            ELSE {}

Blockers == Discharged(TRUE) \cup {"other"}

ASSUME ShadowAssumption ==
    /\ Rate \in 0..100
    /\ \A c \in Circumstances : /\ c.draw \in 0..99 /\ c.refs \in BOOLEAN
                               /\ c.holds \subseteq Conditions /\ c.blockers \subseteq Blockers
    /\ IsFiniteSet(Tasks) /\ Actions \in Seq(STRING)
    /\ Len(Actions) >= 2 /\ Actions[1] = "generation" /\ Actions[2] = "v0"
    /\ Cardinality(Names) = Len(Actions)
    /\ Bound \in [Names -> Nat] /\ Charges \subseteq Nat
    /\ MaxFaults \in Nat
    /\ TaskCap \in Nat /\ PeriodCap \in Nat /\ Ceilings \in [Scopes -> Nat]

VARIABLES
    pc, at,     \* where the run of a task is, and at which action
    plan,       \* how many actions the run has
    held,       \* how many of them it has reserved
    charge,     \* what the current action reported
    failed,     \* the run has failed
    debits,     \* _task_debits
    period,     \* _period_debit
    rows,       \* the authority's rows: task, scope, action -> state and amount
    spent,      \* what the calls really cost
    unreported, \* the calls that did not say what they cost
    faults      \* rows on which a call of the authority raised

shadowVars == <<pc, at, plan, held, charge, failed, debits, period, rows, spent, unreported, faults>>

Phases == {"idle", "reserve", "announce", "call", "settle", "account", "ended"}

ShadowTypeOK ==
    /\ pc \in [Tasks -> Phases]
    /\ at \in [Tasks -> 1..(Len(Actions) + 1)]
    /\ plan \in [Tasks -> 0..Len(Actions)] /\ held \in [Tasks -> 0..Len(Actions)]
    /\ charge \in [Tasks -> Charges \cup {0, UnknownCost}]
    /\ failed \in [Tasks -> BOOLEAN]
    /\ debits \in [Tasks -> Nat] /\ period \in Nat
    /\ rows \in [Tasks -> [Scopes -> [Names ->
                    [state : {"free", "held", "settled"}, amount : Nat]]]]
    /\ spent \in [Tasks -> [Names -> Charges \cup {0} \cup UNION {0..Bound[a] : a \in Names}]]
    /\ unreported \subseteq Tasks \X Names
    /\ faults \subseteq Tasks \X Scopes \X Names

Total(f) == SumFunction(f)

Free == [state |-> "free", amount |-> 0]
Held(n) == [state |-> "held", amount |-> n]

ShadowInit ==
    /\ pc = [t \in Tasks |-> "idle"] /\ at = [t \in Tasks |-> 1]
    /\ plan = [t \in Tasks |-> 0] /\ held = [t \in Tasks |-> 0]
    /\ charge = [t \in Tasks |-> 0] /\ failed = [t \in Tasks |-> FALSE]
    /\ debits = [t \in Tasks |-> 0] /\ period = 0
    /\ rows = [t \in Tasks |-> [s \in Scopes |-> [a \in Names |-> Free]]]
    /\ spent = [t \in Tasks |-> [a \in Names |-> 0]]
    /\ unreported = {} /\ faults = {}

-----------------------------------------------------------------------------
\* The authority, as the service uses it.
DebitOf(t, scope) ==
    LET of(u) == Total([a \in Names |-> rows[u][scope][a].amount])
    IN IF scope = "task" THEN of(t) ELSE Total([u \in Tasks |-> of(u)])

Remaining(t, scope) == Ceilings[scope] - DebitOf(t, scope)

SettledAs(row, actual) ==
    IF actual = UnknownCost THEN row ELSE [state |-> "settled", amount |-> actual]

-----------------------------------------------------------------------------
Here(t) == Actions[at[t]]

Selected(c) == c.draw < Rate

\* A task with evaluator references needs the evaluators, one without ignores them.
Eligible(c) ==
    /\ Selected(c)
    /\ Conditions \ (IF c.refs THEN {} ELSE EvaluatorsReady) \subseteq c.holds
    /\ c.blockers \subseteq Discharged(c.refs)

\* The run ends before it reserves anything.
Skip(t, c) ==
    /\ pc[t] = "idle" /\ ~Eligible(c)
    /\ pc' = [pc EXCEPT ![t] = "ended"]
    /\ UNCHANGED <<at, plan, held, charge, failed, debits, period, rows, spent, unreported, faults>>

Begin(t, c) ==
    /\ pc[t] = "idle" /\ Eligible(c)
    /\ plan' = [plan EXCEPT ![t] = IF c.refs THEN Len(Actions) ELSE 2]
    /\ pc' = [pc EXCEPT ![t] = "reserve"]
    /\ UNCHANGED <<at, held, charge, failed, debits, period, rows, spent, unreported, faults>>

FitsCaps(t, a) == debits[t] + Bound[a] <= TaskCap /\ period + Bound[a] <= PeriodCap

FitsAuthority(t, a) == \A s \in Scopes : Bound[a] <= Remaining(t, s)

\* Both scopes hold the amount, and the service counts it.
ReserveAction(t) ==
    /\ pc[t] = "reserve" /\ FitsCaps(t, Here(t)) /\ FitsAuthority(t, Here(t))
    /\ LET a == Here(t) IN
        /\ rows' = [rows EXCEPT ![t] = [s \in Scopes |-> [rows[t][s] EXCEPT ![a] = Held(Bound[a])]]]
        /\ debits' = [debits EXCEPT ![t] = @ + Bound[a]]
        /\ period' = period + Bound[a]
    /\ held' = [held EXCEPT ![t] = at[t]]
    /\ IF at[t] = plan[t]
       THEN at' = [at EXCEPT ![t] = 1] /\ pc' = [pc EXCEPT ![t] = "announce"]
       ELSE at' = [at EXCEPT ![t] = @ + 1] /\ UNCHANGED pc
    /\ UNCHANGED <<plan, charge, failed, spent, unreported, faults>>

\* What the rows of one action may be after a reservation that was not granted: the
\* task scope may have taken effect without saying so; a period scope that was refused
\* or raised is answered by settling the task scope at zero, which may fail as well.
Refusals(t, a) ==
    LET kept == Held(Bound[a])
        zero == [state |-> "settled", amount |-> 0]
        left(task, per, broken) == [task |-> task, period |-> per, broken |-> broken]
    IN {left(Free, Free, {})}
       \cup {r \in {left(kept, Free, {"task"})} : FitsCaps(t, a) /\ FitsAuthority(t, a)}
       \cup {r \in [task : {zero, kept}, period : {Free, kept}, broken : SUBSET Scopes] :
               /\ FitsCaps(t, a) /\ FitsAuthority(t, a)
               /\ ("task" \in r.broken) = (r.task = kept)
               /\ ("period" \in r.broken) = (r.period = kept)}

\* From the given action on, what is reserved is settled at zero; the run has failed.
Release(t, first) ==
    /\ failed' = [failed EXCEPT ![t] = TRUE]
    /\ charge' = [charge EXCEPT ![t] = 0]
    /\ at' = [at EXCEPT ![t] = first]
    /\ pc' = [pc EXCEPT ![t] = IF first > held[t] THEN "ended" ELSE "settle"]
    /\ UNCHANGED <<plan, held>>

ReserveRefused(t) ==
    /\ pc[t] = "reserve"
    /\ LET a == Here(t) IN \E r \in Refusals(t, a) :
        /\ rows' = [rows EXCEPT ![t]["task"][a] = r.task, ![t]["period"][a] = r.period]
        /\ faults' = faults \cup {<<t, s, a>> : s \in r.broken}
        /\ Cardinality(faults') <= MaxFaults
    /\ Release(t, 1)
    /\ UNCHANGED <<debits, period, spent, unreported>>

\* The attempt is shown to the callback before it is made.
Announce(t) ==
    /\ pc[t] = "announce"
    /\ pc' = [pc EXCEPT ![t] = "call"]
    /\ UNCHANGED <<at, plan, held, charge, failed, debits, period, rows, spent, unreported, faults>>

\* The callback failed, the deadline passed or the health snapshot ran out: this action
\* and the rest are settled at zero.
CancelGeneration(t) ==
    /\ pc[t] = "announce" /\ at[t] = 1
    /\ Release(t, 1)
    /\ UNCHANGED <<debits, period, rows, spent, unreported, faults>>

\* The same, or the input is too long for the evaluator.
CancelEvaluation(t) ==
    /\ pc[t] = "announce" /\ at[t] > 2
    /\ Release(t, at[t])
    /\ UNCHANGED <<debits, period, rows, spent, unreported, faults>>

\* A call is made; a reported cost above the bound fails the run.
Called(t, cost, reported, fails) ==
    /\ pc[t] = "call"
    /\ reported \/ cost <= Bound[Here(t)]
    /\ reported /\ cost > Bound[Here(t)] => fails
    /\ spent' = [spent EXCEPT ![t][Here(t)] = cost]
    /\ unreported' = IF reported THEN unreported ELSE unreported \cup {<<t, Here(t)>>}
    /\ charge' = [charge EXCEPT ![t] = IF reported THEN cost ELSE UnknownCost]
    /\ failed' = [failed EXCEPT ![t] = fails]
    /\ pc' = [pc EXCEPT ![t] = "settle"]
    /\ UNCHANGED <<at, plan, held, debits, period, rows, faults>>

\* It also fails by its own outcome, by evidence that cannot be stored, by the deadline.
Generate(t, cost, reported, fails) == at[t] = 1 /\ Called(t, cost, reported, fails)

\* Checks that a deadline or a stale snapshot cut short cost what they cost so far; one
\* that raises, or that passes without naming its cost, has an unknown cost.
Validate(t, cost, reported, fails) == at[t] = 2 /\ Called(t, cost, reported, fails)

Evaluate(t, cost, reported, fails) == at[t] > 2 /\ Called(t, cost, reported, fails)

\* Each scope is settled on its own; one may raise, with or without having settled.
SettleAction(t, raised, done) ==
    /\ pc[t] = "settle"
    /\ Scopes \ raised \subseteq done
    /\ LET a == Here(t)
           after(s) == IF s \in done THEN SettledAs(rows[t][s][a], charge[t]) ELSE rows[t][s][a]
       IN
        /\ rows' = [rows EXCEPT ![t] = [s \in Scopes |-> [rows[t][s] EXCEPT ![a] = after(s)]]]
        /\ faults' = faults \cup {<<t, s, a>> : s \in raised}
        /\ Cardinality(faults') <= MaxFaults
    /\ failed' = [failed EXCEPT ![t] = @ \/ raised # {}]
    /\ pc' = [pc EXCEPT ![t] = "account"]
    /\ UNCHANGED <<at, plan, held, charge, debits, period, spent, unreported>>

CorrectionAlways(t) == charge[t] - Bound[Here(t)]

\* An unknown cost leaves the whole reservation counted.
Correction(t) == IF charge[t] = UnknownCost THEN 0 ELSE charge[t] - Bound[Here(t)]

GoesOnAlone(t) ==
    /\ at' = [at EXCEPT ![t] = @ + 1]
    /\ charge' = [charge EXCEPT ![t] = 0]
    /\ pc' = [pc EXCEPT ![t] = IF failed[t] \/ at[t] = held[t] THEN "ended"
                             ELSE IF at[t] = 1 THEN "call" ELSE "announce"]

\* A failed run settles the rest at zero; another goes on to its next action, of which
\* the validation is not an attempt and is not announced.
GoesOn(t) ==
    /\ at' = [at EXCEPT ![t] = @ + 1]
    /\ charge' = [charge EXCEPT ![t] = 0]
    /\ pc' = [pc EXCEPT ![t] = IF at[t] = held[t] THEN "ended"
                             ELSE IF failed[t] THEN "settle"
                             ELSE IF at[t] = 1 THEN "call" ELSE "announce"]

CountAction(t) ==
    /\ pc[t] = "account"
    /\ debits' = [debits EXCEPT ![t] = @ + Correction(t)]
    /\ period' = period + Correction(t)
    /\ GoesOn(t)
    /\ UNCHANGED <<plan, held, failed, rows, spent, unreported, faults>>

Finished == (\A t \in Tasks : pc[t] = "ended") /\ UNCHANGED shadowVars

ShadowNext ==
    \/ \E t \in Tasks :
        \/ \E c \in Circumstances : Skip(t, c) \/ Begin(t, c)
        \/ ReserveAction(t) \/ ReserveRefused(t)
        \/ Announce(t) \/ CancelGeneration(t) \/ CancelEvaluation(t)
        \/ \E cost \in Charges, reported, fails \in BOOLEAN :
            \/ Generate(t, cost, reported, fails)
            \/ Validate(t, cost, reported, fails)
            \/ Evaluate(t, cost, reported, fails)
        \/ \E raised, done \in SUBSET Scopes : SettleAction(t, raised, done)
        \/ CountAction(t)
    \/ Finished

ShadowSpec == ShadowInit /\ [][ShadowNext]_shadowVars

-----------------------------------------------------------------------------
Overrun(t) == Total([a \in Names |-> Max({0, spent[t][a] - Bound[a]})])

\* What the calls really cost, whether they reported it or not, stays within the
\* task's and the period's shadow ceilings, but for the one amount by which a reported
\* cost exceeded its bound; tasks run concurrently and settle in any order.
SpendWithinCaps ==
    /\ \A t \in Tasks : Total(spent[t]) <= TaskCap + Overrun(t)
    /\ Total([t \in Tasks |-> Total(spent[t])]) <= PeriodCap + Total([t \in Tasks |-> Overrun(t)])

\* A run that has ended, by whichever of its failures, leaves nothing reserved except
\* for a call of unknown cost and for rows on which the authority itself raised, and
\* the service's own debit of the task is what the authority settled and holds for it.
NothingStranded ==
    \A t \in Tasks : pc[t] = "ended" =>
        /\ \A s \in Scopes, a \in Names :
            rows[t][s][a].state = "held" => <<t, s, a>> \in faults \/ <<t, a>> \in unreported
        /\ ({f \in faults : f[1] = t} = {} => \A s \in Scopes :
                debits[t] = Total([a \in Names |-> rows[t][s][a].amount]))
=============================================================================
