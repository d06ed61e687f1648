----------------------------- MODULE ReleaseGate -----------------------------
(***************************************************************************)
(* What a release manifest may say, what is observed of the environment it *)
(* runs in, and the preflight that compares the two.  A release is a       *)
(* record of the manifest and of the snapshots it references; a world is a *)
(* record of the process environment, the database and the journal.  Money *)
(* and time are natural numbers; a hash is what it is the hash of.         *)
(***************************************************************************)
EXTENDS Integers, FiniteSets

CONSTANT None       \* an optional field that is absent

Surfaces == {"route", "read", "execute", "health", "classify_route"}
Operations == Surfaces \cup {"live_provider", "live_classifier", "tools", "shadow"}

Live(r) == {"live_provider", "live_classifier"} \cap r.ops # {}

SurfaceValid(ops) ==
    /\ {"tools", "shadow"} \cap ops = {}
    /\ ("live_provider" \in ops) = ("execute" \in ops)
    /\ "live_classifier" \in ops => {"execute", "classify_route"} \cap ops # {}
    /\ "classify_route" \in ops => "live_classifier" \in ops

LimitsValid(l) ==
    /\ l.task <= l.app /\ l.timeout <= l.deadline
    /\ 0 < l.attempts /\ l.initial <= l.maximum

\* The manifest's own schema: what load_release accepts.
ReleaseValid(r) ==
    /\ r.ops \subseteq Operations /\ SurfaceValid(r.ops) /\ LimitsValid(r.limits)
    /\ r.ops \cap Surfaces \subseteq r.scopes
    /\ "classify_route" \in r.ops => r.limits.previews # None /\ r.revision = "previews"
    /\ Live(r) => r.evidence # None
    /\ "live_classifier" \in r.ops => r.classifier # None
    /\ r.limits.concurrent <= r.pool
    /\ r.components # {} /\ r.dialects # {}

\* A reference whose content, digest or version is not the manifest's is not loaded.
Load(disk) == IF disk.intact THEN disk.sha ELSE None

-----------------------------------------------------------------------------
\* The applications of the credential source, or none when any of it is wrong: a scope
\* beyond the manifest's, a token that is missing or short, a token used twice, a scope
\* nobody has.
Credentials(r, w) ==
    LET apps == DOMAIN w.apps IN
    IF /\ \A a \in apps : w.apps[a].scopes # {} /\ w.apps[a].scopes \subseteq r.scopes
       /\ \A a \in apps : w.apps[a].token # None
       /\ \A a, b \in apps : w.apps[a].token = w.apps[b].token => a = b
       /\ r.scopes \subseteq UNION {w.apps[a].scopes : a \in apps}
    THEN apps ELSE {}

\* A journal with lines in it and too long an outbox both make the repository unready.
StorageReady(r, w) == ~w.journal /\ w.outbox <= r.maxPending

Fresh(at, now, within) == at <= now /\ now <= at + within

\* Account evidence that is no longer valid names no provider.  An alias stands for
\* the component provider:alias.
ObservedModels(r, now) ==
    IF r.evidence # None /\ r.evidence.at <= now /\ now < r.evidence.at + r.freshness
    THEN DOMAIN r.evidence.models ELSE {}

\* The components that are not a provider's.
OwnComponents == {"configuration", "database", "telemetry", "classifier"}

\* What collect_evidence observes; nothing when the database or the journal's
\* directory fails.
CollectEvidence(r, w, now) ==
    LET seen == {"configuration", "database"} \cup ObservedModels(r, now)
                \cup (IF StorageReady(r, w) THEN {"telemetry"} ELSE {})
                \cup (IF ObservedModels(r, now) # {} /\ "live_classifier" \in r.ops
                      THEN {"classifier"} ELSE {})
    IN IF w.url /\ w.reachable /\ w.writable
       THEN [reachable |-> TRUE, dialect |-> w.dialect, revision |-> w.revision,
             outbox |-> StorageReady(r, w), components |-> seen,
             ready |-> r.components \subseteq seen,
             at |-> IF r.evidence # None THEN r.evidence.at ELSE now]
       ELSE [reachable |-> FALSE, dialect |-> None, revision |-> None, outbox |-> FALSE,
             components |-> {}, ready |-> FALSE, at |-> None]

-----------------------------------------------------------------------------
\* The checks, in the groups in which preflight makes them.
ServiceChecks(r, w, e, now) ==
    [policy_activation_status |-> ("execute" \in r.ops \/ Live(r)) => r.active,
     auth_configuration |-> r.ops \cap Surfaces \subseteq r.scopes,
     auth_credentials |-> Credentials(r, w) # {},
     database_url |-> w.url,
     database_connectivity |-> e.reachable /\ e.dialect \in r.dialects,
     database_migration |-> e.revision = r.revision,
     outbox |-> e.outbox,
     health |-> /\ e.ready /\ r.components \subseteq e.components
                /\ e.at # None /\ Fresh(e.at, now, r.freshness),
     operational_limits |-> LimitsValid(r.limits)]

Finite(p) == \A f \in DOMAIN p.recovery : p.recovery[f] # None

\* The overlay of an application replaces the default it names; it can only turn live
\* execution off.
Effective(p, a, f) == IF a \in DOMAIN p.overlays /\ p.overlays[a][f] # None
                      THEN p.overlays[a][f] ELSE p.defaults[f]

LimitsMatch(r, apps) ==
    LET p == r.policy  l == r.limits IN
    /\ p.recovery = [attempts |-> l.attempts, quality |-> l.quality, retries |-> l.retries,
                     tools |-> l.tools, elapsed |-> l.deadline, initial |-> l.initial,
                     maximum |-> l.maximum, jitter |-> 0]
    /\ p.honorRetryAfter
    /\ l.task = p.defaults.task /\ l.app = p.defaults.period
    /\ \A a \in apps :
        /\ p.defaults.live /\ (a \in DOMAIN p.overlays => p.overlays[a].live # FALSE)
        /\ l.task = Effective(p, a, "task") /\ l.app = Effective(p, a, "period")
        /\ l.deadline = Effective(p, a, "deadline")

ExecutionChecks(r, w) ==
    [policy_execution_authorization |-> r.policy.defaults.live,
     policy_recovery_limits |-> Finite(r.policy),
     policy_runtime_limits |-> LimitsMatch(r, Credentials(r, w))]

Enabled(r) == {m \in DOMAIN r.models : r.models[m].enabled}

\* The evidence of a model repeats its identifier, prices, efforts and source.
EvidenceMatches(r, m) ==
    /\ m \in DOMAIN r.evidence.models
    /\ r.evidence.models[m] = r.models[m].facts /\ r.models[m].verified

TokensFit(l, m) ==
    l.output <= m.output /\ l.input + l.output <= m.context /\ l.input <= m.long

LiveChecks(r, w, e, now) ==
    [live_runtime_opt_in |-> w.optIn,
     live_credential_evidence |-> r.evidence # None /\ w.key = r.evidence.key,
     provider_credentials |-> w.key # None,
     live_evidence_freshness |-> r.evidence # None /\ Fresh(r.evidence.at, now, r.maxAge),
     live_health_evidence_freshness |-> r.evidence # None /\ Fresh(r.evidence.at, now, r.freshness),
     live_model_access_and_pricing |-> r.evidence # None /\ \A m \in Enabled(r) : EvidenceMatches(r, m),
     catalog_live_verification |-> r.probed,
     live_health |-> /\ Enabled(r) \subseteq e.components
                     /\ "live_classifier" \in r.ops => "classifier" \in e.components,
     model_token_bounds |-> \A m \in Enabled(r) : TokensFit(r.limits, r.models[m])]

ClassifierChecks(r) ==
    [classifier |-> /\ r.classifier # None /\ r.classifier.active /\ r.classifier.live
                    /\ r.classifier.output <= r.limits.output
                    /\ r.classifier.timeout <= r.limits.timeout]

\* The groups of checks made depend on the operations; each has the same checks always.
Checks(r) ==
    {"service"} \cup {g \in {"execution"} : "execute" \in r.ops} \cup {g \in {"live"} : Live(r)}
    \cup {g \in {"classifier"} : "live_classifier" \in r.ops}

Group(g, r, w, e, now) ==
    CASE g = "service" -> ServiceChecks(r, w, e, now)
      [] g = "execution" -> ExecutionChecks(r, w)
      [] g = "live" -> LiveChecks(r, w, e, now)
      [] g = "classifier" -> ClassifierChecks(r)

\* The names of the checks that did not pass.
Blockers(r, w, now) ==
    LET e == CollectEvidence(r, w, now)
        failing(checks) == {c \in DOMAIN checks : ~checks[c]}
    IN UNION {failing(Group(g, r, w, e, now)) : g \in Checks(r)}

Ready(r, w, now) == Blockers(r, w, now) = {}
=============================================================================
