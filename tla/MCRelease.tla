------------------------------ MODULE MCRelease ------------------------------
\* Release for TLC: a live release, the same with a raised ceiling, one that only
\* routes, and a reference edited under the live one.
EXTENDS Release, TLC

LimitsOf(app, task) ==
    [allocation |-> "canaries", app |-> app, task |-> task, deadline |-> 5, timeout |-> 2,
     input |-> 2, output |-> 1, concurrent |-> 1, attempts |-> 2, quality |-> 0,
     retries |-> 1, tools |-> 0, initial |-> 1, maximum |-> 2, previews |-> None]

Policy(l) ==
    [recovery |-> [attempts |-> l.attempts, quality |-> l.quality, retries |-> l.retries,
                   tools |-> l.tools, elapsed |-> l.deadline, initial |-> l.initial,
                   maximum |-> l.maximum, jitter |-> 0],
     honorRetryAfter |-> TRUE,
     defaults |-> [task |-> l.task, period |-> l.app, deadline |-> l.deadline, live |-> TRUE],
     overlays |-> "tester" :> [task |-> None, period |-> l.app, deadline |-> None, live |-> TRUE]]

Scopes == {"route", "read", "execute", "health"}

LiveRelease(limits) ==
    [ops |-> Scopes \cup {"live_provider", "live_classifier"},
     scopes |-> Scopes, limits |-> limits, policy |-> Policy(limits), active |-> TRUE,
     pool |-> 2, dialects |-> {"sqlite"}, revision |-> "budgets", maxPending |-> 1,
     components |-> {"configuration", "database", "telemetry"}, freshness |-> 1, maxAge |-> 2,
     models |-> "luna" :> [enabled |-> TRUE, verified |-> TRUE, facts |-> "facts",
                           output |-> 2, context |-> 4, long |-> 3]
             @@ "sol" :> [enabled |-> FALSE, verified |-> FALSE, facts |-> "facts",
                          output |-> 2, context |-> 4, long |-> 3],
     evidence |-> [at |-> 0, key |-> "key", models |-> "luna" :> "facts"], probed |-> TRUE,
     classifier |-> [active |-> TRUE, live |-> TRUE, output |-> 1, timeout |-> 2]]

\* A task may reserve the whole ceiling, in one call or in two.
LiveOne == LiveRelease(LimitsOf(2, 2))
RaisedOne == LiveRelease(LimitsOf(3, 2))
RoutingOne == [LiveOne EXCEPT !.ops = {"route", "read", "health"},
                              !.evidence = None, !.classifier = None, !.active = FALSE]

Named == "live" :> LiveOne @@ "raised" :> RaisedOne @@ "routing" :> RoutingOne

Contents == [sha : DOMAIN Named, intact : {TRUE}] \cup {[sha |-> "live", intact |-> FALSE]}

Good == [apps |-> "tester" :> [scopes |-> Scopes, token |-> "token"], url |-> TRUE,
         reachable |-> TRUE, writable |-> TRUE, dialect |-> "sqlite", revision |-> "budgets",
         journal |-> FALSE, outbox |-> 1, optIn |-> TRUE, key |-> "key"]

Environments ==
    "good" :> Good @@ "rotated" :> [Good EXCEPT !.key = "another"]
    @@ "down" :> [Good EXCEPT !.reachable = FALSE]

Symmetric == Permutations(Reports) \cup Permutations(Receipts)
=============================================================================
