---------------------------- MODULE HealthCircuit ----------------------------
(***************************************************************************)
(* The circuit of one component scope of HealthService: ordinary calls and *)
(* probes report their outcomes to observe(), failures open the circuit, a *)
(* cooldown admits a bounded number of recovery probes, and their results  *)
(* close or reopen it.  Calls and probes are dispatched first and report   *)
(* later, in any order, so a report may meet a circuit that has moved on.  *)
(*                                                                         *)
(* Time is discrete and relative: a timestamp is its age, and an age stops *)
(* at the limit beyond which the code treats every age alike.              *)
(***************************************************************************)
EXTENDS Integers, Sequences, FiniteSets

CONSTANTS
    Probers,            \* concurrent run_probes loops
    Callers,            \* concurrent executions using the component
    ProbeOutcomes,      \* what a probe may report
    CallOutcomes,       \* what an ordinary call may report
    FailureThreshold,   \* HealthConfig.failure_threshold
    FailureWindow,      \* HealthConfig.failure_window_ms
    Cooldown,           \* HealthConfig.cooldown_ms
    HalfOpenMax,        \* HealthConfig.half_open_max_probes
    RecoveryThreshold,  \* HealthConfig.recovery_success_threshold
    Freshness           \* HealthConfig.freshness_ms

\* "infrastructure" failures count against the circuit; "degraded" and
\* "unhealthy" reports do not; "unrelated" ones are task quality and budget
\* failures.
Outcomes == {"success", "infrastructure", "degraded", "unhealthy", "unrelated"}

ASSUME HealthAssumption ==
    /\ ProbeOutcomes \subseteq Outcomes /\ CallOutcomes \subseteq Outcomes
    /\ FailureThreshold \in Nat \ {0} /\ RecoveryThreshold \in Nat \ {0}
    /\ FailureWindow \in Nat \ {0} /\ Cooldown \in Nat \ {0} /\ Freshness \in Nat \ {0}
    /\ HalfOpenMax \in Nat
    /\ RecoveryThreshold <= HalfOpenMax

VARIABLES
    circuit,        \* _Circuit
    observation,    \* the latest HealthObservation
    probe,          \* per prober, the probe it is running
    call            \* the executions with a call in flight

healthVars == <<circuit, observation, probe, call>>

\* failures holds the ages of the recorded failures, oldest first; beyond the
\* threshold their number decides nothing, so only that many are kept.
Circuit == [state : {"closed", "open", "half_open"}, failures : Seq(0..FailureWindow),
            openFor : 0..Cooldown, admitted : Nat, pending : Nat, successes : Nat]

ClosedCircuit == [state |-> "closed", failures |-> <<>>, openFor |-> 0,
                  admitted |-> 0, pending |-> 0, successes |-> 0]

Observation == [state : {"HEALTHY", "DEGRADED", "UNHEALTHY", "missing"}, age : 0..Freshness]

\* A probe runs unadmitted (the circuit was closed), admitted for the recovery
\* in progress, or admitted for a recovery that has ended.
ProbeStates == {"idle", "unadmitted", "admitted", "late"}

\* The circuit and everything in flight are well formed.
CircuitTypeOK ==
    /\ circuit \in Circuit
    /\ Len(circuit.failures) <= FailureThreshold
    /\ observation \in Observation
    /\ probe \in [Probers -> ProbeStates]
    /\ call \subseteq Callers
-----------------------------------------------------------------------------
\* _open
Opened(c) == [c EXCEPT !.state = "open", !.openFor = 0,
                       !.admitted = 0, !.pending = 0, !.successes = 0]

\* Append a failure of this instant.
WithFailure(c) ==
    LET fs == Append(c.failures, 0)
    IN  [c EXCEPT !.failures = IF Len(fs) > FailureThreshold THEN Tail(fs) ELSE fs]

Counted(c, outcome) == IF outcome = "infrastructure" THEN WithFailure(c) ELSE c

\* Mutant of ProbeResult: only an infrastructure failure reopens the circuit.
ProbeResultLenient(c, outcome) ==
    LET d == [c EXCEPT !.pending = @ - 1]
    IN  CASE outcome = "success" /\ d.successes + 1 >= RecoveryThreshold -> ClosedCircuit
          [] outcome = "success" /\ d.successes + 1 < RecoveryThreshold ->
               [d EXCEPT !.successes = @ + 1]
          [] outcome = "infrastructure" -> Opened(Counted(d, outcome))
          [] OTHER -> d

\* observe() of a result while the circuit is half open and waits for one: a
\* success counts toward recovery, anything else reopens the circuit.
ProbeResult(c, outcome) ==
    LET d == [c EXCEPT !.pending = @ - 1]
    IN  IF outcome = "success"
        THEN IF d.successes + 1 >= RecoveryThreshold
             THEN ClosedCircuit
             ELSE [d EXCEPT !.successes = @ + 1]
        ELSE Opened(Counted(d, outcome))

\* observe() otherwise: only a closed circuit can open.
OrdinaryResult(c, outcome) ==
    LET d == Counted(c, outcome)
    IN  IF /\ outcome = "infrastructure"
           /\ d.state = "closed"
           /\ Len(d.failures) >= FailureThreshold
        THEN Opened(d)
        ELSE d

AwaitsProbe(c) == c.state = "half_open" /\ c.pending > 0

AfterResult(c, outcome) ==
    IF AwaitsProbe(c) THEN ProbeResult(c, outcome) ELSE OrdinaryResult(c, outcome)

DerivedState(c, outcome) ==
    CASE c.state = "open" -> "UNHEALTHY"
      [] c.state = "half_open" -> "DEGRADED"
      [] c.state = "closed" /\ outcome = "success" -> "HEALTHY"
      [] c.state = "closed" /\ outcome = "unhealthy" -> "UNHEALTHY"
      [] OTHER -> "DEGRADED"

\* Once a recovery ends, the probes admitted for it are late.
Outdated(ps) == [p \in Probers |-> IF ps[p] = "admitted" THEN "late" ELSE ps[p]]

\* observe(): quality and budget outcomes change nothing.  ps is what the
\* probers are doing once this report is made.
Observe(outcome, ps) ==
    IF outcome = "unrelated"
    THEN probe' = ps /\ UNCHANGED <<circuit, observation>>
    ELSE LET c == AfterResult(circuit, outcome)
             ended == circuit.state = "half_open" /\ c.state # "half_open"
         IN  /\ circuit' = c
             /\ observation' = [state |-> DerivedState(c, outcome), age |-> 0]
             /\ probe' = IF ended THEN Outdated(ps) ELSE ps

\* available(): fresh and usable evidence, and the circuit closed right now.
Available ==
    /\ circuit.state = "closed"
    /\ observation.state \in {"HEALTHY", "DEGRADED"}
    /\ observation.age < Freshness
-----------------------------------------------------------------------------
\* Startup seeds each scope with a success.
HealthInit ==
    /\ circuit = ClosedCircuit
    /\ observation = [state |-> "HEALTHY", age |-> 0]
    /\ probe = [p \in Probers |-> "idle"]
    /\ call = {}

Tick ==
    /\ circuit' = [circuit EXCEPT
          !.failures = LET older == [i \in DOMAIN @ |-> @[i] + 1]
                       IN  SelectSeq(older, LAMBDA age : age <= FailureWindow),
          !.openFor = IF circuit.state = "open" /\ @ < Cooldown THEN @ + 1 ELSE @]
    /\ observation' = [observation EXCEPT !.age = IF @ < Freshness THEN @ + 1 ELSE @]
    /\ UNCHANGED <<probe, call>>

\* An execution finds the component available and dispatches its call.
CallBegins(t) ==
    /\ t \notin call
    /\ Available
    /\ call' = call \cup {t}
    /\ UNCHANGED <<circuit, observation, probe>>

CallReports(t, outcome) ==
    /\ t \in call
    /\ call' = call \ {t}
    /\ Observe(outcome, probe)

\* run_probes dispatches a probe on a closed circuit without admission.
ProbeUnadmitted(p) ==
    /\ probe[p] = "idle"
    /\ circuit.state = "closed"
    /\ probe' = [probe EXCEPT ![p] = "unadmitted"]
    /\ UNCHANGED <<circuit, observation, call>>

\* Mutant of AdmitProbe: one probe too many is admitted.
AdmitProbeExtra(p) ==
    LET c == IF circuit.state = "open" /\ circuit.openFor >= Cooldown
             THEN [circuit EXCEPT !.state = "half_open", !.admitted = 0,
                                  !.pending = 0, !.successes = 0]
             ELSE circuit
    IN  /\ probe[p] = "idle"
        /\ c.state = "half_open"
        /\ c.admitted <= HalfOpenMax
        /\ circuit' = [c EXCEPT !.admitted = @ + 1, !.pending = @ + 1]
        /\ probe' = [probe EXCEPT ![p] = "admitted"]
        /\ UNCHANGED <<observation, call>>

\* admit_probe: after the cooldown an open circuit is half open, and admits
\* probes up to the configured number.
AdmitProbe(p) ==
    LET c == IF circuit.state = "open" /\ circuit.openFor >= Cooldown
             THEN [circuit EXCEPT !.state = "half_open", !.admitted = 0,
                                  !.pending = 0, !.successes = 0]
             ELSE circuit
    IN  /\ probe[p] = "idle"
        /\ c.state = "half_open"
        /\ c.admitted < HalfOpenMax
        /\ circuit' = [c EXCEPT !.admitted = @ + 1, !.pending = @ + 1]
        /\ probe' = [probe EXCEPT ![p] = "admitted"]
        /\ UNCHANGED <<observation, call>>

ProbeReports(p, outcome) ==
    /\ probe[p] # "idle"
    /\ Observe(outcome, [probe EXCEPT ![p] = "idle"])
    /\ UNCHANGED call

Prober(p) ==
    \/ ProbeUnadmitted(p)
    \/ AdmitProbe(p)
    \/ \E outcome \in ProbeOutcomes : ProbeReports(p, outcome)

Caller(t) ==
    \/ CallBegins(t)
    \/ \E outcome \in CallOutcomes : CallReports(t, outcome)

HealthNext == Tick \/ (\E p \in Probers : Prober(p)) \/ (\E t \in Callers : Caller(t))

\* Time passes, calls and probes return (both have timeouts), and an operator
\* keeps running probes.
HealthSpec ==
    /\ HealthInit
    /\ [][HealthNext]_healthVars
    /\ WF_healthVars(Tick)
    /\ \A p \in Probers : WF_healthVars(Prober(p))
    /\ \A t \in Callers : WF_healthVars(\E outcome \in CallOutcomes : CallReports(t, outcome))
-----------------------------------------------------------------------------
\* Whatever reports arrive late or twice over, a recovery never counts more
\* results than the probes it admitted, and never runs more than its bound.
RecoveryBounded ==
    /\ circuit.state = "half_open" =>
          /\ circuit.admitted \in 1..HalfOpenMax
          /\ circuit.pending + circuit.successes <= circuit.admitted
          /\ circuit.successes < RecoveryThreshold
    /\ Cardinality({p \in Probers : probe[p] = "admitted"})
          <= IF circuit.state = "half_open" THEN circuit.admitted ELSE 0

\* A probe reports, and its result ends the recovery.
ProbeReopens(p) ==
    /\ probe[p] # "idle" /\ probe'[p] = "idle"
    /\ circuit.state = "half_open" /\ circuit'.state = "open"

\* From when probes no longer fail recoveries, the circuit always closes again,
\* although calls that were in flight when it opened may still reopen it.
Recovers ==
    <>[][\A p \in Probers : ~ProbeReopens(p)]_healthVars => []<>(circuit.state = "closed")
=============================================================================
