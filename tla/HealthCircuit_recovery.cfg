SPECIFICATION HealthSpec
CONSTANTS
    Probers = {p1, p2, p3}
    Callers = {t1, t2}
    ProbeOutcomes = {"success", "infrastructure", "degraded", "unhealthy"}
    CallOutcomes = {"success", "infrastructure", "degraded", "unrelated"}
    FailureThreshold = 2
    FailureWindow = 2
    Cooldown = 2
    HalfOpenMax = 3
    RecoveryThreshold = 2
    Freshness = 2
INVARIANTS
    RecoveryBounded
PROPERTIES
    Recovers
