SPECIFICATION Spec
CONSTANTS
    Callers = {c1, c2}
    Live = TRUE
    Evaluators = 0
    EvaluatorRetries = 0
    Domain = FALSE
    Costs = {1, 2}
    Ceiling = 3
    Authority = 4
    MaxGenerations = 2
    MaxEscalations = 1
    MaxRetries = 1
    MaxToolRecoveries = 0
    MaxOps = 6
    Estimate <- UnitEstimate
    ToolPlan <- NoTools
INVARIANTS
    IntentBeforeCall
    SpendWithinCeiling
    AccountCoversLedger
    SavesAccepted
    NoCallAfterOverrun
PROPERTIES
    TerminalIsFinal
CHECK_DEADLOCK FALSE
