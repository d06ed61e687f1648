SPECIFICATION Spec
CONSTANTS
    Callers = {c1, c2}
    Live = FALSE
    Evaluators = 1
    EvaluatorRetries = 1
    Domain = TRUE
    Costs = {1, 2}
    Ceiling = 9
    Authority = 10
    MaxGenerations = 1
    MaxEscalations = 1
    MaxRetries = 1
    MaxToolRecoveries = 1
    MaxOps = 9
    Estimate <- UnitEstimate
    ToolPlan <- TwoTools
INVARIANTS
    SuccessIsSound
    OperationsBounded
    SideEffectsSafe
CHECK_DEADLOCK FALSE
