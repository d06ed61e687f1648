SPECIFICATION Spec
CONSTANTS
    s1 = s1
    s2 = s2
    s3 = s3
    s4 = s4
    NoSubmission = NoSubmission
    Submissions = {s1, s2, s3, s4}
    Asks <- FourAsks
    Allocations = {"a", "b"}
    MaxRecords = 1
    Estimate = 1
    Costs = {1, 2}
INVARIANTS
    PaidOnce
    SettlementIsRecorded
    CostStatusIsTrue
    FinalIsReconciled
CHECK_DEADLOCK FALSE
