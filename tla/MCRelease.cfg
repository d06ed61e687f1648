SPECIFICATION Spec
CONSTANTS
    None = None
    Manifests <- Named
    Disks <- Contents
    Worlds <- Environments
    Receipts = {a1, a2}
    Reports = {p1}
    Caps = {2, 3}
    Application = "tester"
    MaxCost = 2
    Horizon = 1
    MaxChanges = 1
SYMMETRY Symmetric
INVARIANT
    ReportTruthful
    CanarySpendWithinCap
PROPERTY
    PaidCallCovered
