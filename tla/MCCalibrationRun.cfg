SPECIFICATION Spec
CONSTANTS
    Runs = {me, peer}
    Me = me
    Ceiling = 14
    Amounts <- MCAmounts
    Actuals <- MCActuals
    PeerAmounts = {2, 4}
    PeerActuals = {5}
    NumCases = 1
    Strategies = {router, fixed}
    Routers = {router}
    Recovering = {router}
    Bound <- MCBound
    Retries <- MCRetries
    MaxAttempts = 2
    MaxAdjudications = 1
    AggregateCap = 14
    Overrun = 1
    MaxInvocations = 1
INVARIANTS
    SettledIsTrue
    PlanCovers
    CompletedIsSettled
PROPERTIES
    UnknownStopsUnlessLost
    ImplementsAllocation
CHECK_DEADLOCK FALSE
