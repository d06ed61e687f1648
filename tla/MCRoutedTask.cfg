SPECIFICATION RoutedSpec
CONSTANTS
    Catalog <- ThreeTiers
    Families = {"chat", "coding"}
    Components <- Range2
    Bands <- ThreeBands
    Floors <- TwoFloors
    Modifiers <- TwoModifiers
    Preference <- EffortOrder
    Profiles <- FourProfiles
    DefaultProfile = 0
    Evaluators = {"light", "strong"}
    Consequences <- FourConsequences
    Defaults <- DefaultLimits
    Applications <- Apps
    ExcludedStates = {"UNHEALTHY"}
    Cases <- AllCases
    Baseline <- Environment
    HealthViews <- Views
    Failures <- SomeFailures
    Discharged = {}
    MaxGenerations = 3
    MaxEscalations = 2
    MaxRetries = 2
    MaxElapsed = 8
    InitialBackoff = 1
    MaxBackoff = 2
    Funds = 12
    MaxChanges = 1
INVARIANTS
    RejectionIsTruthful
    NoPreferredRouteOverlooked
PROPERTIES
    CallPermitted
    RecoveryDirection
