SPECIFICATION ShadowSpec
CONSTANTS
    Tasks = {t1, t2}
    Actions <- ThreeActions
    Circumstances <- Cases
    Rate = 50
    Bound <- Bounds
    Charges = {0, 1, 2}
    TaskCap = 3
    PeriodCap = 3
    MaxFaults = 2
    Ceilings <- Authority
SYMMETRY Symmetric
INVARIANTS
    SpendWithinCaps
    NothingStranded
