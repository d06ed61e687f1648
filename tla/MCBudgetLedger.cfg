SPECIFICATION Spec
SYMMETRY LedgerSymmetry
CONSTANTS
    Clients = {c1, c2}
    NoClient = NoClient
    Tasks = {t1, t2, tx}
    ForeignTasks = {tx}
    Actions = {a1, a2}
    Amounts = {1, 2}
    Actuals = {0, 3}
    AppCeiling = 3
    TaskCeiling = 2
INVARIANTS
    DebitWithinCeilings
    GrantedIsHeld
    QuoteAgreesWithReserve
PROPERTIES
    ImplementsAllocation
