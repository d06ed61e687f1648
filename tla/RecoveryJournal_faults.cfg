SPECIFICATION Spec
CONSTANTS
    Tasks = {t1, t2}
    ShadowTasks = {t1}
    MaxRevision = 4
    Faults = {"outage", "lost_ack", "append_error", "torn_append", "reconcile_crash", "replace_error", "replay_lost_ack"}
    MaxFaults = 3
INVARIANTS
    RowFollowsOwner
    NothingLostSilently
PROPERTIES
    ProductionDrains
    RecoverableIsStored
CHECK_DEADLOCK FALSE
