SPECIFICATION Spec
CONSTANTS
    Tasks = {t1}
    ShadowTasks = {t1}
    MaxRevision = 5
    Faults = {"outage", "append_error"}
    MaxFaults = 2
PROPERTIES
    SuccessIsStored
CHECK_DEADLOCK FALSE
