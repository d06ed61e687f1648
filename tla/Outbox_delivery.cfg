SPECIFICATION Spec
CONSTANTS
    NumEvents = 2
    Workers = {w1, w2}
    Readers = {r1}
    NoOwner = NoOwner
    Limit = 1
    Lease = 2
    MaxWait = 1
    MaxFaults = 2
INVARIANTS
    OneLeaseHolder
PROPERTIES
    ImplementsDelivery
    EventuallyAcknowledged
CHECK_DEADLOCK FALSE
