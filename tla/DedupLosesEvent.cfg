SPECIFICATION Spec
CONSTANTS
    e1 = e1
    a = a
    b = b
    nobody = nobody
    Events = {e1}
    Keyed = {e1}
    Replicas = {a, b}
    NoReplica = nobody
    Slots = 1
    MaxDeliver = 2
    Configured = 2
    MaxAckPending = 1
    Heartbeat = TRUE
    Faults = {}
    MaxFaults = 0
CHECK_DEADLOCK FALSE
INVARIANT NothingLost
