SPECIFICATION FairSpec
CONSTANTS
    e1 = e1
    a = a
    b = b
    nobody = nobody
    Events = {e1}
    Keyed = {}
    Replicas = {a, b}
    NoReplica = nobody
    Slots = 1
    MaxDeliver = 3
    Configured = 3
    MaxAckPending = 1
    Heartbeat = TRUE
    Faults = {"pause", "deadline", "crash", "cancel", "cut", "cache", "lost", "silence"}
    MaxFaults = 2
CHECK_DEADLOCK FALSE
PROPERTIES ImplementsAtLeastOnce EveryEventAccounted
