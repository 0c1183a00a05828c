SPECIFICATION FairSpec
CONSTANTS
    j1 = j1
    a = a
    b = b
    Jobs = {j1}
    Replicas = {a}
    Copies = {1, 2, 3}
    Slots = 2
    MaxReconnects = 2
    Faults = {"connect", "drop", "listing", "pause", "pause again", "key", "refused", "call", "stale", "retryable", "timeout", "forgotten", "shutdown"}
    MaxFaults = 3
CHECK_DEADLOCK FALSE
INVARIANTS WorkUndisturbed GuardHeld FinishedLeftAlone QuietWhenUnregistered StreamReopened
PROPERTY EveryJobTried
