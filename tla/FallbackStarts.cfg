SPECIFICATION Spec
CONSTANTS
    Deployments <- Outage
    Builders <- MCBuilders
    ReservedNames = {}
INVARIANT FallbackStarts
CHECK_DEADLOCK FALSE
