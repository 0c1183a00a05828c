SPECIFICATION FairSpec
CONSTANTS
    n1 = n1
    n2 = n2
    Names = {n1, n2}
    MaxVersion = 2
    MaxBindings = 5
    Budgets <- SmallBudgets
INVARIANTS NothingLeftBehind RevokedOrDone ReadyDelivers
PROPERTIES NewBeforeOld Converges
CHECK_DEADLOCK FALSE
