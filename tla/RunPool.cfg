SPECIFICATION FairSpec
CONSTANTS
    a = a
    b = b
    r1 = r1
    r2 = r2
    r3 = r3
    r4 = r4
    r5 = r5
    Pairs = {a, b}
    NoLimit = NoLimit
    Runs = {r1, r2, r3, r4, r5}
    PairOf <- MCPairOf
    MaxPairs = 2
    PairLimit <- MCPairLimit
    ExtraLimit <- MCExtraLimit
INVARIANTS TypeOK SlotsAccounted NoLostWakeup
PROPERTIES FifoWithinPair GrantsWithinLimits EveryWaiterServed
