SPECIFICATION LatchSpec
CONSTANTS
    t1 = t1
    t2 = t2
    o1 = o1
    o2 = o2
    r1 = r1
    r2 = r2
    loop = loop
    none = none
    unlimited = unlimited
    Topics = {t1, t2}
    Observers = {o1, o2}
    RetryTasks = {r1, r2}
    Loop = loop
    NoOne = none
    Unlimited = unlimited
    Retries = {1, unlimited}
    MaxFaults = 2
    MaxSubs = 2
INVARIANT LatchedStops
