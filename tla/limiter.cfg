SPECIFICATION FairSpec
CONSTANTS
    Requests = {r1, r2, r3}
    Keys = {k1}
    Limit = 2
    WindowSeconds = 2
    Second = 2
    MaxCount = 3
    NULL = NULL
INVARIANTS TypeOK BurstIsBounded RetryAfterInRange
PROPERTY LimitIsLifted
