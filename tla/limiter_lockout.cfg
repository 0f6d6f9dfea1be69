SPECIFICATION Spec
CONSTANTS
    Requests = {r1, r2}
    Keys = {k1}
    Limit = 1
    WindowSeconds = 2
    Second = 1
    MaxCount = 2
    NULL = NULL
INVARIANT CounterHasTtl
