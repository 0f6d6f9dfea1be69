SPECIFICATION SeededFairSpec
CONSTANTS
    Requests = {r1, r2, r3, r4}
    Seeds = {r1, r2}
    Users = {u1, u2}
    Passwords = {p1}
    NULL = NULL
    Second = 1
    RefreshLifetime = 1
    AccessLifetime = 1
    MaxTime = 0
PROPERTIES OnlyOwnSessionsEnd EveryRequestEnds
CHECK_DEADLOCK FALSE
