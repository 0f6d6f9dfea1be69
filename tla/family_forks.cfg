SPECIFICATION SeededSpec
CONSTANTS
    Requests = {r1, r2, r3, r4}
    Seeds = {r1}
    Users = {u1}
    Passwords = {p1}
    NULL = NULL
    Second = 1
    RefreshLifetime = 1
    AccessLifetime = 1
    MaxTime = 0
INVARIANT FamilyIsChain
CHECK_DEADLOCK FALSE
