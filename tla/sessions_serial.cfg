SPECIFICATION SeededSerialSpec
CONSTANTS
    Requests = {r1, r2, r3, r4}
    Seeds = {r1}
    Users = {u1}
    Passwords = {p1}
    NULL = NULL
    Second = 2
    RefreshLifetime = 3
    AccessLifetime = 2
    MaxTime = 3
SYMMETRY Symmetry
INVARIANTS RotatedBeforeExpiry FamilyIsChain
PROPERTIES LogoutAndReplayEndFamily PasswordChangeEndsSessions DeadFamilyStaysDead
CHECK_DEADLOCK FALSE
