SPECIFICATION Spec
CONSTANTS
    Requests = {r1, r2, r3, r4}
    Seeds = {}
    Users = {u1}
    Passwords = {p1, p2}
    NULL = NULL
    Second = 1
    RefreshLifetime = 1
    AccessLifetime = 1
    MaxTime = 0
SYMMETRY Symmetry
INVARIANTS TypeOK GrantMatchesRow Lineage RevocationCovers
PROPERTIES RevocationIsFinal RotationHandsOver DeactivationLocksOut ImplementsLedger
CHECK_DEADLOCK FALSE
