SPECIFICATION FairSpec
CONSTANTS
    Requests = {r1, r2, r3}
    Addresses = {a1, a2}
    Handlers = 2
    NULL = NULL
INVARIANTS TypeOK OneAccountPerMailbox ConflictIsReal EventsFollowCommit
PROPERTY EveryRegistrationEnds
CHECK_DEADLOCK FALSE
