SPECIFICATION BoundedSpec
CONSTANTS
    Requests = {r1, r2, r3}
    Probes = {r3}
    alone = r1
    PoolSize = 1
    MaxOverflow = 1
    Threads = 1
    MaxOutages = 1
    Commands = {migrate, c1, c2, c3}
    migrate = migrate
INVARIANTS TypeOK SchemaMatchesVersion ServingOnHead
INVARIANTS SlotsAccountedFor FailuresHaveCause ExternalWaitsHoldNothing CleanShutdown
PROPERTY EveryRequestIsAnswered
CHECK_DEADLOCK FALSE
