SPECIFICATION FairSpec
CONSTANTS
    Clients = {c1, c2}
    Callers = {a}
    MaxWatchers = 1
    MaxConcurrentRPC = 2
    MaxEpoch = 2
    MaxRevision = 3
    AppStatuses <- OneStatus
INVARIANTS
    WatchersAreServed
PROPERTIES
    NoSilentGap
    ShutdownCompletes
    WatchersCatchUp
CHECK_DEADLOCK FALSE
