SPECIFICATION Spec
CONSTANTS
    Clients = {}
    Callers = {a, b}
    MaxWatchers = 1
    MaxConcurrentRPC = 2
    MaxEpoch = 2
    MaxRevision = 6
    AppStatuses <- MCStatuses
SYMMETRY Symmetry
INVARIANTS
    MaintenanceIsRecorded
PROPERTIES
    DrainAnswerIsTrue
    ImplementsDrainContract
CHECK_DEADLOCK FALSE
