SPECIFICATION FairSpec
CONSTANTS
    leader = leader
    p1 = p1
    p2 = p2
    Procs <- MCProcs
    Leader <- leader
    MaxRevisions = 1
INVARIANTS
    ReturnIsClean
PROPERTIES
    EffectsPrecedeTheAnswer
    CallReturns
