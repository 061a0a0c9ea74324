SPECIFICATION Spec
CONSTANTS
    Releases = {v1, v2, v3}
    NoRelease = NoRelease
    Pids = {p1, p2, p3, p4}
    NoPid = NoPid
    Procs = {a, b}
    NoProc = NoProc
SYMMETRY Symmetry
INVARIANTS
    CommandsHoldTheDescriptor
    UnitMatchesPhase
    RunningReleaseIsKnown
    EnabledServiceCanBoot
    DrainedIsAccountedFor
PROPERTIES
    UpgradeIsExact
    RemovalIsSafe
