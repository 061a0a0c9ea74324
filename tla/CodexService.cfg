SPECIFICATION Spec
CONSTANTS
    old = old
    new = new
    other = other
    h = h
    g = g
    Releases = {old, new, other}
    Legacy = {old}
    Homes = {h, g}
    HomeOf <- MCHomeOf
    NoRelease = NoRelease
    Pids = {p1, p2, p3}
    NoPid = NoPid
    Procs = {a, b}
    NoProc = NoProc
SYMMETRY Symmetry
INVARIANTS
    RunningSourceIsKnown
PROPERTIES
    OnlyTheDesired
    DescriptorGoesLast
