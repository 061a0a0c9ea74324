SPECIFICATION Spec
CONSTANTS
    Hosts = {a, b}
    Owners = {o, q}
    Keys = {k}
    Absent = Absent
    NoHost = NoHost
SYMMETRY Symmetry
INVARIANTS
    AnswersAreTrue
PROPERTIES
    OthersAreKept
