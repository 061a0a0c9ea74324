SPECIFICATION Spec
CONSTANTS
    Stores = {s, t}
    Callers = {a, b}
    Contents = {x, y}
    Absent = Absent
    Torn = Torn
    NoInode = NoInode
SYMMETRY Symmetry
INVARIANTS
    StoreTypeOK
    CheckedIsCurrent
    CloseWaits
PROPERTIES
    ImplementsCheckedDocument
