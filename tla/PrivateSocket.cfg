SPECIFICATION SocketSpec
CONSTANTS
    Procs = {a, b, c}
    NoProc = NoProc
    MaxInode = 4
SYMMETRY Symmetry
INVARIANTS
    
    ServerIsReachable
PROPERTIES
    LiveSocketsStay
CHECK_DEADLOCK FALSE
