CONSTANTS
    Peer = {p1, p2, p3}
    MaxGeneration = 2
    MaxTime = 2
    MaxOps = 2
    MaxRequests = 3
SPECIFICATION Spec
INVARIANTS
    ResetIsolates
    SyncAllReaches
    ReconnectReaches
    
PROPERTIES
    OfflineReceives
CONSTRAINT TwoAtATime
SYMMETRY Names
CHECK_DEADLOCK FALSE
