CONSTANTS
    Worker = {w1, w2}
    Engines <- FourEngines
    Lock <- Locks
    Program <- ScenariosAndHeartbeat
    MaxRequests = 2
SPECIFICATION Spec
INVARIANTS
    NoDeadlock
CHECK_DEADLOCK FALSE
