CONSTANTS
    Worker = {w1, w2}
    Engines <- TwoEngines
    Lock <- Locks
    Program <- GatedPrograms
    MaxRequests = 2
SPECIFICATION FairSpec
INVARIANTS
    NestedUnderMap
    NoDeadlock
PROPERTIES
    Served
CHECK_DEADLOCK FALSE
