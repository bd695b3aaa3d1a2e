CONSTANTS
    Peer = {1, 2, 3}
    Wall = {0}
    Logical = {0, 1, 2}
    Body = {"write", "reserve"}
    Link <- Line
    MaxOps = 3
SPECIFICATION BoundedSpec
INVARIANTS
    LogInv
PROPERTIES
    ImplementsReplicatedSet
    Delivery
CHECK_DEADLOCK FALSE
