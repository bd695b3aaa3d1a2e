CONSTANTS
    Peer = {1, 2}
    Wall = {0, 1, 2}
    LogicalRange = 4
    MaxEvents = 5
SPECIFICATION Spec
CONSTRAINT FewEvents
INVARIANTS
    ClockInv
    Causality
PROPERTIES
    FreshStamps
CHECK_DEADLOCK FALSE
