CONSTANTS
    Peer = {1, 2, 3}
    Link <- FromFirst
    BucketSize = 2
    MaxStatements = 2
SPECIFICATION Spec
INVARIANTS
    CursorHonest
    GroupsSplitAtZero
    SafeToCollect
    DiffCoversMissing
PROPERTIES
    DeltasDeliver
CHECK_DEADLOCK FALSE
