CONSTANTS
    Table = {"users"}
    Row = {1, 2}
    Columns <- UsersColumns
    Unique <- UsersUnique
    ForeignKeys <- UsersForeignKeys
    Peer = {1, 2, 3}
    Wall = {1}
    Value = {1}
    Claiming = TRUE
    MaxOps = 3
SPECIFICATION Spec
INVARIANTS
    CellsAreLatest
    AddWins
    TombstonesKept
    VersionsCompare
    OneOwner
    LosersLogged
    ClaimsConverge
    MergeIsJoin
CHECK_DEADLOCK FALSE
