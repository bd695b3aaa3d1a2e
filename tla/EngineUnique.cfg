CONSTANTS
    Table <- MembersTables
    Row = {1, 2}
    Columns <- MembersColumns
    Unique <- MembersUnique
    ForeignKeys <- UsersForeignKeys
    Arbiter = 9
    Peer = {1, 2}
    Policies = {"tombstone"}
    Values <- MembersValues
    Updatable <- MembersUpdatable
    Statements = {"insert", "upsert", "delete", "update"}
    Offset <- LastAhead
    SyncTime = 0
    MaxTime = 0
    MaxStatements = 3
SPECIFICATION Spec
INVARIANTS
    WinnerHolds
    LosersNulled
    HoldersClaimed
CHECK_DEADLOCK FALSE
