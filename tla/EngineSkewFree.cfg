CONSTANTS
    Table <- UsersTables
    Row = {1, 2}
    Columns <- UsersColumns
    Unique <- UsersUnique
    ForeignKeys <- UsersForeignKeys
    Arbiter = 9
    Peer = {1, 2}
    Policies = {"tombstone"}
    Values <- UsersValues
    Updatable <- UsersUpdatable
    Statements = {"insert", "update", "delete", "upsert"}
    Offset <- NoSkew
    SyncTime = 1
    MaxTime = 2
    MaxStatements = 3
SPECIFICATION Spec
INVARIANTS
    TypeOK
    ReplayConverges
    RowsAreView
    GroupsWhole
PROPERTIES
    DeletedStaysDeleted
    ImplementsAntiEntropy
CHECK_DEADLOCK FALSE
