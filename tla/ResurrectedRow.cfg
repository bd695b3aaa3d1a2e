CONSTANTS
    Table <- UsersTables
    Row = {1}
    Columns <- UsersColumns
    Unique <- UsersUnique
    ForeignKeys <- UsersForeignKeys
    Arbiter = 9
    Peer = {1, 2}
    Policies = {"tombstone"}
    Values <- UsersValues
    Updatable <- UsersUpdatable
    Statements = {"insert", "delete"}
    Offset <- NoSkew
    SyncTime = 0
    MaxTime = 0
    MaxStatements = 2
SPECIFICATION Spec
PROPERTIES
    DeletedStaysDeleted
CHECK_DEADLOCK FALSE
