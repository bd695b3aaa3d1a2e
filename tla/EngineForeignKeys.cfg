CONSTANTS
    Table <- ChainTables
    Row = {1}
    Columns <- ChainColumns
    Unique <- ChainUnique
    ForeignKeys <- ChainForeignKeys
    Arbiter = 9
    Peer = {1, 2}
    Policies = {"tombstone", "cascade"}
    Values <- ChainValues
    Updatable <- ChainUpdatable
    Statements = {"insert", "delete", "reinsert", "update"}
    Offset <- LastAhead
    SyncTime = 0
    MaxTime = 0
    MaxStatements = 4
SPECIFICATION Spec
INVARIANTS
    ParentsKnown
    CascadeExact
    IndexShowsRows
PROPERTIES
    CascadesAtOnce
CHECK_DEADLOCK FALSE
