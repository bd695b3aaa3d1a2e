------------------------------ MODULE RowStore ------------------------------
(***************************************************************************)
(* The materialised tables of one peer (src/src/storage/row_store.rs,      *)
(* crdt/orset.rs, crdt/mv_register.rs) and the operations that change      *)
(* them (crdt/merge.rs).                                                   *)
(*                                                                         *)
(* Row identifiers and cell values are naturals, ordered as the code       *)
(* orders the strings they stand for; Null is the absent value.  A foreign *)
(* key cell holds the identifier of the row it refers to.                  *)
(***************************************************************************)
EXTENDS Hlc, Sequences, FiniteSets

CONSTANTS
    Table,      \* names of the tables, all created before the first step
    Row,        \* row identifiers, a set of positive naturals
    Columns,    \* [Table -> set of columns besides the primary key]
    Unique,     \* [Table -> Seq([cols : Seq(column), composite : BOOLEAN])]:
                \* UNIQUE constraints in the order of their index names
    ForeignKeys \* Seq([child, col, parent]) in the order of child tables

ASSUME TableAssumption == IsFiniteSet(Table)
ASSUME RowAssumption == Row \subseteq Nat \ {0} /\ IsFiniteSet(Row)
ASSUME ColumnsAssumption == Columns \in [Table -> SUBSET STRING]
ASSUME UniqueAssumption ==
    /\ Unique \in [Table -> Seq([cols : Seq(STRING), composite : BOOLEAN])]
    /\ \A t \in Table : \A k \in DOMAIN Unique[t] :
        /\ \A i \in DOMAIN Unique[t][k].cols : Unique[t][k].cols[i] \in Columns[t]
        /\ Unique[t][k].composite \/ Len(Unique[t][k].cols) = 1
ASSUME ForeignKeysAssumption ==
    /\ ForeignKeys \in Seq([child : Table, col : STRING, parent : Table])
    /\ \A i \in DOMAIN ForeignKeys : ForeignKeys[i].col \in Columns[ForeignKeys[i].child]

Null == 0

-----------------------------------------------------------------------------
(* Multi-value registers: sets of entries [hlc, value].                    *)

\* MvRegister::write drops every entry of the same peer, older or newer.
WriteCell(reg, h, v) ==
    {e \in reg : e.hlc.peer # h.peer} \cup {[hlc |-> h, value |-> v]}

\* MvRegister::canonical_value: the entry with the largest timestamp, none if
\* the register was never written.
Canonical(reg) == {e \in reg : \A f \in reg : ~Before(e.hlc, f.hlc)}

\* MvRegister::read.
ReadCell(reg) ==
    IF reg = {} THEN Null ELSE (CHOOSE e \in Canonical(reg) : TRUE).value

-----------------------------------------------------------------------------
(* Row membership: the entries of the observed-remove map.  An entry with  *)
(* no token stands for a row the map has no entry for.  tombstone holds at *)
(* most one timestamp.                                                     *)

Absent == [live |-> {}, removed |-> {}, tombstone |-> {}]

IsLive(e) == e.live \ e.removed # {}
IsVisible(e) == IsLive(e) /\ e.tombstone = {}
ExistsForFk(e) == IsLive(e) \/ e.tombstone # {}
IsDeleted(e) == e # Absent /\ ~IsLive(e)

AddToken(e, h) == [e EXCEPT !.live = @ \cup {h}, !.tombstone = {}]

RemoveTokensUnobserved(e, h, fkTombstone) ==
    IF e = Absent THEN e
    ELSE [e EXCEPT !.removed   = @ \cup {h},
                   !.tombstone = IF fkTombstone THEN {h} ELSE @]

\* OrMap::delete: exactly the tokens seen so far; a row the map has no entry
\* for is left alone.
RemoveTokens(e, h, fkTombstone) ==
    IF e = Absent THEN e
    ELSE [e EXCEPT !.removed   = @ \cup e.live,
                   !.tombstone = IF fkTombstone THEN {h} ELSE @]

-----------------------------------------------------------------------------
(* Tables: members is the OR-map, cells the registers of every row.        *)

EmptyTable(t) ==
    [members |-> [r \in Row |-> Absent],
     cells   |-> [r \in Row |-> [c \in Columns[t] |-> {}]]]

EmptyStore == [t \in Table |-> EmptyTable(t)]

WriteCells(tab, r, h, cells) ==
    [tab EXCEPT !.cells[r] =
        [c \in DOMAIN @ |-> IF c \in DOMAIN cells
                            THEN WriteCell(@[c], h, cells[c])
                            ELSE @[c]]]

InsertRow(tab, r, h, cells) ==
    [WriteCells(tab, r, h, cells) EXCEPT !.members[r] = AddToken(@, h)]

DeleteRow(tab, r, h, fkTombstone) ==
    [tab EXCEPT !.members[r] = RemoveTokens(@, h, fkTombstone)]

VisibleRows(tab) == {r \in Row : IsVisible(tab.members[r])}
Cell(tab, r, c) == ReadCell(tab.cells[r][c])

ApplyOpReviving(store, op) ==
    [store EXCEPT ![op.table] =
        IF op.type = "delete" THEN DeleteRow(@, op.row, op.hlc, op.fkTombstone)
        ELSE InsertRow(@, op.row, op.hlc, op.cells)]

\* RowStore::apply_op for the operations on rows; the writes of an update
\* reach deleted rows too.
ApplyOp(store, op) ==
    [store EXCEPT ![op.table] =
        CASE op.type = "insert" -> InsertRow(@, op.row, op.hlc, op.cells)
          [] op.type = "update" -> WriteCells(@, op.row, op.hlc, op.cells)
          [] op.type = "delete" -> DeleteRow(@, op.row, op.hlc, op.fkTombstone)]

-----------------------------------------------------------------------------
(* Foreign keys.                                                           *)

\* Visible rows of the child table of foreign key fk that refer to a row in
\* parents.
Children(store, fk, parents) ==
    {r \in VisibleRows(store[fk.child]) :
        Cell(store[fk.child], r, fk.col) \in parents}

\* A hard delete of a set of rows: the timestamp given to delete_row is not
\* recorded when it leaves no tombstone.
RemoveRows(store, t, rows) ==
    [store EXCEPT ![t].members =
        [r \in Row |-> IF r \in rows THEN RemoveTokens(@[r], <<>>, FALSE) ELSE @[r]]]

\* FkResolver::validate_insert for the cells of a row of table t.
FkValid(store, policy, t, cells) ==
    \A i \in DOMAIN ForeignKeys :
        LET fk == ForeignKeys[i]
        IN  fk.child = t /\ cells[fk.col] # Null =>
                \/ ExistsForFk(store[fk.parent].members[cells[fk.col]])
                \/ policy = "orphan"

\* SecondaryIndex::rebuild_from, for an index on every column of the table.
IndexOf(store, t) ==
    {<<[c \in Columns[t] |-> Cell(store[t], r, c)], r>> : r \in VisibleRows(store[t])}
=============================================================================
