----------------------------- MODULE StateMerge -----------------------------
(***************************************************************************)
(* The state-based side of the tables: what merge does to registers        *)
(* (src/src/crdt/mv_register.rs), row membership (crdt/orset.rs), tables   *)
(* (storage/row_store.rs) and version vectors (crdt/clocks.rs).            *)
(***************************************************************************)
EXTENDS RowStore

\* MvEntry::dominates, for different timestamps.
Dominates(e, f) == e.hlc.peer = f.hlc.peer /\ Before(f.hlc, e.hlc)

\* MvRegister::compact.
Undominated(reg) == {e \in reg : \A f \in reg : ~Dominates(f, e)}

Later(s, t) == IF Before(s, t) THEN t ELSE s

MergeTombstonesOther(a, b) == IF b = {} THEN a ELSE b

\* The larger of two optional timestamps.
MergeTombstones(a, b) ==
    IF a = {} THEN b ELSE IF b = {} THEN a
    ELSE {Later(x, y) : x \in a, y \in b}

-----------------------------------------------------------------------------
(* Forms of the merges with one plausible mistake each.                    *)

MergeCellUnion(a, b) == a \cup b

MergeEntryAnyRemove(e, f) ==
    [live      |-> (e.live \ e.removed) \cup (f.live \ f.removed),
     removed   |-> {},
     tombstone |-> MergeTombstones(e.tombstone, f.tombstone)]

MergeEntryOwnTombstone(e, f) ==
    [live      |-> e.live \cup f.live,
     removed   |-> e.removed \cup f.removed,
     tombstone |-> e.tombstone]

-----------------------------------------------------------------------------
\* MvRegister::merge.  Entries are keyed by timestamp: on a clash the code
\* keeps its own, and clashing entries are equal because stamps are unique.
MergeCell(a, b) == Undominated(a \cup b)

\* OrMap::merge for one row.
MergeEntry(e, f) ==
    [live      |-> e.live \cup f.live,
     removed   |-> e.removed \cup f.removed,
     tombstone |-> MergeTombstones(e.tombstone, f.tombstone)]

\* TableState::merge, with CrdtRow::merge for every row.
MergeTable(a, b) ==
    [members |-> [r \in DOMAIN a.members |-> MergeEntry(a.members[r], b.members[r])],
     cells   |-> [r \in DOMAIN a.cells |->
                    [c \in DOMAIN a.cells[r] |-> MergeCell(a.cells[r][c], b.cells[r][c])]]]

\* RowStore::merge of two stores with the same tables.
MergeStore(s, u) == [t \in DOMAIN s |-> MergeTable(s[t], u[t])]

-----------------------------------------------------------------------------
(* Version vectors: a clock value for every peer heard of.  Unheard is the *)
(* absence of an entry.                                                    *)

Unheard == [wall |-> 0, logical |-> 0, heard |-> FALSE]

Heard(c) == [wall |-> c.wall, logical |-> c.logical, heard |-> TRUE]

TakeEntry(c, d) == IF d.heard THEN d ELSE c

\* The larger of two entries; an entry that is created starts at (0, 0).
LaterEntry(c, d) ==
    IF ~d.heard THEN c ELSE IF ~c.heard \/ Earlier(c, d) THEN d ELSE c

\* VersionVector::observe.
VvObserve(vv, h) == [vv EXCEPT ![h.peer] = LaterEntry(@, Heard(h))]

\* VersionVector::merge.
VvMerge(vv, ww) == [p \in DOMAIN vv |-> LaterEntry(vv[p], ww[p])]

\* VersionVector::dominates_ts.
VvDominates(vv, h) == vv[h.peer].heard /\ ~Earlier(vv[h.peer], h)

\* VersionVector::dominated_by.
VvDominatedBy(vv, ww) ==
    \A p \in DOMAIN vv : vv[p].heard => ww[p].heard /\ ~Earlier(ww[p], vv[p])
=============================================================================
