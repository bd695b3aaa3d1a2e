------------------------------- MODULE Engine -------------------------------
(***************************************************************************)
(* A cluster of engines (src/src/api/engine.rs with sql/planner.rs).  A    *)
(* statement is planned against the local tables, stamped by the local     *)
(* clock, applied and logged; a synchronisation merges two logs and        *)
(* rebuilds both engines from them.  Every method takes the engine         *)
(* exclusively (&mut self), so each is one step.                           *)
(***************************************************************************)
EXTENDS Replay

CONSTANTS
    Peer,           \* ranks of the peer identifiers
    Policies,       \* the foreign-key policies a peer may be opened with
    Values,         \* [Table -> [column -> values a statement may write]]
    Updatable,      \* [Table -> columns that UPDATE statements assign]
    Statements,     \* kinds of statements clients send
    Offset,         \* [Peer -> how far its physical clock is ahead]
    SyncTime,       \* milliseconds a synchronisation takes
    MaxTime,        \* bound on the physical time
    MaxStatements   \* bound on the statements sent to the cluster

ASSUME PoliciesAssumption == Policies \subseteq {"tombstone", "cascade", "orphan"}
ASSUME PeersAssumption == Peer \subseteq Nat /\ Arbiter \in Nat \ Peer
ASSUME ValuesAssumption ==
    \A t \in Table :
        /\ \A c \in Columns[t] : Values[t][c] \subseteq Nat
        /\ Updatable[t] \subseteq Columns[t]
\* Row holds every identifier that a foreign key cell can name.
ASSUME ReferencesAssumption ==
    \A i \in DOMAIN ForeignKeys :
        Values[ForeignKeys[i].child][ForeignKeys[i].col] \subseteq Row \cup {Null}
ASSUME TimeAssumption == Offset \in [Peer -> Nat] /\ SyncTime \in Nat /\ MaxTime \in Nat
ASSUME StatementsAssumption == MaxStatements \in Nat

VARIABLES
    now,        \* physical time in milliseconds
    sent,       \* statements sent so far
    clock,      \* Engine.clock
    log,        \* Engine.log: the operations in order
    store,      \* Engine.store
    claims,     \* Engine.uniqueness
    policy,     \* Engine.fk_resolver.policy, fixed when the engine is opened
    index       \* Engine.index_managers, an index on every table

vars == <<now, sent, clock, log, store, claims, policy, index>>

Init ==
    /\ now = 0
    /\ sent = 0
    /\ clock = [p \in Peer |-> [wall |-> 0, logical |-> 0]]
    /\ log = [p \in Peer |-> <<>>]
    /\ store = [p \in Peer |-> EmptyStore]
    /\ claims = [p \in Peer |-> <<>>]
    /\ policy \in [Peer -> Policies]
    /\ index = [p \in Peer |-> [t \in Table |-> {}]]

-----------------------------------------------------------------------------
(* Planning: the operations for one row, all under its timestamp h.        *)

Reservation(t, k, r, h, cells) ==
    [type |-> "reserve", table |-> t, constraint |-> k, row |-> r, hlc |-> h,
     value |-> [i \in DOMAIN Unique[t][k].cols |-> cells[Unique[t][k].cols[i]]]]

\* A single-column constraint claims a value unless it is NULL; a composite
\* key is always claimed, NULL counting as the empty string.
Claimed(t, k, cells) ==
    Unique[t][k].composite \/ cells[Unique[t][k].cols[1]] # Null

Reservations(t, ks, r, h, cells) ==
    LET wanted == {k \in ks : Claimed(t, k, cells)}
    IN  [i \in 1..Cardinality(wanted) |->
            Reservation(t, Ascending(wanted)[i], r, h, cells)]

PlanInsert(t, r, cells, h) ==
    <<[type |-> "insert", table |-> t, row |-> r, hlc |-> h, cells |-> cells]>>
        \o Reservations(t, DOMAIN Unique[t], r, h, cells)

\* An UPDATE claims the new values of single-column constraints only.
PlanUpdate(t, r, cells, h) ==
    LET ks == {k \in DOMAIN Unique[t] : /\ ~Unique[t][k].composite
                                        /\ Unique[t][k].cols[1] \in DOMAIN cells}
    IN  <<[type |-> "update", table |-> t, row |-> r, hlc |-> h, cells |-> cells]>>
            \o Reservations(t, ks, r, h, cells)

PlanHardDelete(p, t, r, h) ==
    <<[type |-> "delete", table |-> t, row |-> r, hlc |-> h, fkTombstone |-> FALSE]>>

PlanDelete(p, t, r, h) ==
    <<[type |-> "delete", table |-> t, row |-> r, hlc |-> h,
       fkTombstone |-> policy[p] = "tombstone"]>>

-----------------------------------------------------------------------------
(* Applying: Engine::apply_op for each planned operation in turn.          *)

\* Bound: all readings of the physical clock within one statement are equal.
WallClock(p) == now + Offset[p]

\* The timestamps of the n rows of a statement: all ticks precede the first
\* observe.
Ticks(p, n) ==
    LET c[i \in 0..n] == IF i = 0 THEN clock[p] ELSE TickClock(c[i - 1], WallClock(p))
    IN  [i \in 1..n |-> Stamp(c[i], p)]

ObserveAll(p, stamps, ops) ==
    FoldLeft(LAMBDA c, o : ObserveClock(c, o.hlc, WallClock(p)),
             [wall |-> Last(stamps).wall, logical |-> Last(stamps).logical], ops)

\* The cascade of a local delete: the children of the deleted row, one level.
CascadeFrom(s, op) ==
    FoldLeft(LAMBDA x, fk : IF fk.parent = op.table
                            THEN RemoveRows(x, fk.child, Children(x, fk, {op.row}))
                            ELSE x,
             s, ForeignKeys)

ApplyWithoutCascade(p, s, op) == ApplyOp(s, op)

ApplyLocally(p, s, op) ==
    IF op.type = "delete" /\ policy[p] = "cascade"
    THEN CascadeFrom(ApplyOp(s, op), op)
    ELSE ApplyOp(s, op)

\* The clients are idle once they have sent MaxStatements statements.
Send == sent < MaxStatements /\ sent' = sent + 1

\* The planned operations ops of a statement on table t, stamped with stamps.
Perform(p, t, stamps, ops) ==
    /\ Send
    /\ clock' = [clock EXCEPT ![p] = ObserveAll(p, stamps, ops)]
    /\ log' = [log EXCEPT ![p] = AppendAll(@, ops)]
    /\ claims' = [claims EXCEPT ![p] = FoldLeft(Reserve, @, ClaimOps(ops))]
    /\ store' = [store EXCEPT ![p] =
                    FoldLeft(LAMBDA s, o : ApplyLocally(p, s, o), @, RowOps(ops))]
    /\ index' = [index EXCEPT ![p][t] = IndexOf(store'[p], t)]
    /\ UNCHANGED <<now, policy>>

-----------------------------------------------------------------------------
(* Statements.                                                             *)

Inserted(t, r) ==
    \E p \in Peer : \E i \in DOMAIN log[p] :
        log[p][i].type = "insert" /\ log[p][i].table = t /\ log[p][i].row = r

\* The primary keys clients insert under: fresh ones, ones they do not see, or
\* any.
InsertKeys(p, t) ==
    {r \in Row : \/ ~Inserted(t, r)
                 \/ "reinsert" \in Statements /\ r \notin VisibleRows(store[p][t])
                 \/ "upsert" \in Statements}

\* The cells an INSERT may give a row.
Inputs(t) ==
    {f \in [Columns[t] -> UNION {Values[t][c] : c \in Columns[t]}] :
        \A c \in Columns[t] : f[c] \in Values[t][c]}

\* INSERT of one row.  An existing primary key is not an error.
Insert(p) ==
    \E t \in Table : \E r \in InsertKeys(p, t), cells \in Inputs(t) :
        /\ "insert" \in Statements
        /\ FkValid(store[p], policy[p], t, cells)
        /\ LET s == Ticks(p, 1) IN Perform(p, t, s, PlanInsert(t, r, cells, s[1]))

\* INSERT with a dangling foreign key: an error after the clock has ticked.
InsertRejected(p) ==
    \E t \in Table : \E cells \in Inputs(t) :
        /\ "insert" \in Statements
        /\ ~FkValid(store[p], policy[p], t, cells)
        /\ Send
        /\ clock' = [clock EXCEPT ![p] = TickClock(@, WallClock(p))]
        /\ UNCHANGED <<now, log, store, claims, policy, index>>

\* WHERE clauses: one primary key, or all rows.
Matching(p, t) ==
    {VisibleRows(store[p][t]) \cap m : m \in {{r} : r \in Row} \cup {Row}} \ {{}}

\* The rows of a statement in the order of their keys.
InOrder(rows) == Ascending(rows)

Update(p) ==
    \E t \in Table : \E rows \in Matching(p, t) :
    \E c \in Updatable[t] : \E v \in Values[t][c] \cup {Null} :
        LET order == InOrder(rows)
            stamps == Ticks(p, Len(order))
            planned == [i \in DOMAIN order |->
                            PlanUpdate(t, order[i], [x \in {c} |-> v], stamps[i])]
        IN  /\ "update" \in Statements
            /\ Perform(p, t, stamps, FlattenSeq(planned))

Delete(p) ==
    \E t \in Table : \E rows \in Matching(p, t) :
        LET order == InOrder(rows)
            stamps == Ticks(p, Len(order))
            planned == [i \in DOMAIN order |-> PlanDelete(p, t, order[i], stamps[i])]
        IN  /\ "delete" \in Statements
            /\ Perform(p, t, stamps, FlattenSeq(planned))

-----------------------------------------------------------------------------
(* Synchronisation and recovery.                                           *)

RebuildAllButIndexes(ps, newLog) ==
    LET built == [p \in ps |-> Rebuild(newLog[p], policy[p])]
    IN  /\ log' = newLog
        /\ store' = [p \in Peer |-> IF p \in ps THEN built[p].store ELSE store[p]]
        /\ claims' = [p \in Peer |-> IF p \in ps THEN built[p].claims ELSE claims[p]]
        /\ UNCHANGED index

\* The engines of the peers in ps with their logs replaced by newLog.
RebuildAll(ps, newLog) ==
    LET built == [p \in ps |-> Rebuild(newLog[p], policy[p])]
    IN  /\ log' = newLog
        /\ store' = [p \in Peer |-> IF p \in ps THEN built[p].store ELSE store[p]]
        /\ claims' = [p \in Peer |-> IF p \in ps THEN built[p].claims ELSE claims[p]]
        /\ index' = [p \in Peer |-> IF p \in ps
                                    THEN [t \in Table |-> IndexOf(store'[p], t)]
                                    ELSE index[p]]

Passing(d) == now + d <= MaxTime /\ now' = now + d

\* Engine::sync_with, which treats both peers alike.  The clocks observe nothing.
Sync(p, q) ==
    /\ RebuildAll({p, q},
                  [log EXCEPT ![p] = AppendAll(@, MissingOps(log[q], log[p])),
                              ![q] = AppendAll(@, MissingOps(log[p], log[q]))])
    /\ Passing(SyncTime)
    /\ UNCHANGED <<sent, clock, policy>>

\* Engine::sync_from.
SyncFrom(p, q) ==
    /\ RebuildAll({p}, [log EXCEPT ![p] = AppendAll(@, MissingOps(log[q], log[p]))])
    /\ Passing(SyncTime)
    /\ UNCHANGED <<sent, clock, policy>>

\* Engine::rebuild_store called directly, as recovery does.
Recover(p) ==
    /\ RebuildAll({p}, log)
    /\ UNCHANGED <<now, sent, clock, policy>>

Pass == Passing(1) /\ UNCHANGED <<sent, clock, log, store, claims, policy, index>>

Next ==
    \/ \E p \in Peer : \/ Insert(p)
                       \/ InsertRejected(p)
                       \/ Update(p)
                       \/ Delete(p)
                       \/ Recover(p)
    \/ \E p, q \in Peer : p < q /\ Sync(p, q)
    \/ \E p, q \in Peer : p # q /\ SyncFrom(p, q)
    \/ Pass

Spec == Init /\ [][Next]_vars

-----------------------------------------------------------------------------
(* Properties.                                                             *)

Ops(p) == ToSet(log[p])
Rebuilt(p) == Rebuild(log[p], policy[p])

TypeOK ==
    /\ now \in 0..MaxTime /\ sent \in 0..MaxStatements
    /\ clock \in [Peer -> [wall : Nat, logical : Nat]]
    /\ \A p \in Peer : \A t \in Table : \A r \in Row :
        LET e == store[p][t].members[r]
        IN  e.removed \subseteq e.live /\ Cardinality(e.tombstone) <= 1
    /\ \A p \in Peer : ToSet(claims[p]) \subseteq {o \in Ops(p) : IsClaim(o)}
    /\ \A p \in Peer : Len(log[p]) = Cardinality(Ops(p))

\* Peers that hold the same operations rebuild the same tables, whatever the
\* order in which the operations arrived (engine.rs, doc of rebuild_store:
\* "deterministic replay that guarantees convergence").
ReplayConverges ==
    \A p, q \in Peer :
        p < q /\ Ops(p) = Ops(q) /\ policy[p] = policy[q]
            => Rebuilt(p) = Rebuilt(q)

\* The rows of table state tab whose cells equal value under constraint k.
Holders(tab, t, k, value) ==
    {r \in VisibleRows(tab) :
        \A i \in DOMAIN value : Cell(tab, r, Unique[t][k].cols[i]) = value[i]}

\* The timestamps at which p has writes to one of cols in row r of table t.
WritesOf(p, t, r, cols) ==
    {o.hlc : o \in {u \in Ops(p) : /\ u.type \in {"insert", "update"}
                                   /\ u.table = t /\ u.row = r
                                   /\ cols \cap DOMAIN u.cells # {}}}

\* The null writes a rebuild makes to one of cols in row r of table t for
\* lost claims other than those in except.
NullsOf(allClaims, except, t, r, cols) ==
    {NullStamp(d) : d \in {c \in ToSet(allClaims) \ except :
        /\ c.table = t /\ c.row = r
        /\ Lost(allClaims, c) /\ cols \cap ColumnsOf(c) # {}}}

\* After a rebuild the row of the largest claim of a value holds it, unless it
\* was deleted, written again, or lost another claim on the column whose null
\* write is larger (uniqueness_protocol.rs: "The winner is the canonical row
\* in the relational table").
WinnerHolds ==
    \A p \in Peer : LET b == Rebuilt(p) IN
        \A c \in ToSet(b.claims) :
            /\ \A d \in ToSet(b.claims) \ {c} : SameValue(c, d) => Before(d.hlc, c.hlc)
            /\ c.row \in VisibleRows(b.store[c.table])
            => \/ c.row \in Holders(b.store[c.table], c.table, c.constraint, c.value)
               \/ \E h \in WritesOf(p, c.table, c.row, ColumnsOf(c))
                          \cup NullsOf(b.claims, {c}, c.table, c.row, ColumnsOf(c)) :
                       Before(c.hlc, h)

\* After a rebuild a row that lost a value holds it no more (engine.rs: "Null
\* out the conflicting column(s) so uniqueness is restored"), with three
\* exceptions: the row wrote to the column again later; or it lost another
\* value earlier whose null write comes after, and a register forgets what
\* the same peer, here the arbiter, has written, later or not; or the value
\* is a composite key of NULLs, which the null writes leave as it is.
LosersNulled ==
    \A p \in Peer : LET b == Rebuilt(p)
                        losers == {d \in ToSet(b.claims) : Lost(b.claims, d)} IN
        \A c \in losers :
            c.row \in Holders(b.store[c.table], c.table, c.constraint, c.value) =>
                \/ ToSet(c.value) \subseteq {Null}
                \/ \E h \in WritesOf(p, c.table, c.row, ColumnsOf(c)) : Before(c.hlc, h)
                \/ \E d \in losers : /\ d.table = c.table /\ d.row = c.row
                                     /\ ColumnsOf(d) \cap ColumnsOf(c) # {}
                                     /\ NullOrder(c, d) /\ Before(d.hlc, c.hlc)

\* A visible row has a claimed value without having claimed it itself only
\* through an UPDATE, which claims nothing under a composite key, or through a
\* null write (planner.rs: a reservation for every UNIQUE constraint).
HoldersClaimed ==
    \A p \in Peer : LET b == Rebuilt(p) IN
        \A c \in ToSet(b.claims) :
            \A r \in Holders(b.store[c.table], c.table, c.constraint, c.value) :
                \/ \E d \in ToSet(b.claims) : SameValue(c, d) /\ d.row = r
                \/ \E o \in Ops(p) : /\ o.type = "update" /\ o.table = c.table /\ o.row = r
                                     /\ ColumnsOf(c) \cap DOMAIN o.cells # {}
                \/ NullsOf(b.claims, {}, c.table, r, ColumnsOf(c)) # {}

\* After a rebuild no two visible rows share a value under a UNIQUE
\* constraint (randomized_chaos.rs, check after convergence).
UniqueHolds ==
    \A p \in Peer : LET b == Rebuilt(p) IN
        \A i \in DOMAIN b.claims : LET c == b.claims[i] IN
            Cardinality(Holders(b.store[c.table], c.table, c.constraint, c.value)) <= 1

\* The rows a peer shows are those a replay of its log shows (op_log.rs: "Row
\* state is a materialized view derived from replaying the op-log").  Their
\* cells may differ until the next rebuild: a conflict among local inserts
\* leaves the loser's value in place, and only a rebuild writes the null.
RowsAreView ==
    \A p \in Peer : \A t \in Table :
        VisibleRows(store[p][t]) = VisibleRows(Rebuilt(p).store[t])

\* Inserts of row r of table t in the log of peer p.
InsertsOf(p, t, r) ==
    {o \in Ops(p) : o.type = "insert" /\ o.table = t /\ o.row = r}

\* A row that a peer does not show any more reappears there only with an
\* insert the peer did not have before (adversarial.rs, T09: "deleted row
\* must not resurrect after reconnect").
DeletedStaysDeleted ==
    [][\A p \in Peer : \A t \in Table : \A r \in Row :
        r \in VisibleRows(store'[p][t]) \ VisibleRows(store[p][t])
            => InsertsOf(p, t, r)' # InsertsOf(p, t, r)]_vars

\* The index of a table shows every row the table has, through statements,
\* cascades and rebuilds; what it shows besides are rows that the cascade of a
\* local delete has removed (secondary_index.rs: "Any peer with the same CRDT
\* state will produce the same index").
IndexShowsRows ==
    \A p \in Peer : \A t \in Table :
        LET rows == IndexOf(store[p], t)
        IN  /\ rows \subseteq index[p][t]
            /\ \A e \in index[p][t] \ rows :
                /\ e[2] \notin VisibleRows(store[p][t])
                /\ policy[p] = "cascade"
                /\ \E i \in DOMAIN ForeignKeys : ForeignKeys[i].child = t

\* Where all peers follow the tombstone policy the parent of a visible row
\* exists, possibly deleted: no peer ever has a child without having heard of
\* its parent (fk_resolution.rs, module comment).  This is so of references
\* made by an INSERT; an UPDATE validates nothing.
ParentsKnown ==
    policy = [p \in Peer |-> "tombstone"] =>
        \A p \in Peer : \A i \in DOMAIN ForeignKeys :
            LET fk == ForeignKeys[i]
                child == store[p][fk.child]
            IN  \A r \in VisibleRows(child) : \A w \in Canonical(child.cells[r][fk.col]) :
                    /\ w.value # Null
                    /\ \E o \in Ops(p) : o.type = "insert" /\ o.hlc = w.hlc
                    => ExistsForFk(store[p][fk.parent].members[w.value])

\* The cascade of a rebuild removes a row exactly when the row refers to one
\* that was deleted or removed by the cascade, however long the chain of
\* references, and changes nothing else: a reference to a row nobody inserted
\* removes nothing.  This is all that distinguishes peers with one log opened
\* with different policies (engine.rs: "Repeat until no more cascades fire").
CascadeExact ==
    \A p \in Peer :
        LET all  == Rebuild(log[p], "tombstone").store
            kept == CascadeAll(all)
            Orphaned(t, r) ==
                \E i \in DOMAIN ForeignKeys :
                    LET fk == ForeignKeys[i]
                        parent == Cell(all[t], r, fk.col)
                    IN  /\ fk.child = t /\ parent \in Row
                        /\ IsDeleted(kept[fk.parent].members[parent])
        IN  \A t \in Table :
                /\ kept[t].cells = all[t].cells
                /\ VisibleRows(kept[t]) = {r \in VisibleRows(all[t]) : ~Orphaned(t, r)}

\* A delete that reaches a peer with the cascade policy, through a statement
\* or a synchronisation, leaves no visible row that refers to the deleted row,
\* even before the next rebuild (engine.rs: "enforce FK Cascade policy eagerly
\* on the local store for immediate correctness").
CascadesAtOnce ==
    [][\A p \in Peer : policy[p] = "cascade" =>
        \A i \in DOMAIN ForeignKeys :
            LET fk == ForeignKeys[i]
                new == {o \in Ops(p)' \ Ops(p) : o.type = "delete" /\ o.table = fk.parent}
                gone == {r \in {o.row : o \in new} :
                            IsDeleted(store'[p][fk.parent].members[r])}
            IN  Children(store'[p], fk, gone) = {}]_vars

\* The logs with their order forgotten implement fingerprint anti-entropy, and
\* the clocks are where it needs them.
AE == INSTANCE AntiEntropy WITH
        Wall <- Nat, Logical <- Nat, Body <- {}, Link <- {},
        log <- [p \in Peer |-> Ops(p)]

ImplementsAntiEntropy ==
    [][\/ \E p \in Peer : AE!Statement(p, clock'[p], Ops(p)' \ Ops(p))
       \/ \E p, q \in Peer : p # q /\ (AE!Sync(p, q) \/ AE!SyncFrom(p, q))
      ]_<<clock, [p \in Peer |-> Ops(p)]>>

GroupsWhole == AE!Floor /\ AE!Origin /\ AE!GroupsWhole
=============================================================================
