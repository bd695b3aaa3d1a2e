------------------------------- MODULE Replay -------------------------------
(***************************************************************************)
(* Engine::rebuild_store (src/src/api/engine.rs): the tables and the       *)
(* uniqueness state as a function of an operation log.  Claims are the     *)
(* reservations of UniqueIndex (constraints/uniqueness_protocol.rs) in the *)
(* order in which they were accepted; a claim is the ReserveUnique         *)
(* operation itself.                                                       *)
(***************************************************************************)
EXTENDS RowStore, OpLog

CONSTANT Arbiter    \* rank of the identifier "__uniqueness_arbiter__"

-----------------------------------------------------------------------------
(* Replay order.                                                           *)

IsClaim(op) == op.type = "reserve"
RowOps(ops) == Picked(ops, {i \in DOMAIN ops : ~IsClaim(ops[i])})
ClaimOps(ops) == Picked(ops, {i \in DOMAIN ops : IsClaim(ops[i])})

Tier(op) == IF IsClaim(op) THEN 2 ELSE 1

ArrivalOrder(a, b) == Tier(a) < Tier(b)

TypeRank(op) ==
    CASE op.type = "insert" -> 1 [] op.type = "update" -> 2
      [] op.type = "delete" -> 3 [] op.type = "reserve" -> 4

TypeOrder(a, b) ==
    \/ TypeRank(a) < TypeRank(b)
    \/ TypeRank(a) = TypeRank(b) /\ Before(a.hlc, b.hlc)

\* Reservations after row operations, each tier in timestamp order.  Claims
\* of one row on several constraints share a timestamp and commute.
ReplayOrder(a, b) ==
    \/ Tier(a) < Tier(b)
    \/ Tier(a) = Tier(b) /\ Before(a.hlc, b.hlc)
    \/ Tier(a) = Tier(b) /\ a.hlc = b.hlc /\ IsClaim(a) /\ a.constraint < b.constraint

-----------------------------------------------------------------------------
(* Reservations.                                                           *)

SameValue(a, b) ==
    a.value = b.value /\ a.constraint = b.constraint /\ a.table = b.table

ReserveOncePerPeer(claims, op) ==
    IF \E i \in DOMAIN claims : /\ SameValue(claims[i], op)
                                /\ claims[i].hlc.peer = op.hlc.peer
    THEN claims
    ELSE Append(claims, op)

\* UniqueIndex::reserve: a second claim of a value by the same row and peer
\* is ignored, whatever its timestamp.
Reserve(claims, op) ==
    IF \E i \in DOMAIN claims : /\ SameValue(claims[i], op)
                                /\ claims[i].row = op.row
                                /\ claims[i].hlc.peer = op.hlc.peer
    THEN claims
    ELSE Append(claims, op)

BeatsFirstCome(a, b) == Before(a.hlc, b.hlc)

\* The election of UniqueIndex::resolve_conflicts_for_value: the largest
\* timestamp, peer included, then the largest row.
Beats(a, b) == Before(b.hlc, a.hlc) \/ (a.row > b.row /\ a.hlc = b.hlc)

\* ReservationState::Lost: some rival claim of the value is larger.
Lost(claims, c) ==
    \E i \in DOMAIN claims : SameValue(claims[i], c) /\ Beats(claims[i], c)

\* Values in lexicographic order.
ValueLess(v, w) ==
    \E i \in DOMAIN w : /\ \A j \in 1..(i - 1) : j \in DOMAIN v /\ v[j] = w[j]
                        /\ i \in DOMAIN v => v[i] < w[i]

\* The iteration order of the null writes: constraint, value, then the order
\* in which the claims were accepted, which in a replay is timestamp order.
\* The code goes table by table; null writes to different tables commute.
NullOrder(a, b) ==
    \/ a.constraint < b.constraint
    \/ /\ a.constraint = b.constraint
       /\ ValueLess(a.value, b.value) \/ (a.value = b.value /\ Before(a.hlc, b.hlc))

NullStampOfWall(c) == [c.hlc EXCEPT !.logical = 0, !.peer = Arbiter]

\* The null write for a lost claim is stamped just after the claim itself.
NullStamp(c) == [c.hlc EXCEPT !.logical = @ + 1, !.peer = Arbiter]

ColumnsOf(c) == ToSet(Unique[c.table][c.constraint].cols)

NullLoser(store, c) ==
    IF IsVisible(store[c.table].members[c.row])
    THEN [store EXCEPT ![c.table] =
            WriteCells(@, c.row, NullStamp(c), [x \in ColumnsOf(c) |-> Null])]
    ELSE store

NullLosers(store, claims) ==
    LET losers == Picked(claims, {i \in DOMAIN claims : Lost(claims, claims[i])})
    IN  FoldLeft(NullLoser, store, Sorted(losers, NullOrder))

-----------------------------------------------------------------------------
(* Cascading deletes.                                                      *)

CascadeOverMissing(store, fk) ==
    RemoveRows(store, fk.child,
               Children(store, fk, {r \in Row : ~IsLive(store[fk.parent].members[r])}))

\* One foreign key: delete the visible children of deleted parents.
CascadeOver(store, fk) ==
    LET deleted == {r \in Row : IsDeleted(store[fk.parent].members[r])}
    IN  RemoveRows(store, fk.child, Children(store, fk, deleted))

CascadeOnce(store) == FoldLeft(CascadeOver, store, ForeignKeys)

CascadeOnePass(store) == CascadeOnce(store)

\* Passes over all foreign keys until nothing changes.  Every pass but the
\* last deletes a row, so one pass per row of each table is enough, and a
\* pass beyond the fixpoint changes nothing.
CascadeAll(store) ==
    LET pass[n \in Nat] == IF n = 0 THEN store ELSE CascadeOnce(pass[n - 1])
    IN  pass[Cardinality(Table) * Cardinality(Row)]

-----------------------------------------------------------------------------
\* Engine::rebuild_store.
Rebuild(log, policy) ==
    LET ops == Sorted(log, ReplayOrder)
        claims == FoldLeft(Reserve, <<>>, ClaimOps(ops))
        unique == NullLosers(FoldLeft(ApplyOp, EmptyStore, RowOps(ops)), claims)
    IN  [store  |-> IF policy = "cascade" THEN CascadeAll(unique) ELSE unique,
         claims |-> claims]
=============================================================================
