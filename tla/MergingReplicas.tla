-------------------------- MODULE MergingReplicas --------------------------
(***************************************************************************)
(* Replicas that exchange whole states instead of operations: each changes *)
(* its tables, reservations and version vector locally and merges those of *)
(* another (src/src/storage/row_store.rs, constraints/                     *)
(* uniqueness_protocol.rs, crdt/clocks.rs).  Who merges with whom and when *)
(* is up to the caller, as in src/src/testing/property_tests.rs.           *)
(*                                                                         *)
(* The history variable seen records the operations a replica's state      *)
(* contains, each with what it found at the replica it was issued at.      *)
(***************************************************************************)
EXTENDS StateMerge, UniqueMerge

CONSTANTS
    Peer,       \* ranks of the peer identifiers
    Wall,       \* possible readings of the physical clock, in ms
    Value,      \* values of cells
    Claiming,   \* whether inserts and updates reserve their value
    MaxOps      \* bound on the operations issued

ASSUME PeerAssumption == Peer \subseteq Nat
ASSUME WallAssumption == Wall \subseteq Nat
ASSUME HasColumnsAssumption == \A t \in Table : Columns[t] # {}

VARIABLES
    issued,     \* number of operations issued
    clock,      \* HlcClock of each replica
    store,      \* RowStore of each replica
    versions,   \* VersionVector of each replica
    unique,     \* [Table -> UniqueIndex] of each replica
    seen        \* operations contained in each replica's state

vars == <<issued, clock, store, versions, unique, seen>>

Init ==
    /\ issued = 0
    /\ clock = [p \in Peer |-> [wall |-> 0, logical |-> 0]]
    /\ store = [p \in Peer |-> EmptyStore]
    /\ versions = [p \in Peer |-> [q \in Peer |-> Unheard]]
    /\ unique = [p \in Peer |-> [t \in Table |-> EmptyIndex]]
    /\ seen = [p \in Peer |-> {}]

-----------------------------------------------------------------------------
\* A local operation stamped with the new value c of p's clock.  found is the
\* membership of its row as the operation meets it.
Issue(p, c, op) ==
    /\ issued < MaxOps
    /\ issued' = issued + 1
    /\ clock' = [clock EXCEPT ![p] = c]
    /\ store' = [store EXCEPT ![p] = ApplyOp(@, op)]
    /\ versions' = [versions EXCEPT ![p] = VvObserve(@, op.hlc)]
    /\ seen' = [seen EXCEPT ![p] = @ \cup
                    {[op |-> op, found |-> store[p][op.table].members[op.row]]}]

Reserving(p, t, v, r, h) ==
    unique' = IF Claiming THEN [unique EXCEPT ![p][t] = ReserveIn(@, Claim(v, r, h))]
              ELSE unique

\* TableState::insert_row and the reservation that goes with it.
Insert(p, w) ==
    \E t \in Table, r \in Row, v \in Value :
        LET c == TickClock(clock[p], w)
            h == Stamp(c, p)
        IN  /\ Issue(p, c, [type |-> "insert", table |-> t, row |-> r, hlc |-> h,
                            cells |-> [x \in Columns[t] |-> v]])
            /\ Reserving(p, t, v, r, h)

\* TableState::update_row of a row the replica shows.
Update(p, w) ==
    \E t \in Table, v \in Value : \E r \in VisibleRows(store[p][t]), x \in Columns[t] :
        LET c == TickClock(clock[p], w)
            h == Stamp(c, p)
        IN  /\ Issue(p, c, [type |-> "update", table |-> t, row |-> r, hlc |-> h,
                            cells |-> [y \in {x} |-> v]])
            /\ Reserving(p, t, v, r, h)

\* TableState::delete_row of a row the replica shows.
Delete(p, w) ==
    \E t \in Table, fkTombstone \in BOOLEAN : \E r \in VisibleRows(store[p][t]) :
        LET c == TickClock(clock[p], w)
            h == Stamp(c, p)
        IN  /\ Issue(p, c, [type |-> "delete", table |-> t, row |-> r, hlc |-> h,
                            fkTombstone |-> fkTombstone])
            /\ UNCHANGED unique

\* Replica p merges the state of q into its own: RowStore::merge,
\* VersionVector::merge and TableUniqueness::merge.
Merge(p, q) ==
    /\ store' = [store EXCEPT ![p] = MergeStore(@, store[q])]
    /\ versions' = [versions EXCEPT ![p] = VvMerge(@, versions[q])]
    /\ unique' = [unique EXCEPT ![p] =
                    [t \in Table |-> MergeIndex(unique[p][t], unique[q][t])]]
    /\ seen' = [seen EXCEPT ![p] = @ \cup seen[q]]
    /\ UNCHANGED <<issued, clock>>

Next ==
    \/ \E p \in Peer, w \in Wall : Insert(p, w) \/ Update(p, w) \/ Delete(p, w)
    \/ \E p, q \in Peer : p # q /\ Merge(p, q)

Spec == Init /\ [][Next]_vars

-----------------------------------------------------------------------------
(* What a replica's state should be, given the set s of the operations it   *)
(* contains.                                                               *)

OpsOn(s, t, r) == {e \in s : e.op.table = t /\ e.op.row = r}

Tokens(s, t, r) == {e.op.hlc : e \in {f \in OpsOn(s, t, r) : f.op.type = "insert"}}

Deletes(s, t, r) == {e \in OpsOn(s, t, r) : e.op.type = "delete"}

Revived(s, t, r) ==
    \E e \in OpsOn(s, t, r) : e.op.type = "insert" /\ e.found.tombstone # {}

Writes(s, t, r, c) ==
    {[hlc |-> e.op.hlc, value |-> e.op.cells[c]] :
        e \in {f \in OpsOn(s, t, r) : f.op.type # "delete" /\ c \in DOMAIN f.op.cells}}

-----------------------------------------------------------------------------
(* Properties.                                                             *)

\* Whatever the order and the repetition of merges, a cell holds the last
\* write of every peer among the operations the replica contains: no write is
\* lost, none comes back, and replicas that contain the same operations agree
\* (mv_register.rs, doc of causal compaction).
CellsAreLatest ==
    \A p \in Peer, t \in Table, r \in Row : \A c \in Columns[t] :
        store[p][t].cells[r][c] = Undominated(Writes(seen[p], t, r, c))

\* Add wins: a row is live exactly when some insert of it was not known to
\* any of the deletes (orset.rs: "A delete removes specific observed tokens").
AddWins ==
    \A p \in Peer, t \in Table, r \in Row :
        LET e == store[p][t].members[r]
        IN  /\ e.live = Tokens(seen[p], t, r)
            /\ e.removed = UNION {d.found.live : d \in Deletes(seen[p], t, r)}

\* Unless an insert has cleared a tombstone a row carries one exactly when a
\* tombstoning delete is known, so replicas agree on the rows they show.  An
\* insert that clears one is not kept by merge (orset.rs:134).
TombstonesKept ==
    \A p \in Peer, t \in Table, r \in Row :
        Revived(seen[p], t, r) \/
        (store[p][t].members[r].tombstone # {} <=>
            \E d \in Deletes(seen[p], t, r) : d.op.fkTombstone)

\* Version vectors compare as the sets of operations do, which is what a
\* cursor or a stability test needs (clocks.rs: "causally dominated").
VersionsCompare ==
    /\ \A p \in Peer : \A q \in Peer : \A e \in seen[q] :
            VvDominates(versions[p], e.op.hlc) <=> e \in seen[p]
    /\ \A p, q \in Peer :
            VvDominatedBy(versions[p], versions[q]) <=> seen[p] \subseteq seen[q]

\* Every value some replica has reserved has exactly one owner there, the
\* largest of the reservations made (uniqueness_protocol.rs: "any peer that has
\* observed both reservations will compute the same winner").
OneOwner ==
    \A p \in Peer, t \in Table : LET claims == unique[p][t].claims IN
        \A v \in {c.value : c \in claims} :
            CanonicalOwners(unique[p][t], v) =
                {c.row : c \in {d \in ClaimsOf(claims, v) :
                    \A x \in ClaimsOf(claims, v) : ~ClaimBeats(x, d)}}

\* No loser is dropped silently: its conflict with the present owner of the
\* value is in the log of every replica that knows both
\* (uniqueness_protocol.rs: "preserved in `conflict_log`").
LosersLogged ==
    \A p \in Peer, t \in Table : \A c \in unique[p][t].claims :
        c.state = "lost" =>
            \E k \in unique[p][t].conflicts :
                k.loser = c.row /\ {k.winner} = CanonicalOwners(unique[p][t], c.value)

\* Replicas that contain the same operations hold the same reservations, in
\* the same states.
ClaimsConverge ==
    \A p, q \in Peer : seen[p] = seen[q] =>
        \A t \in Table : unique[p][t].claims = unique[q][t].claims

\* On the states replicas reach, merge is a join: commutative, associative and
\* idempotent (crdt/merge.rs: "Must be commutative, associative, idempotent").
MergeIsJoin ==
    \A p, q, r \in Peer :
        /\ MergeStore(store[p], store[q]) = MergeStore(store[q], store[p])
        /\ MergeStore(MergeStore(store[p], store[q]), store[r])
            = MergeStore(store[p], MergeStore(store[q], store[r]))
        /\ MergeStore(store[p], store[p]) = store[p]
        /\ VvMerge(versions[p], versions[q]) = VvMerge(versions[q], versions[p])
=============================================================================
