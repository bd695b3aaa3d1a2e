----------------------- MODULE MergingReplicasProofs -----------------------
(***************************************************************************)
(* Proofs about replicas that merge states, in four parts: merging is a    *)
(* join; merged replicas lose no write and no row; version vectors compare *)
(* what replicas contain; and every reserved value has one owner.          *)
(***************************************************************************)
EXTENDS MergingReplicas, FiniteSetTheorems, TLAPS

-----------------------------------------------------------------------------
(***************************************************************************)
(* Merging is a join: commutative, associative and idempotent, for         *)
(* registers, row membership and version vectors (src/src/crdt/merge.rs:   *)
(* "Any type implementing this is a CRDT join-semilattice").               *)
(***************************************************************************)

Stamps == [wall : Nat, logical : Nat, peer : Nat]

\* The register entries of reg carry timestamps.
Stamped(reg) == \A e \in reg : e.hlc \in Stamps

\* Every entry of reg is one of its undominated entries or lies below one.
Covered(reg) ==
    \A e \in reg : \E f \in Undominated(reg) :
        f.hlc.peer = e.hlc.peer /\ ~Before(f.hlc, e.hlc)

\* A register as write and merge leave it.
Compact(reg) == Undominated(reg) = reg

-----------------------------------------------------------------------------
(* Timestamps of one peer.                                                 *)

\* Before is a strict total order.
LEMMA BeforeOrder ==
    ASSUME NEW s \in Stamps, NEW t \in Stamps, NEW u \in Stamps
    PROVE  /\ ~Before(s, s)
           /\ Before(s, t) => ~Before(t, s)
           /\ Before(s, t) /\ Before(t, u) => Before(s, u)
           /\ Before(s, t) /\ ~Before(u, t) => Before(s, u)
           /\ ~Before(s, t) /\ Before(u, t) => Before(u, s)
           /\ ~Before(s, t) /\ ~Before(t, s) => s = t
  BY DEF Before, Earlier, Stamps

-----------------------------------------------------------------------------
(* Registers.                                                              *)

\* An undominated entry of one register survives the merge or lies below an
\* undominated entry of the other, which survives.
LEMMA SurvivorAbove ==
    ASSUME NEW A, NEW B, Stamped(A), Stamped(B), Covered(A), Covered(B),
           NEW f \in Undominated(A)
    PROVE  \E g \in Undominated(A \cup B) :
                /\ g \in Undominated(A) \cup Undominated(B)
                /\ g.hlc.peer = f.hlc.peer
                /\ ~Before(g.hlc, f.hlc)
  <1>1. f \in A /\ f.hlc \in Stamps
    BY DEF Undominated, Stamped
  <1>2. CASE \A k \in B : ~Dominates(k, f)
    <2>1. f \in Undominated(A \cup B)
      BY <1>2 DEF Undominated
    <2>2. ~Before(f.hlc, f.hlc)
      BY <1>1, BeforeOrder
    <2>3. QED
      BY <2>1, <2>2
  <1>3. ASSUME NEW k \in B, Dominates(k, f)
        PROVE  \E g \in Undominated(A \cup B) :
                /\ g \in Undominated(A) \cup Undominated(B)
                /\ g.hlc.peer = f.hlc.peer
                /\ ~Before(g.hlc, f.hlc)
    <2>1. PICK g \in Undominated(B) : g.hlc.peer = k.hlc.peer /\ ~Before(g.hlc, k.hlc)
      BY DEF Covered
    <2>2. g \in B /\ g.hlc \in Stamps /\ k.hlc \in Stamps
      BY <2>1 DEF Undominated, Stamped
    <2>3. Before(f.hlc, g.hlc) /\ g.hlc.peer = f.hlc.peer
      BY <1>1, <1>3, <2>1, <2>2, BeforeOrder DEF Dominates
    <2>4. ASSUME NEW x \in A, Dominates(x, g) PROVE FALSE
      <3>1. PICK y \in Undominated(A) : y.hlc.peer = x.hlc.peer /\ ~Before(y.hlc, x.hlc)
        BY DEF Covered
      <3>2. y \in A /\ y.hlc \in Stamps /\ x.hlc \in Stamps
        BY <3>1 DEF Undominated, Stamped
      <3>3. Before(g.hlc, x.hlc) /\ x.hlc.peer = g.hlc.peer
        BY <2>4 DEF Dominates
      <3>4. Before(f.hlc, x.hlc)
        BY <1>1, <2>2, <2>3, <3>2, <3>3, BeforeOrder
      <3>5. Before(f.hlc, y.hlc)
        BY <1>1, <3>1, <3>2, <3>4, BeforeOrder
      <3>6. Dominates(y, f)
        BY <2>3, <3>1, <3>3, <3>5 DEF Dominates
      <3>7. QED
        BY <3>2, <3>6 DEF Undominated
    <2>5. g \in Undominated(A \cup B)
      BY <2>1, <2>2, <2>4 DEF Undominated
    <2>6. ~Before(g.hlc, f.hlc)
      BY <1>1, <2>2, <2>3, BeforeOrder
    <2>7. QED
      BY <2>1, <2>3, <2>5, <2>6
  <1>4. QED
    BY <1>2, <1>3

\* The merge covers what it was made of.
LEMMA UnionCovered ==
    ASSUME NEW A, NEW B, Stamped(A), Stamped(B), Covered(A), Covered(B)
    PROVE  /\ Covered(A \cup B)
           /\ Stamped(A \cup B)
  <1>1. ASSUME NEW X, NEW Y, Stamped(X), Stamped(Y), Covered(X), Covered(Y), NEW e \in X
        PROVE  \E g \in Undominated(X \cup Y) :
                    g.hlc.peer = e.hlc.peer /\ ~Before(g.hlc, e.hlc)
    <2>1. PICK f \in Undominated(X) : f.hlc.peer = e.hlc.peer /\ ~Before(f.hlc, e.hlc)
      BY <1>1 DEF Covered
    <2>2. PICK g \in Undominated(X \cup Y) : g.hlc.peer = f.hlc.peer /\ ~Before(g.hlc, f.hlc)
      BY <1>1, SurvivorAbove
    <2>3. e.hlc \in Stamps /\ f.hlc \in Stamps /\ g.hlc \in Stamps
      BY <1>1, <2>1, <2>2 DEF Undominated, Stamped
    <2>4. ~Before(g.hlc, e.hlc)
      BY <2>1, <2>2, <2>3, BeforeOrder
    <2>5. QED
      BY <2>1, <2>2, <2>4
  <1>2. ASSUME NEW e \in B
        PROVE  \E g \in Undominated(A \cup B) :
                    g.hlc.peer = e.hlc.peer /\ ~Before(g.hlc, e.hlc)
    <2>1. \E g \in Undominated(B \cup A) : g.hlc.peer = e.hlc.peer /\ ~Before(g.hlc, e.hlc)
      BY <1>1
    <2>2. B \cup A = A \cup B
      OBVIOUS
    <2>3. QED
      BY <2>1, <2>2
  <1>3. Covered(A \cup B)
    BY <1>1, <1>2 DEF Covered
  <1>4. QED
    BY <1>3 DEF Stamped

\* Merging two compacted registers compacts the union of what they were made
\* of: it does not matter that each had forgotten its dominated entries.
LEMMA MergeForgets ==
    ASSUME NEW A, NEW B, Stamped(A), Stamped(B), Covered(A), Covered(B)
    PROVE  MergeCell(Undominated(A), Undominated(B)) = Undominated(A \cup B)
  <1> DEFINE M == Undominated(A) \cup Undominated(B)
  <1>1. ASSUME NEW e \in Undominated(A \cup B) PROVE e \in Undominated(M)
    BY DEF Undominated
  <1>2. ASSUME NEW e \in Undominated(M), NEW k \in A \cup B, Dominates(k, e)
        PROVE  FALSE
    <2>1. PICK g \in Undominated(A \cup B) : g.hlc.peer = k.hlc.peer /\ ~Before(g.hlc, k.hlc)
      BY UnionCovered DEF Covered
    <2>2. g \in M
      BY DEF Undominated
    <2>3. e.hlc \in Stamps /\ k.hlc \in Stamps /\ g.hlc \in Stamps
      BY UnionCovered DEF Undominated, Stamped
    <2>4. Before(e.hlc, g.hlc) /\ g.hlc.peer = e.hlc.peer
      BY <1>2, <2>1, <2>3, BeforeOrder DEF Dominates
    <2>5. QED
      BY <2>2, <2>4 DEF Undominated, Dominates
  <1>3. ASSUME NEW e \in Undominated(M) PROVE e \in Undominated(A \cup B)
    BY <1>2 DEF Undominated
  <1>4. QED
    BY <1>1, <1>3 DEF MergeCell

\* MvRegister::merge is a join on compacted registers
\* (mv_register.rs, "CRDT Invariants").
THEOREM MergeCellIsJoin ==
    ASSUME NEW a, NEW b, NEW c, Stamped(a), Stamped(b), Stamped(c),
           Compact(a), Compact(b), Compact(c)
    PROVE  /\ MergeCell(a, b) = MergeCell(b, a)
           /\ MergeCell(MergeCell(a, b), c) = MergeCell(a, MergeCell(b, c))
           /\ MergeCell(a, a) = a
           /\ Compact(MergeCell(a, b))
  <1>1. ASSUME NEW x, Stamped(x), Compact(x) PROVE Covered(x)
    BY <1>1, BeforeOrder DEF Covered, Compact, Stamped
  <1>2. Covered(a) /\ Covered(b) /\ Covered(c)
    BY <1>1
  <1>3. MergeCell(a, b) = MergeCell(b, a)
    <2>1. a \cup b = b \cup a
      OBVIOUS
    <2>2. QED
      BY <2>1 DEF MergeCell
  <1>4. MergeCell(MergeCell(a, b), c) = MergeCell(a, MergeCell(b, c))
    <2>1. MergeCell(MergeCell(a, b), c) = Undominated((a \cup b) \cup c)
      BY <1>2, UnionCovered, MergeForgets DEF MergeCell, Compact
    <2>2. MergeCell(a, MergeCell(b, c)) = Undominated(a \cup (b \cup c))
      BY <1>2, UnionCovered, MergeForgets DEF MergeCell, Compact
    <2>3. (a \cup b) \cup c = a \cup (b \cup c)
      OBVIOUS
    <2>4. QED
      BY <2>1, <2>2, <2>3
  <1>5. MergeCell(a, a) = a
    <2>1. a \cup a = a
      OBVIOUS
    <2>2. QED
      BY <2>1 DEF MergeCell, Compact
  <1>6. Compact(MergeCell(a, b))
    BY DEF Compact, MergeCell, Undominated
  <1>7. QED
    BY <1>3, <1>4, <1>5, <1>6

-----------------------------------------------------------------------------
(* Row membership.                                                         *)

Optional == {{}} \cup {{s} : s \in Stamps}

\* The larger of two optional tombstones is a join.
LEMMA MergeTombstonesIsJoin ==
    ASSUME NEW a \in Optional, NEW b \in Optional, NEW c \in Optional
    PROVE  /\ MergeTombstones(a, b) \in Optional
           /\ MergeTombstones(a, b) = MergeTombstones(b, a)
           /\ MergeTombstones(MergeTombstones(a, b), c)
                = MergeTombstones(a, MergeTombstones(b, c))
           /\ MergeTombstones(a, a) = a
  <1>1. ASSUME NEW s \in Stamps, NEW t \in Stamps
        PROVE  /\ MergeTombstones({s}, {t}) = {Later(s, t)}
               /\ Later(s, t) \in Stamps
               /\ Later(s, t) = Later(t, s)
               /\ Later(s, s) = s
    <2>1. MergeTombstones({s}, {t}) = {Later(s, t)}
      <3>1. {Later(x, y) : x \in {s}, y \in {t}} = {Later(s, t)}
        OBVIOUS
      <3>2. QED
        BY <3>1 DEF MergeTombstones
    <2>2. QED
      BY <2>1, BeforeOrder DEF Later
  <1>2. ASSUME NEW s \in Stamps, NEW t \in Stamps, NEW u \in Stamps
        PROVE  Later(Later(s, t), u) = Later(s, Later(t, u))
    BY BeforeOrder DEF Later
  <1>3. ASSUME NEW x PROVE MergeTombstones({}, x) = x /\ MergeTombstones(x, {}) = x
    BY DEF MergeTombstones
  <1>4. ASSUME NEW x \in Optional, x # {} PROVE \E s \in Stamps : x = {s}
    BY <1>4 DEF Optional
  <1>5. \A s \in Stamps : {s} \in Optional
    BY DEF Optional
  <1>6. ASSUME NEW x \in Optional, NEW y \in Optional
        PROVE  /\ MergeTombstones(x, y) \in Optional
               /\ MergeTombstones(x, y) = MergeTombstones(y, x)
               /\ MergeTombstones(x, x) = x
    <2>1. CASE x = {} \/ y = {}
      <3>1. x = {} \/ \E s \in Stamps : x = {s}
        BY <1>4
      <3>2. QED
        BY <2>1, <3>1, <1>1, <1>3
    <2>2. CASE x # {} /\ y # {}
      <3>1. PICK s \in Stamps : x = {s}
        BY <2>2, <1>4
      <3>2. PICK t \in Stamps : y = {t}
        BY <2>2, <1>4
      <3>3. /\ MergeTombstones(x, y) = {Later(s, t)} /\ Later(s, t) \in Stamps
            /\ MergeTombstones(y, x) = {Later(t, s)} /\ Later(s, t) = Later(t, s)
            /\ MergeTombstones(x, x) = {Later(s, s)} /\ Later(s, s) = s
        BY <3>1, <3>2, <1>1, Zenon
      <3>4. QED
        BY <3>1, <3>3, <1>5, Zenon
    <2>3. QED
      BY <2>1, <2>2
  <1>7. MergeTombstones(MergeTombstones(a, b), c) = MergeTombstones(a, MergeTombstones(b, c))
    <2>1. CASE a = {} \/ b = {} \/ c = {}
      BY <2>1, <1>3
    <2>2. CASE a # {} /\ b # {} /\ c # {}
      <3>1. PICK s \in Stamps : a = {s}
        BY <2>2, <1>4
      <3>2. PICK t \in Stamps : b = {t}
        BY <2>2, <1>4
      <3>3. PICK u \in Stamps : c = {u}
        BY <2>2, <1>4
      <3>4. /\ MergeTombstones(a, b) = {Later(s, t)} /\ Later(s, t) \in Stamps
            /\ MergeTombstones(b, c) = {Later(t, u)} /\ Later(t, u) \in Stamps
        BY <3>1, <3>2, <3>3, <1>1
      <3>5. /\ MergeTombstones({Later(s, t)}, {u}) = {Later(Later(s, t), u)}
            /\ MergeTombstones({s}, {Later(t, u)}) = {Later(s, Later(t, u))}
        BY <3>4, <1>1
      <3>6. Later(Later(s, t), u) = Later(s, Later(t, u))
        BY <1>2
      <3>7. QED
        BY <3>1, <3>3, <3>4, <3>5, <3>6, Zenon
    <2>3. QED
      BY <2>1, <2>2
  <1>8. QED
    BY <1>6, <1>7

Entries == [live : SUBSET Stamps, removed : SUBSET Stamps, tombstone : Optional]

\* OrMap::merge is a join on the entries of a row (orset.rs, "CRDT
\* Invariants").  Its inserts are not steps up in this order: one that clears
\* a tombstone goes down, and is undone by the next merge.
THEOREM MergeEntryIsJoin ==
    ASSUME NEW e \in Entries, NEW f \in Entries, NEW g \in Entries
    PROVE  /\ MergeEntry(e, f) = MergeEntry(f, e)
           /\ MergeEntry(MergeEntry(e, f), g) = MergeEntry(e, MergeEntry(f, g))
           /\ MergeEntry(e, e) = e
  <1>1. e.tombstone \in Optional /\ f.tombstone \in Optional /\ g.tombstone \in Optional
    BY DEF Entries
  <1>2. MergeEntry(e, f) = MergeEntry(f, e)
    BY <1>1, MergeTombstonesIsJoin DEF MergeEntry
  <1>3. MergeEntry(MergeEntry(e, f), g) = MergeEntry(e, MergeEntry(f, g))
    <2>1. MergeTombstones(MergeTombstones(e.tombstone, f.tombstone), g.tombstone)
            = MergeTombstones(e.tombstone, MergeTombstones(f.tombstone, g.tombstone))
      BY <1>1, MergeTombstonesIsJoin
    <2>2. /\ (e.live \cup f.live) \cup g.live = e.live \cup (f.live \cup g.live)
          /\ (e.removed \cup f.removed) \cup g.removed
                = e.removed \cup (f.removed \cup g.removed)
      OBVIOUS
    <2>3. QED
      BY <2>1, <2>2 DEF MergeEntry
  <1>4. MergeEntry(e, e) = e
    BY <1>1, MergeTombstonesIsJoin DEF MergeEntry, Entries
  <1>5. QED
    BY <1>2, <1>3, <1>4

-----------------------------------------------------------------------------
(* Version vectors.                                                        *)

\* An absent entry stands for (0, 0).
VvEntries ==
    {c \in [wall : Nat, logical : Nat, heard : BOOLEAN] :
        ~c.heard => c.wall = 0 /\ c.logical = 0}

\* VersionVector::merge is a join (clocks.rs: "commutative, associative, and
\* idempotent").
THEOREM VvMergeIsJoin ==
    ASSUME NEW P, NEW v \in [P -> VvEntries], NEW w \in [P -> VvEntries],
           NEW x \in [P -> VvEntries]
    PROVE  /\ VvMerge(v, w) = VvMerge(w, v)
           /\ VvMerge(VvMerge(v, w), x) = VvMerge(v, VvMerge(w, x))
           /\ VvMerge(v, v) = v
  <1>1. ASSUME NEW c \in VvEntries, NEW d \in VvEntries, NEW e \in VvEntries
        PROVE  /\ LaterEntry(c, d) = LaterEntry(d, c)
               /\ LaterEntry(LaterEntry(c, d), e) = LaterEntry(c, LaterEntry(d, e))
               /\ LaterEntry(c, c) = c
    <2>1. /\ c.wall \in Nat /\ c.logical \in Nat
          /\ d.wall \in Nat /\ d.logical \in Nat
          /\ e.wall \in Nat /\ e.logical \in Nat
      BY DEF VvEntries
    <2>2. ASSUME NEW y \in VvEntries, NEW z \in VvEntries,
                 y.wall = z.wall, y.logical = z.logical, y.heard <=> z.heard
          PROVE  y = z
      BY <2>2 DEF VvEntries
    <2>3. \A y, z \in VvEntries : ~y.heard /\ ~z.heard => y = z
      BY <2>2 DEF VvEntries
    <2>4. \A y, z \in VvEntries :
            (y.heard <=> z.heard) /\ ~Earlier(y, z) /\ ~Earlier(z, y) => y = z
      <3>1. \A y, z \in VvEntries : ~Earlier(y, z) /\ ~Earlier(z, y)
                => y.wall = z.wall /\ y.logical = z.logical
        <4> SUFFICES ASSUME NEW y \in VvEntries, NEW z \in VvEntries,
                            ~Earlier(y, z), ~Earlier(z, y)
                     PROVE  y.wall = z.wall /\ y.logical = z.logical
          OBVIOUS
        <4>1. /\ y.wall \in Nat /\ y.logical \in Nat
              /\ z.wall \in Nat /\ z.logical \in Nat
          BY DEF VvEntries
        <4>2. QED
          BY <4>1 DEF Earlier
      <3>2. QED
        BY <3>1, <2>2
    <2>5. /\ Earlier(c, d) => ~Earlier(d, c)
          /\ Earlier(c, d) /\ Earlier(d, e) => Earlier(c, e)
          /\ ~Earlier(c, d) /\ ~Earlier(d, e) => ~Earlier(c, e)
          /\ ~Earlier(c, c)
      BY <2>1 DEF Earlier
    <2>6. LaterEntry(c, d) = LaterEntry(d, c)
      BY <2>3, <2>4, <2>5 DEF LaterEntry
    <2>7. LaterEntry(LaterEntry(c, d), e) = LaterEntry(c, LaterEntry(d, e))
      BY <2>3, <2>4, <2>5 DEF LaterEntry
    <2>8. QED
      BY <2>6, <2>7, <2>5 DEF LaterEntry
  <1>2. \A p \in P : v[p] \in VvEntries /\ w[p] \in VvEntries /\ x[p] \in VvEntries
    OBVIOUS
  <1>3. VvMerge(v, w) = VvMerge(w, v)
    BY <1>1, <1>2 DEF VvMerge
  <1>4. VvMerge(VvMerge(v, w), x) = VvMerge(v, VvMerge(w, x))
    BY <1>1, <1>2 DEF VvMerge
  <1>5. VvMerge(v, v) = v
    BY <1>1, <1>2 DEF VvMerge
  <1>6. QED
    BY <1>3, <1>4, <1>5

-----------------------------------------------------------------------------
(***************************************************************************)
(* Replicas that merge states lose no write and no row: whatever is merged *)
(* with what, how often and in which order, cells hold the last writes and *)
(* rows follow add-wins, for every set of peers, tables, rows, values and  *)
(* readings of the physical clocks.                                        *)
(*                                                                         *)
(* Row membership is a matter of sets of tokens, and AddWins is inductive  *)
(* with the shape of the tables alone.  A cell is not: a replica forgets   *)
(* all but the last write of every peer, so that merging what is left has  *)
(* to give what is left of everything (MergeForgets), and a local write    *)
(* drops its peer's entry unseen, which is right only because the clock of *)
(* the peer has passed every timestamp under its name (Passed).            *)
(***************************************************************************)

Clocks == [wall : Nat, logical : Nat]

CellEntries == [hlc : Stamps, value : Value]

TableStates(t) ==
    [members : [Row -> Entries],
     cells   : [Row -> [Columns[t] -> SUBSET CellEntries]]]

\* s is the state of a RowStore.
IsStore(s) ==
    /\ s = [t \in Table |-> s[t]]
    /\ \A t \in Table : s[t] \in TableStates(t)

\* An operation on rows.
IsRowOp(op) ==
    /\ op.hlc \in Stamps /\ op.table \in Table /\ op.row \in Row
    /\ op.type \in {"insert", "update", "delete"}
    /\ op.type = "delete" => op.fkTombstone \in BOOLEAN
    /\ op.type # "delete" =>
            \A c \in Columns[op.table] \cap DOMAIN op.cells : op.cells[c] \in Value

\* op writes cell c of row r of table t.
WritesTo(op, t, r, c) ==
    op.table = t /\ op.row = r /\ op.type # "delete" /\ c \in DOMAIN op.cells

Shape ==
    /\ clock \in [Peer -> Clocks]
    /\ store = [p \in Peer |-> store[p]]
    /\ seen = [p \in Peer |-> seen[p]]
    /\ \A p \in Peer : IsStore(store[p])
    /\ \A p \in Peer : \A e \in seen[p] : e.op.hlc \in Stamps

\* A clock has passed every timestamp made under the name of its peer.
Passed ==
    \A p, q \in Peer : \A e \in seen[q] :
        e.op.hlc.peer = p => ~Earlier(clock[p], e.op.hlc)

\* Among the writes to a cell every one is at or below a last one.
WritesCovered ==
    \A p \in Peer, t \in Table, r \in Row : \A c \in Columns[t] :
        Covered(Writes(seen[p], t, r, c))

ReplicaInv == Shape /\ Passed /\ WritesCovered /\ CellsAreLatest /\ AddWins

-----------------------------------------------------------------------------
(* Clocks and registers.                                                   *)

\* A tick yields a timestamp after all that the clock has passed.
LEMMA TickPasses ==
    ASSUME NEW c \in Clocks, NEW w \in Nat, NEW p \in Nat
    PROVE  /\ TickClock(c, w) \in Clocks
           /\ Stamp(TickClock(c, w), p) \in Stamps
           /\ ~Earlier(TickClock(c, w), Stamp(TickClock(c, w), p))
           /\ \A s \in Stamps : ~Earlier(c, s) =>
                /\ Before(s, Stamp(TickClock(c, w), p))
                /\ ~Earlier(TickClock(c, w), s)
  BY DEF Clocks, Stamps, TickClock, Stamp, Before, Earlier

\* Writing after all writes of the same peer leaves the last writes.
LEMMA WriteKeepsLast ==
    ASSUME NEW W, Stamped(W), Covered(W), NEW h \in Stamps, NEW v,
           \A e \in W : e.hlc.peer = h.peer => Before(e.hlc, h)
    PROVE  /\ WriteCell(Undominated(W), h, v) = Undominated(W \cup {[hlc |-> h, value |-> v]})
           /\ Covered(W \cup {[hlc |-> h, value |-> v]})
  <1> DEFINE n == [hlc |-> h, value |-> v]
             U == Undominated(W \cup {n})
  <1>1. n.hlc = h /\ \A f \in W : ~Dominates(f, n)
    <2>1. ASSUME NEW f \in W, Dominates(f, n) PROVE FALSE
      <3>1. f.hlc.peer = h.peer /\ Before(h, f.hlc)
        BY <2>1 DEF Dominates
      <3>2. Before(f.hlc, h) /\ f.hlc \in Stamps
        BY <3>1 DEF Stamped
      <3>3. QED
        BY <3>1, <3>2, BeforeOrder
    <2>2. QED
      BY <2>1
  <1>2. ~Dominates(n, n)
    BY BeforeOrder DEF Dominates
  <1>3. \A e \in W : Dominates(n, e) <=> e.hlc.peer = h.peer
    BY DEF Dominates
  <1>4. n \in U
    BY <1>1, <1>2 DEF Undominated
  <1>5. \A e \in W : e \in U <=> e \in Undominated(W) /\ e.hlc.peer # h.peer
    BY <1>3 DEF Undominated
  <1>6. WriteCell(Undominated(W), h, v) = U
    <2>1. U \subseteq W \cup {n} /\ Undominated(W) \subseteq W
      BY DEF Undominated
    <2>2. QED
      BY <1>4, <1>5, <2>1 DEF WriteCell
  <1>7. ASSUME NEW e \in W \cup {n}
        PROVE  \E f \in U : f.hlc.peer = e.hlc.peer /\ ~Before(f.hlc, e.hlc)
    <2>1. CASE e.hlc.peer = h.peer
      <3>1. ~Before(h, e.hlc)
        <4>1. CASE e = n
          BY <4>1, <1>1, BeforeOrder
        <4>2. CASE e \in W
          BY <4>2, <2>1, BeforeOrder DEF Stamped
        <4>3. QED
          BY <4>1, <4>2
      <3>2. QED
        BY <1>1, <1>4, <2>1, <3>1
    <2>2. CASE e.hlc.peer # h.peer
      <3>1. e \in W
        BY <2>2, <1>1
      <3>2. PICK f \in Undominated(W) : f.hlc.peer = e.hlc.peer /\ ~Before(f.hlc, e.hlc)
        BY <3>1 DEF Covered
      <3>3. f \in W
        BY DEF Undominated
      <3>4. f \in U
        BY <1>5, <2>2, <3>2, <3>3
      <3>5. QED
        BY <3>2, <3>4
    <2>3. QED
      BY <2>1, <2>2
  <1>8. QED
    BY <1>6, <1>7 DEF Covered

-----------------------------------------------------------------------------
(* What an operation changes.                                              *)

\* What ApplyOp does to the membership e of the row of op.
MembershipAfter(op, e) ==
    IF op.type = "insert" THEN AddToken(e, op.hlc)
    ELSE IF op.type = "delete" THEN RemoveTokens(e, op.hlc, op.fkTombstone)
    ELSE e

\* AddToken and RemoveTokens keep the type of an entry, and change its tokens
\* as their names say.
LEMMA MembershipEffect ==
    ASSUME NEW op, IsRowOp(op), NEW e \in Entries
    PROVE  /\ MembershipAfter(op, e) \in Entries
           /\ MembershipAfter(op, e).live =
                IF op.type = "insert" THEN e.live \cup {op.hlc} ELSE e.live
           /\ MembershipAfter(op, e).removed =
                IF op.type = "delete" THEN e.removed \cup e.live ELSE e.removed
  <1>1. Absent \in Entries /\ Absent.live = {} /\ Absent.removed = {}
    BY DEF Absent, Entries, Optional
  <1>2. op.hlc \in Stamps
    BY DEF IsRowOp
  <1>3. CASE op.type = "insert"
    BY <1>2, <1>3 DEF MembershipAfter, AddToken, Entries, Optional
  <1>4. CASE op.type = "update"
    BY <1>4 DEF MembershipAfter
  <1>5. CASE op.type = "delete"
    <2>1. op.fkTombstone \in BOOLEAN
      BY <1>5 DEF IsRowOp
    <2>2. CASE e = Absent
      BY <1>1, <1>5, <2>2 DEF MembershipAfter, RemoveTokens
    <2>3. CASE e # Absent
      <3> DEFINE tomb == IF op.fkTombstone THEN {op.hlc} ELSE e.tombstone
      <3>1. tomb \in Optional
        BY <1>2 DEF Entries, Optional
      <3>2. MembershipAfter(op, e) =
                [e EXCEPT !.removed = e.removed \cup e.live, !.tombstone = tomb]
        BY <1>5, <2>3 DEF MembershipAfter, RemoveTokens
      <3> HIDE DEF tomb
      <3>3. QED
        BY <1>5, <3>1, <3>2 DEF Entries
    <2>4. QED
      BY <2>2, <2>3
  <1>6. QED
    BY <1>3, <1>4, <1>5 DEF IsRowOp

\* A write keeps the type of a register.
LEMMA WriteCellTyped ==
    ASSUME NEW reg \in SUBSET CellEntries, NEW h \in Stamps, NEW v \in Value
    PROVE  WriteCell(reg, h, v) \in SUBSET CellEntries
  BY DEF WriteCell, CellEntries

\* ApplyOp changes the membership of one row and the cells it writes to.
LEMMA ApplyEffect ==
    ASSUME NEW s, IsStore(s), NEW op, IsRowOp(op)
    PROVE  /\ IsStore(ApplyOp(s, op))
           /\ \A t \in Table, r \in Row :
                ApplyOp(s, op)[t].members[r] =
                    IF t = op.table /\ r = op.row
                    THEN MembershipAfter(op, s[t].members[r])
                    ELSE s[t].members[r]
           /\ \A t \in Table, r \in Row : \A c \in Columns[t] :
                ApplyOp(s, op)[t].cells[r][c] =
                    IF WritesTo(op, t, r, c)
                    THEN WriteCell(s[t].cells[r][c], op.hlc, op.cells[c])
                    ELSE s[t].cells[r][c]
  <1> DEFINE u == op.table
             q == op.row
             tab == s[u]
             row == [c \in Columns[u] |->
                        IF WritesTo(op, u, q, c)
                        THEN WriteCell(tab.cells[q][c], op.hlc, op.cells[c])
                        ELSE tab.cells[q][c]]
             members == [r \in Row |-> IF r = q THEN MembershipAfter(op, tab.members[r])
                                       ELSE tab.members[r]]
             cells == [r \in Row |-> IF r = q THEN row ELSE tab.cells[r]]
             new == [members |-> members, cells |-> cells]
  <1>1. /\ u \in Table /\ q \in Row /\ op.hlc \in Stamps
        /\ tab \in TableStates(u)
        /\ tab.members \in [Row -> Entries]
        /\ tab.cells \in [Row -> [Columns[u] -> SUBSET CellEntries]]
    BY DEF IsRowOp, IsStore, TableStates
  <1>2. row \in [Columns[u] -> SUBSET CellEntries]
    <2>1. ASSUME NEW c \in Columns[u]
          PROVE  /\ tab.cells[q][c] \in SUBSET CellEntries
                 /\ WritesTo(op, u, q, c) =>
                        WriteCell(tab.cells[q][c], op.hlc, op.cells[c]) \in SUBSET CellEntries
      <3>1. tab.cells[q][c] \in SUBSET CellEntries
        BY <1>1
      <3>2. WritesTo(op, u, q, c) => op.cells[c] \in Value
        BY DEF WritesTo, IsRowOp
      <3>3. QED
        BY <1>1, <3>1, <3>2, WriteCellTyped
    <2>2. QED
      BY <2>1, Zenon
  <1>3. members \in [Row -> Entries]
    BY <1>1, MembershipEffect
  <1>4. new \in TableStates(u)
    <2>1. cells \in [Row -> [Columns[u] -> SUBSET CellEntries]]
      <3> HIDE DEF row
      <3>1. QED
        BY <1>1, <1>2
    <2>2. QED
      BY <1>3, <2>1, Zenon DEF TableStates
  <1>5. ApplyOp(s, op)[u] = new
    <2>1. /\ tab = [members |-> tab.members, cells |-> tab.cells]
          /\ members = [tab.members EXCEPT ![q] = MembershipAfter(op, tab.members[q])]
          /\ cells = [tab.cells EXCEPT ![q] = row]
      <3> HIDE DEF row
      <3>1. tab = [members |-> tab.members, cells |-> tab.cells]
        BY <1>1 DEF TableStates
      <3>2. members = [tab.members EXCEPT ![q] = MembershipAfter(op, tab.members[q])]
        BY <1>1
      <3>3. cells = [tab.cells EXCEPT ![q] = row]
        BY <1>1
      <3>4. QED
        BY <3>1, <3>2, <3>3
    <2>2. ASSUME op.type # "delete"
          PROVE  WriteCells(tab, q, op.hlc, op.cells) = [tab EXCEPT !.cells[q] = row]
      <3>1. row = [c \in DOMAIN tab.cells[q] |->
                        IF c \in DOMAIN op.cells
                        THEN WriteCell(tab.cells[q][c], op.hlc, op.cells[c])
                        ELSE tab.cells[q][c]]
        BY <1>1, <2>2 DEF WritesTo
      <3> HIDE DEF row
      <3>2. tab.cells \in [Row -> [Columns[u] -> SUBSET CellEntries]] /\ q \in Row
        BY <1>1
      <3>3. WriteCells(tab, q, op.hlc, op.cells) =
                [tab EXCEPT !.cells = [tab.cells EXCEPT ![q] =
                    [c \in DOMAIN tab.cells[q] |->
                        IF c \in DOMAIN op.cells
                        THEN WriteCell(tab.cells[q][c], op.hlc, op.cells[c])
                        ELSE tab.cells[q][c]]]]
        BY DEF WriteCells
      <3>4. QED
        BY <3>1, <3>3, Zenon
    <2>3. [tab EXCEPT !.cells[q] = row] = [members |-> tab.members, cells |-> cells]
      <3> HIDE DEF row, members
      <3>1. [tab EXCEPT !.cells[q] = row] = [tab EXCEPT !.cells = [tab.cells EXCEPT ![q] = row]]
        OBVIOUS
      <3>2. QED
        BY <2>1, <3>1
    <2> HIDE DEF row, members, cells
    <2>4. CASE op.type = "insert"
      <3>1. ApplyOp(s, op)[u] = InsertRow(tab, q, op.hlc, op.cells)
        BY <1>1, <2>4 DEF ApplyOp, IsStore
      <3>2. WriteCells(tab, q, op.hlc, op.cells) = [members |-> tab.members, cells |-> cells]
        BY <2>2, <2>3, <2>4
      <3>3. members = [tab.members EXCEPT ![q] = AddToken(tab.members[q], op.hlc)]
        BY <2>1, <2>4 DEF MembershipAfter
      <3>4. InsertRow(tab, q, op.hlc, op.cells) = new
        BY <3>2, <3>3 DEF InsertRow
      <3>5. QED
        BY <3>1, <3>4
    <2>5. CASE op.type = "update"
      <3>1. ApplyOp(s, op)[u] = WriteCells(tab, q, op.hlc, op.cells)
        BY <1>1, <2>5 DEF ApplyOp, IsStore
      <3>2. WriteCells(tab, q, op.hlc, op.cells) = [members |-> tab.members, cells |-> cells]
        BY <2>2, <2>3, <2>5
      <3>3. members = tab.members
        BY <1>1, <2>1, <2>5 DEF MembershipAfter
      <3>4. QED
        BY <3>1, <3>2, <3>3
    <2>6. CASE op.type = "delete"
      <3>1. ApplyOp(s, op)[u] = DeleteRow(tab, q, op.hlc, op.fkTombstone)
        BY <1>1, <2>6 DEF ApplyOp, IsStore
      <3>2. cells = tab.cells
        <4>1. row = tab.cells[q]
          BY <1>1, <2>6 DEF WritesTo, row
        <4>2. QED
          BY <1>1, <2>1, <4>1
      <3>3. members = [tab.members EXCEPT ![q] =
                            RemoveTokens(tab.members[q], op.hlc, op.fkTombstone)]
        BY <2>1, <2>6 DEF MembershipAfter
      <3>4. DeleteRow(tab, q, op.hlc, op.fkTombstone) = new
        BY <2>1, <3>2, <3>3 DEF DeleteRow
      <3>5. QED
        BY <3>1, <3>4
    <2>7. QED
      BY <2>4, <2>5, <2>6 DEF IsRowOp
  <1>6. /\ ApplyOp(s, op) = [t \in Table |-> ApplyOp(s, op)[t]]
        /\ \A t \in Table : t # u => ApplyOp(s, op)[t] = s[t]
    <2>1. s = [t \in Table |-> s[t]]
      BY DEF IsStore
    <2>2. \E x : ApplyOp(s, op) = [s EXCEPT ![u] = x]
      BY DEF ApplyOp
    <2>3. QED
      BY <1>1, <2>1, <2>2
  <1>7. IsStore(ApplyOp(s, op))
    <2>1. \A t \in Table : ApplyOp(s, op)[t] \in TableStates(t)
      BY <1>4, <1>5, <1>6 DEF IsStore
    <2>2. QED
      BY <1>6, <2>1 DEF IsStore
  <1>8. ASSUME NEW t \in Table, NEW r \in Row
        PROVE  ApplyOp(s, op)[t].members[r] =
                    IF t = u /\ r = q THEN MembershipAfter(op, s[t].members[r])
                    ELSE s[t].members[r]
    <2>1. new.members[r] =
            IF r = q THEN MembershipAfter(op, tab.members[r]) ELSE tab.members[r]
      OBVIOUS
    <2> HIDE DEF new
    <2>2. QED
      BY <1>5, <1>6, <2>1
  <1>9. ASSUME NEW t \in Table, NEW r \in Row, NEW c \in Columns[t]
        PROVE  ApplyOp(s, op)[t].cells[r][c] =
                    IF WritesTo(op, t, r, c)
                    THEN WriteCell(s[t].cells[r][c], op.hlc, op.cells[c])
                    ELSE s[t].cells[r][c]
    <2>1. WritesTo(op, t, r, c) => t = u /\ r = q
      BY DEF WritesTo
    <2>2. CASE t = u
      <3>1. new.cells[r][c] = IF r = q THEN row[c] ELSE tab.cells[r][c]
        <4> HIDE DEF row
        <4>1. QED
          OBVIOUS
      <3>2. row[c] = IF WritesTo(op, u, q, c)
                     THEN WriteCell(tab.cells[q][c], op.hlc, op.cells[c])
                     ELSE tab.cells[q][c]
        BY <2>2
      <3> HIDE DEF new, row
      <3>3. QED
        BY <1>5, <2>1, <2>2, <3>1, <3>2
    <2>3. CASE t # u
      BY <1>6, <2>1, <2>3
    <2>4. QED
      BY <2>2, <2>3
  <1>10. QED
    BY <1>7, <1>8, <1>9

\* Merging two stores merges their rows and cells one by one.
LEMMA MergeEffect ==
    ASSUME NEW s, NEW u, IsStore(s), IsStore(u)
    PROVE  /\ IsStore(MergeStore(s, u))
           /\ \A t \in Table, r \in Row :
                MergeStore(s, u)[t].members[r] = MergeEntry(s[t].members[r], u[t].members[r])
           /\ \A t \in Table, r \in Row : \A c \in Columns[t] :
                MergeStore(s, u)[t].cells[r][c] = MergeCell(s[t].cells[r][c], u[t].cells[r][c])
  <1>1. ASSUME NEW t \in Table
        PROVE  /\ MergeStore(s, u)[t] \in TableStates(t)
               /\ \A r \in Row :
                    /\ MergeStore(s, u)[t].members[r] =
                            MergeEntry(s[t].members[r], u[t].members[r])
                    /\ \A c \in Columns[t] : MergeStore(s, u)[t].cells[r][c] =
                            MergeCell(s[t].cells[r][c], u[t].cells[r][c])
    <2> DEFINE members == [r \in Row |-> MergeEntry(s[t].members[r], u[t].members[r])]
               row(r) == [c \in Columns[t] |-> MergeCell(s[t].cells[r][c], u[t].cells[r][c])]
               cells == [r \in Row |-> row(r)]
    <2>1. /\ s[t].members \in [Row -> Entries] /\ u[t].members \in [Row -> Entries]
          /\ s[t].cells \in [Row -> [Columns[t] -> SUBSET CellEntries]]
          /\ u[t].cells \in [Row -> [Columns[t] -> SUBSET CellEntries]]
      BY DEF IsStore, TableStates
    <2>2. MergeStore(s, u)[t] = [members |-> members, cells |-> cells]
      <3>1. MergeStore(s, u)[t] = MergeTable(s[t], u[t])
        <4>1. DOMAIN s = Table
          BY DEF IsStore
        <4>2. QED
          BY <4>1 DEF MergeStore
      <3>2. /\ DOMAIN s[t].members = Row /\ DOMAIN s[t].cells = Row
            /\ \A r \in Row : DOMAIN s[t].cells[r] = Columns[t]
        BY <2>1
      <3>3. QED
        BY <3>1, <3>2 DEF MergeTable
    <2>3. ASSUME NEW a \in Optional, NEW b \in Optional
          PROVE  MergeTombstones(a, b) \in Optional
      BY MergeTombstonesIsJoin
    <2>4. ASSUME NEW e \in Entries, NEW f \in Entries
          PROVE  MergeEntry(e, f) \in Entries
      BY <2>3 DEF MergeEntry, Entries
    <2>5. members \in [Row -> Entries]
      BY <2>1, <2>4
    <2>6. ASSUME NEW r \in Row PROVE row(r) \in [Columns[t] -> SUBSET CellEntries]
      <3>1. ASSUME NEW c \in Columns[t]
            PROVE  MergeCell(s[t].cells[r][c], u[t].cells[r][c]) \in SUBSET CellEntries
        <4>1. s[t].cells[r][c] \in SUBSET CellEntries /\ u[t].cells[r][c] \in SUBSET CellEntries
          BY <2>1
        <4>2. QED
          BY <4>1 DEF MergeCell, Undominated
      <3>2. QED
        BY <3>1
    <2>7. /\ MergeStore(s, u)[t] \in TableStates(t)
          /\ MergeStore(s, u)[t].members = members
          /\ MergeStore(s, u)[t].cells = cells
      <3> HIDE DEF members, row
      <3>1. cells \in [Row -> [Columns[t] -> SUBSET CellEntries]]
        BY <2>6
      <3> HIDE DEF cells
      <3>2. QED
        BY <2>2, <2>5, <3>1 DEF TableStates
    <2>8. QED
      BY <2>7
  <1>2. MergeStore(s, u) = [t \in Table |-> MergeStore(s, u)[t]]
    BY DEF MergeStore, IsStore
  <1>3. IsStore(MergeStore(s, u))
    BY <1>1, <1>2 DEF IsStore
  <1>4. QED
    BY <1>1, <1>3

-----------------------------------------------------------------------------
(* What a set of operations says of a row or a cell.                       *)

\* The tokens some delete in s has removed.
Removed(s, t, r) == UNION {d.found.live : d \in Deletes(s, t, r)}

\* What two sets of operations say together is what each says.
LEMMA WritesOfUnion ==
    ASSUME NEW s, NEW u, NEW t, NEW r, NEW c
    PROVE  Writes(s \cup u, t, r, c) = Writes(s, t, r, c) \cup Writes(u, t, r, c)
  <1>1. OpsOn(s \cup u, t, r) = OpsOn(s, t, r) \cup OpsOn(u, t, r)
    BY DEF OpsOn
  <1>2. QED
    BY <1>1 DEF Writes

LEMMA TokensOfUnion ==
    ASSUME NEW s, NEW u, NEW t, NEW r
    PROVE  Tokens(s \cup u, t, r) = Tokens(s, t, r) \cup Tokens(u, t, r)
  <1>1. OpsOn(s \cup u, t, r) = OpsOn(s, t, r) \cup OpsOn(u, t, r)
    BY DEF OpsOn
  <1>2. QED
    BY <1>1 DEF Tokens

LEMMA RemovedOfUnion ==
    ASSUME NEW s, NEW u, NEW t, NEW r
    PROVE  Removed(s \cup u, t, r) = Removed(s, t, r) \cup Removed(u, t, r)
  <1>1. OpsOn(s \cup u, t, r) = OpsOn(s, t, r) \cup OpsOn(u, t, r)
    BY DEF OpsOn
  <1>2. Deletes(s \cup u, t, r) = Deletes(s, t, r) \cup Deletes(u, t, r)
    BY <1>1 DEF Deletes
  <1>3. QED
    BY <1>2 DEF Removed

\* What one operation says.
LEMMA WritesOfOne ==
    ASSUME NEW e, NEW t, NEW r, NEW c
    PROVE  Writes({e}, t, r, c) =
                IF WritesTo(e.op, t, r, c)
                THEN {[hlc |-> e.op.hlc, value |-> e.op.cells[c]]} ELSE {}
  <1>1. OpsOn({e}, t, r) = IF e.op.table = t /\ e.op.row = r THEN {e} ELSE {}
    BY DEF OpsOn
  <1>2. QED
    BY <1>1 DEF Writes, WritesTo

LEMMA TokensOfOne ==
    ASSUME NEW e, NEW t, NEW r
    PROVE  Tokens({e}, t, r) =
                IF e.op.table = t /\ e.op.row = r /\ e.op.type = "insert"
                THEN {e.op.hlc} ELSE {}
  <1>1. OpsOn({e}, t, r) = IF e.op.table = t /\ e.op.row = r THEN {e} ELSE {}
    BY DEF OpsOn
  <1>2. QED
    BY <1>1 DEF Tokens

LEMMA RemovedOfOne ==
    ASSUME NEW e, NEW t, NEW r
    PROVE  Removed({e}, t, r) =
                IF e.op.table = t /\ e.op.row = r /\ e.op.type = "delete"
                THEN e.found.live ELSE {}
  <1>1. OpsOn({e}, t, r) = IF e.op.table = t /\ e.op.row = r THEN {e} ELSE {}
    BY DEF OpsOn
  <1>2. Deletes({e}, t, r) =
            IF e.op.table = t /\ e.op.row = r /\ e.op.type = "delete" THEN {e} ELSE {}
    BY <1>1 DEF Deletes
  <1>3. QED
    BY <1>2 DEF Removed

-----------------------------------------------------------------------------
(* The steps.                                                              *)

\* A local operation keeps the invariant.
LEMMA IssueKeeps ==
    ASSUME ReplicaInv, NEW p \in Peer, NEW w \in Wall, NEW op, IsRowOp(op),
           op.hlc = Stamp(TickClock(clock[p], w), p),
           Issue(p, TickClock(clock[p], w), op)
    PROVE  ReplicaInv'
  <1> DEFINE c == TickClock(clock[p], w)
             found == store[p][op.table].members[op.row]
             ev == [op |-> op, found |-> found]
  <1>1. /\ clock[p] \in Clocks /\ w \in Nat /\ p \in Nat
        /\ IsStore(store[p])
        /\ op.table \in Table /\ op.row \in Row
    BY PeerAssumption, WallAssumption DEF ReplicaInv, Shape, IsRowOp
  <1>2. /\ c \in Clocks /\ op.hlc \in Stamps /\ op.hlc.peer = p
        /\ ~Earlier(c, op.hlc)
        /\ \A s \in Stamps : ~Earlier(clock[p], s) => Before(s, op.hlc) /\ ~Earlier(c, s)
    BY <1>1, TickPasses DEF Stamp
  <1>3. /\ clock' = [clock EXCEPT ![p] = c]
        /\ store' = [store EXCEPT ![p] = ApplyOp(store[p], op)]
        /\ seen' = [seen EXCEPT ![p] = seen[p] \cup {ev}]
    BY DEF Issue
  <1>4. /\ clock' \in [Peer -> Clocks] /\ clock'[p] = c
        /\ store' = [q \in Peer |-> store'[q]] /\ store'[p] = ApplyOp(store[p], op)
        /\ seen' = [q \in Peer |-> seen'[q]] /\ seen'[p] = seen[p] \cup {ev}
        /\ \A q \in Peer \ {p} :
                clock'[q] = clock[q] /\ store'[q] = store[q] /\ seen'[q] = seen[q]
    <2>1. /\ clock \in [Peer -> Clocks]
          /\ store = [q \in Peer |-> store[q]]
          /\ seen = [q \in Peer |-> seen[q]]
      BY DEF ReplicaInv, Shape
    <2>2. clock' \in [Peer -> Clocks] /\ clock'[p] = c
          /\ \A q \in Peer \ {p} : clock'[q] = clock[q]
      BY <1>2, <1>3, <2>1
    <2>3. store' = [q \in Peer |-> store'[q]] /\ store'[p] = ApplyOp(store[p], op)
          /\ \A q \in Peer \ {p} : store'[q] = store[q]
      BY <1>3, <2>1
    <2>4. seen' = [q \in Peer |-> seen'[q]] /\ seen'[p] = seen[p] \cup {ev}
          /\ \A q \in Peer \ {p} : seen'[q] = seen[q]
      BY <1>3, <2>1
    <2>5. QED
      BY <2>2, <2>3, <2>4
  <1>5. ev.op = op /\ ev.found = found
    OBVIOUS
  <1> HIDE DEF c, ev
  <1>6. Shape'
    <2>1. IsStore(ApplyOp(store[p], op))
      BY <1>1, ApplyEffect
    <2>2. \A q \in Peer : IsStore(store'[q])
      BY <1>4, <2>1 DEF ReplicaInv, Shape
    <2>3. \A q \in Peer : \A e \in seen'[q] : e.op.hlc \in Stamps
      BY <1>2, <1>4, <1>5 DEF ReplicaInv, Shape
    <2>4. QED
      BY <1>4, <2>2, <2>3 DEF Shape, IsStore
  <1>7. Passed'
    <2>1. ASSUME NEW a \in Peer, NEW q \in Peer, NEW e \in seen'[q], e.op.hlc.peer = a
          PROVE  ~Earlier(clock'[a], e.op.hlc)
      <3>1. CASE e \in seen[q]
        <4>1. ~Earlier(clock[a], e.op.hlc) /\ e.op.hlc \in Stamps
          BY <2>1, <3>1 DEF ReplicaInv, Shape, Passed
        <4>2. QED
          BY <1>2, <1>4, <4>1
      <3>2. CASE e \notin seen[q]
        <4>1. e = ev
          BY <1>4, <3>2
        <4>2. QED
          BY <1>2, <1>4, <1>5, <2>1, <4>1
      <3>3. QED
        BY <3>1, <3>2
    <2>2. QED
      BY <2>1 DEF Passed
  <1>8. ASSUME NEW t \in Table, NEW r \in Row, NEW x \in Columns[t]
        PROVE  /\ store'[p][t].cells[r][x] = Undominated(Writes(seen'[p], t, r, x))
               /\ Covered(Writes(seen'[p], t, r, x))
    <2> DEFINE W == Writes(seen[p], t, r, x)
    <2>1. /\ store[p][t].cells[r][x] = Undominated(W)
          /\ Covered(W)
      BY DEF ReplicaInv, CellsAreLatest, WritesCovered
    <2>2. \A e \in W : e.hlc \in Stamps /\ (e.hlc.peer = p => Before(e.hlc, op.hlc))
      <3>1. ASSUME NEW e \in W PROVE \E f \in seen[p] : e.hlc = f.op.hlc
        BY DEF Writes, OpsOn
      <3>2. \A f \in seen[p] : /\ f.op.hlc \in Stamps
                               /\ f.op.hlc.peer = p => ~Earlier(clock[p], f.op.hlc)
        BY DEF ReplicaInv, Shape, Passed
      <3>3. QED
        BY <1>2, <3>1, <3>2
    <2>3. Writes(seen'[p], t, r, x) =
            W \cup (IF WritesTo(op, t, r, x)
                    THEN {[hlc |-> op.hlc, value |-> op.cells[x]]} ELSE {})
      <3>1. Writes(seen'[p], t, r, x) = W \cup Writes({ev}, t, r, x)
        BY <1>4, WritesOfUnion
      <3>2. QED
        BY <1>5, <3>1, WritesOfOne
    <2>4. store'[p][t].cells[r][x] =
            IF WritesTo(op, t, r, x)
            THEN WriteCell(Undominated(W), op.hlc, op.cells[x])
            ELSE Undominated(W)
      BY <1>1, <1>4, <2>1, ApplyEffect
    <2>5. CASE WritesTo(op, t, r, x)
      <3>1. Stamped(W)
        BY <2>2 DEF Stamped
      <3> HIDE DEF W
      <3>2. /\ WriteCell(Undominated(W), op.hlc, op.cells[x]) =
                    Undominated(W \cup {[hlc |-> op.hlc, value |-> op.cells[x]]})
            /\ Covered(W \cup {[hlc |-> op.hlc, value |-> op.cells[x]]})
        BY <1>2, <2>1, <2>2, <3>1, WriteKeepsLast
      <3>3. QED
        BY <2>3, <2>4, <2>5, <3>2
    <2>6. CASE ~WritesTo(op, t, r, x)
      <3>1. Writes(seen'[p], t, r, x) = W
        BY <2>3, <2>6
      <3>2. QED
        BY <2>1, <2>4, <2>6, <3>1
    <2>7. QED
      BY <2>5, <2>6
  <1>9. WritesCovered' /\ CellsAreLatest'
    <2>1. ASSUME NEW a \in Peer, NEW t \in Table, NEW r \in Row, NEW x \in Columns[t]
          PROVE  /\ store'[a][t].cells[r][x] = Undominated(Writes(seen'[a], t, r, x))
                 /\ Covered(Writes(seen'[a], t, r, x))
      <3>1. CASE a = p
        BY <1>8, <3>1
      <3>2. CASE a # p
        BY <1>4, <3>2 DEF ReplicaInv, WritesCovered, CellsAreLatest
      <3>3. QED
        BY <3>1, <3>2
    <2>2. QED
      BY <2>1 DEF WritesCovered, CellsAreLatest
  <1>10. ASSUME NEW t \in Table, NEW r \in Row
         PROVE  /\ store'[p][t].members[r].live = Tokens(seen'[p], t, r)
                /\ store'[p][t].members[r].removed = Removed(seen'[p], t, r)
    <2> DEFINE e == store[p][t].members[r]
    <2>1. /\ e.live = Tokens(seen[p], t, r)
          /\ e.removed = Removed(seen[p], t, r)
          /\ e \in Entries
      BY <1>1 DEF ReplicaInv, AddWins, Removed, IsStore, TableStates
    <2>2. store'[p][t].members[r] =
            IF t = op.table /\ r = op.row THEN MembershipAfter(op, e) ELSE e
      BY <1>1, <1>4, ApplyEffect
    <2>3. /\ Tokens(seen'[p], t, r) =
                Tokens(seen[p], t, r)
                    \cup (IF op.table = t /\ op.row = r /\ op.type = "insert"
                          THEN {op.hlc} ELSE {})
          /\ Removed(seen'[p], t, r) =
                Removed(seen[p], t, r)
                    \cup (IF op.table = t /\ op.row = r /\ op.type = "delete"
                          THEN found.live ELSE {})
      <3>1. Tokens(seen'[p], t, r) = Tokens(seen[p], t, r) \cup Tokens({ev}, t, r)
        BY <1>4, TokensOfUnion
      <3>2. Removed(seen'[p], t, r) = Removed(seen[p], t, r) \cup Removed({ev}, t, r)
        BY <1>4, RemovedOfUnion
      <3>3. QED
        BY <1>5, <3>1, <3>2, TokensOfOne, RemovedOfOne
    <2>4. CASE t = op.table /\ r = op.row
      <3>1. found = e
        BY <2>4
      <3> HIDE DEF e, found
      <3>2. /\ MembershipAfter(op, e).live =
                    IF op.type = "insert" THEN e.live \cup {op.hlc} ELSE e.live
            /\ MembershipAfter(op, e).removed =
                    IF op.type = "delete" THEN e.removed \cup e.live ELSE e.removed
        BY <2>1, MembershipEffect
      <3>3. QED
        BY <2>1, <2>2, <2>3, <2>4, <3>1, <3>2
    <2>5. CASE ~(t = op.table /\ r = op.row)
      BY <2>1, <2>2, <2>3, <2>5
    <2>6. QED
      BY <2>4, <2>5
  <1>11. AddWins'
    <2>1. ASSUME NEW a \in Peer, NEW t \in Table, NEW r \in Row
          PROVE  /\ store'[a][t].members[r].live = Tokens(seen'[a], t, r)
                 /\ store'[a][t].members[r].removed = Removed(seen'[a], t, r)
      <3>1. CASE a = p
        BY <1>10, <3>1
      <3>2. CASE a # p
        BY <1>4, <3>2 DEF ReplicaInv, AddWins, Removed
      <3>3. QED
        BY <3>1, <3>2
    <2>2. QED
      BY <2>1 DEF AddWins, Removed
  <1>12. QED
    BY <1>6, <1>7, <1>9, <1>11 DEF ReplicaInv

\* A merge keeps the invariant.
LEMMA MergeKeeps ==
    ASSUME ReplicaInv, NEW p \in Peer, NEW q \in Peer, Merge(p, q)
    PROVE  ReplicaInv'
  <1>1. /\ clock' = clock
        /\ store' = [a \in Peer |-> store'[a]] /\ store'[p] = MergeStore(store[p], store[q])
        /\ seen' = [a \in Peer |-> seen'[a]] /\ seen'[p] = seen[p] \cup seen[q]
        /\ \A a \in Peer \ {p} : store'[a] = store[a] /\ seen'[a] = seen[a]
    BY DEF Merge, ReplicaInv, Shape
  <1>2. IsStore(store[p]) /\ IsStore(store[q])
    BY DEF ReplicaInv, Shape
  <1>3. Shape'
    <2>1. \A a \in Peer : IsStore(store'[a])
      BY <1>1, <1>2, MergeEffect DEF ReplicaInv, Shape
    <2>2. \A a \in Peer : \A e \in seen'[a] : e.op.hlc \in Stamps
      BY <1>1 DEF ReplicaInv, Shape
    <2>3. QED
      BY <1>1, <2>1, <2>2 DEF ReplicaInv, Shape, IsStore
  <1>4. Passed'
    BY <1>1 DEF ReplicaInv, Passed
  <1>5. ASSUME NEW t \in Table, NEW r \in Row, NEW x \in Columns[t]
        PROVE  /\ store'[p][t].cells[r][x] = Undominated(Writes(seen'[p], t, r, x))
               /\ Covered(Writes(seen'[p], t, r, x))
    <2> DEFINE A == Writes(seen[p], t, r, x)
               B == Writes(seen[q], t, r, x)
    <2>1. /\ store[p][t].cells[r][x] = Undominated(A) /\ Covered(A)
          /\ store[q][t].cells[r][x] = Undominated(B) /\ Covered(B)
      BY DEF ReplicaInv, CellsAreLatest, WritesCovered
    <2>2. Stamped(A) /\ Stamped(B)
      BY DEF ReplicaInv, Shape, Stamped, Writes, OpsOn
    <2>3. Writes(seen'[p], t, r, x) = A \cup B
      BY <1>1, WritesOfUnion
    <2>4. store'[p][t].cells[r][x] = MergeCell(Undominated(A), Undominated(B))
      BY <1>1, <1>2, <2>1, MergeEffect
    <2> HIDE DEF A, B
    <2>5. QED
      BY <2>1, <2>2, <2>3, <2>4, MergeForgets, UnionCovered
  <1>6. WritesCovered' /\ CellsAreLatest'
    <2>1. ASSUME NEW a \in Peer, NEW t \in Table, NEW r \in Row, NEW x \in Columns[t]
          PROVE  /\ store'[a][t].cells[r][x] = Undominated(Writes(seen'[a], t, r, x))
                 /\ Covered(Writes(seen'[a], t, r, x))
      <3>1. CASE a = p
        BY <1>5, <3>1
      <3>2. CASE a # p
        BY <1>1, <3>2 DEF ReplicaInv, WritesCovered, CellsAreLatest
      <3>3. QED
        BY <3>1, <3>2
    <2>2. QED
      BY <2>1 DEF WritesCovered, CellsAreLatest
  <1>7. ASSUME NEW t \in Table, NEW r \in Row
        PROVE  /\ store'[p][t].members[r].live = Tokens(seen'[p], t, r)
               /\ store'[p][t].members[r].removed = Removed(seen'[p], t, r)
    <2>1. store'[p][t].members[r] = MergeEntry(store[p][t].members[r], store[q][t].members[r])
      BY <1>1, <1>2, MergeEffect
    <2>2. /\ store[p][t].members[r].live = Tokens(seen[p], t, r)
          /\ store[p][t].members[r].removed = Removed(seen[p], t, r)
          /\ store[q][t].members[r].live = Tokens(seen[q], t, r)
          /\ store[q][t].members[r].removed = Removed(seen[q], t, r)
      BY DEF ReplicaInv, AddWins, Removed
    <2>3. /\ Tokens(seen'[p], t, r) = Tokens(seen[p], t, r) \cup Tokens(seen[q], t, r)
          /\ Removed(seen'[p], t, r) = Removed(seen[p], t, r) \cup Removed(seen[q], t, r)
      BY <1>1, TokensOfUnion, RemovedOfUnion
    <2>4. QED
      BY <2>1, <2>2, <2>3 DEF MergeEntry
  <1>8. AddWins'
    <2>1. ASSUME NEW a \in Peer, NEW t \in Table, NEW r \in Row
          PROVE  /\ store'[a][t].members[r].live = Tokens(seen'[a], t, r)
                 /\ store'[a][t].members[r].removed = Removed(seen'[a], t, r)
      <3>1. CASE a = p
        BY <1>7, <3>1
      <3>2. CASE a # p
        BY <1>1, <3>2 DEF ReplicaInv, AddWins, Removed
      <3>3. QED
        BY <3>1, <3>2
    <2>2. QED
      BY <2>1 DEF AddWins, Removed
  <1>9. QED
    BY <1>3, <1>4, <1>6, <1>8 DEF ReplicaInv

-----------------------------------------------------------------------------
\* The replicas start with the invariant.
LEMMA InitReplicaInv == Init => ReplicaInv
  <1> SUFFICES ASSUME Init PROVE ReplicaInv
    OBVIOUS
  <1>1. Absent \in Entries /\ Absent.live = {} /\ Absent.removed = {}
    BY DEF Absent, Entries, Optional
  <1>2. ASSUME NEW t \in Table
        PROVE  /\ EmptyTable(t) \in TableStates(t)
               /\ \A r \in Row : /\ EmptyTable(t).members[r] = Absent
                                  /\ \A c \in Columns[t] : EmptyTable(t).cells[r][c] = {}
    <2>1. [r \in Row |-> Absent] \in [Row -> Entries]
      BY <1>1
    <2>2. [r \in Row |-> [c \in Columns[t] |-> {}]] \in [Row -> [Columns[t] -> SUBSET CellEntries]]
      OBVIOUS
    <2>3. QED
      BY <2>1, <2>2 DEF EmptyTable, TableStates
  <1>3. /\ IsStore(EmptyStore)
        /\ \A t \in Table : EmptyStore[t] = EmptyTable(t)
    BY <1>2 DEF IsStore, EmptyStore
  <1>4. \A p \in Peer : store[p] = EmptyStore /\ seen[p] = {}
    BY DEF Init
  <1>5. \A t, r, c : /\ Writes({}, t, r, c) = {} /\ Tokens({}, t, r) = {}
                    /\ Removed({}, t, r) = {}
    BY DEF Writes, Tokens, Removed, Deletes, OpsOn
  <1>6. Shape
    <2>1. clock \in [Peer -> Clocks]
      BY DEF Init, Clocks
    <2>2. store = [p \in Peer |-> store[p]] /\ seen = [p \in Peer |-> seen[p]]
      BY DEF Init
    <2>3. QED
      BY <1>3, <1>4, <2>1, <2>2 DEF Shape
  <1>7. Passed
    BY <1>4 DEF Passed
  <1>8. WritesCovered
    BY <1>4, <1>5 DEF WritesCovered, Covered
  <1>9. ASSUME NEW p \in Peer, NEW t \in Table, NEW r \in Row
        PROVE  /\ store[p][t].members[r] = Absent
               /\ \A c \in Columns[t] : store[p][t].cells[r][c] = {}
    BY <1>2, <1>3, <1>4
  <1>10. CellsAreLatest
    <2>1. Undominated({}) = {}
      BY DEF Undominated
    <2>2. QED
      BY <1>4, <1>5, <1>9, <2>1 DEF CellsAreLatest
  <1>11. AddWins
    BY <1>1, <1>4, <1>5, <1>9 DEF AddWins, Removed
  <1>12. QED
    BY <1>6, <1>7, <1>8, <1>10, <1>11 DEF ReplicaInv

\* A local change issues an operation on a row; one that is deleted is visible.
LEMMA ChangesIssue ==
    ASSUME ReplicaInv, NEW p \in Peer, NEW w \in Wall,
           Insert(p, w) \/ Update(p, w) \/ Delete(p, w)
    PROVE  \E op : /\ IsRowOp(op)
                   /\ op.hlc = Stamp(TickClock(clock[p], w), p)
                   /\ op.type = "delete" => op.row \in VisibleRows(store[p][op.table])
                   /\ Issue(p, TickClock(clock[p], w), op)
  <1> DEFINE h == Stamp(TickClock(clock[p], w), p)
  <1>0. h \in Stamps /\ \A t \in Table : \A r \in VisibleRows(store[p][t]) : r \in Row
    BY TickPasses, PeerAssumption, WallAssumption DEF ReplicaInv, Shape, VisibleRows
  <1>1. CASE Insert(p, w)
    <2>1. PICK t \in Table, r \in Row, v \in Value :
            Issue(p, TickClock(clock[p], w),
                  [type |-> "insert", table |-> t, row |-> r, hlc |-> h,
                   cells |-> [x \in Columns[t] |-> v]])
      BY <1>1 DEF Insert
    <2> DEFINE op == [type |-> "insert", table |-> t, row |-> r, hlc |-> h,
                      cells |-> [x \in Columns[t] |-> v]]
    <2>2. IsRowOp(op) /\ op.hlc = h /\ op.type = "insert"
      BY <1>0 DEF IsRowOp
    <2> QED BY <2>1, <2>2
  <1>2. CASE Update(p, w)
    <2> DEFINE Issued(t, v, r, x) ==
            Issue(p, TickClock(clock[p], w),
                  [type |-> "update", table |-> t, row |-> r, hlc |-> h,
                   cells |-> [y \in {x} |-> v]])
    <2>0. PICK t \in Table, v \in Value :
            \E r \in VisibleRows(store[p][t]), x \in Columns[t] : Issued(t, v, r, x)
      BY <1>2 DEF Update
    <2>1. PICK r \in VisibleRows(store[p][t]), x \in Columns[t] : Issued(t, v, r, x)
      BY <2>0
    <2> DEFINE op == [type |-> "update", table |-> t, row |-> r, hlc |-> h,
                      cells |-> [y \in {x} |-> v]]
    <2>2. IsRowOp(op) /\ op.hlc = h /\ op.type = "update"
      BY <1>0 DEF IsRowOp
    <2> QED BY <2>1, <2>2
  <1>3. CASE Delete(p, w)
    <2> DEFINE Issued(t, b, r) ==
            Issue(p, TickClock(clock[p], w),
                  [type |-> "delete", table |-> t, row |-> r, hlc |-> h, fkTombstone |-> b])
    <2>0. PICK t \in Table, b \in BOOLEAN :
            \E r \in VisibleRows(store[p][t]) : Issued(t, b, r)
      BY <1>3 DEF Delete
    <2>1. PICK r \in VisibleRows(store[p][t]) : Issued(t, b, r)
      BY <2>0
    <2> DEFINE op == [type |-> "delete", table |-> t, row |-> r, hlc |-> h, fkTombstone |-> b]
    <2>2. IsRowOp(op) /\ op.hlc = h /\ op.row = r /\ op.table = t
      BY <1>0 DEF IsRowOp
    <2> QED BY <2>1, <2>2
  <1> QED BY <1>1, <1>2, <1>3

\* Every step keeps it.
LEMMA NextReplicaInv == ReplicaInv /\ [Next]_vars => ReplicaInv'
  <1> SUFFICES ASSUME ReplicaInv, [Next]_vars PROVE ReplicaInv'
    OBVIOUS
  <1>1. ASSUME NEW p \in Peer, NEW w \in Wall, Insert(p, w) \/ Update(p, w) \/ Delete(p, w)
        PROVE  ReplicaInv'
    BY <1>1, ChangesIssue, IssueKeeps
  <1>2. ASSUME NEW p \in Peer, NEW q \in Peer, Merge(p, q) PROVE ReplicaInv'
    BY <1>2, MergeKeeps
  <1>3. CASE UNCHANGED vars
    BY <1>3 DEF vars, ReplicaInv, Shape, Passed, WritesCovered, CellsAreLatest, AddWins
  <1> QED BY <1>1, <1>2, <1>3 DEF Next

\* Every replica's cells hold the last write of every peer among the
\* operations it contains, through any local writes and merges.
THEOREM MergedCellsAreLatest == Spec => []CellsAreLatest
  <1>1. ReplicaInv => CellsAreLatest
    BY DEF ReplicaInv
  <1>2. QED
    BY <1>1, InitReplicaInv, NextReplicaInv, PTL DEF Spec

\* A row of a replica is live exactly when some insert of it was not known to
\* any of the deletes, through any local changes and merges.
THEOREM MergedRowsAddWins == Spec => []AddWins
  <1>1. ReplicaInv => AddWins
    BY DEF ReplicaInv
  <1>2. QED
    BY <1>1, InitReplicaInv, NextReplicaInv, PTL DEF Spec

-----------------------------------------------------------------------------
(* Tombstones.                                                             *)

Tombstoned(s, t, r) == \E d \in Deletes(s, t, r) : d.op.fkTombstone

LEMMA TombstonesOfUnion ==
    ASSUME NEW s, NEW u, NEW t, NEW r
    PROVE  /\ Revived(s \cup u, t, r) <=> Revived(s, t, r) \/ Revived(u, t, r)
           /\ Tombstoned(s \cup u, t, r) <=> Tombstoned(s, t, r) \/ Tombstoned(u, t, r)
  <1>1. OpsOn(s \cup u, t, r) = OpsOn(s, t, r) \cup OpsOn(u, t, r)
    BY DEF OpsOn
  <1> QED BY <1>1 DEF Revived, Tombstoned, Deletes

LEMMA TombstonesOfOne ==
    ASSUME NEW e, NEW t, NEW r
    PROVE  /\ Revived({e}, t, r) <=>
                e.op.table = t /\ e.op.row = r /\ e.op.type = "insert" /\ e.found.tombstone # {}
           /\ Tombstoned({e}, t, r) <=>
                e.op.table = t /\ e.op.row = r /\ e.op.type = "delete" /\ e.op.fkTombstone
  BY DEF OpsOn, Revived, Tombstoned, Deletes

LEMMA TombstonesMean ==
    TombstonesKept <=>
        \A p \in Peer, t \in Table, r \in Row : ~Revived(seen[p], t, r) =>
            (store[p][t].members[r].tombstone # {} <=> Tombstoned(seen[p], t, r))
  BY DEF TombstonesKept, Tombstoned

\* A merge of entries has a tombstone if either has one.
LEMMA MergeTombstone ==
    ASSUME NEW e, NEW f
    PROVE  MergeEntry(e, f).tombstone # {} <=> e.tombstone # {} \/ f.tombstone # {}
  BY DEF MergeEntry, MergeTombstones

LEMMA IssueKeepsTombstones ==
    ASSUME ReplicaInv, TombstonesKept, NEW p \in Peer, NEW c, NEW op, IsRowOp(op),
           op.type = "delete" => op.row \in VisibleRows(store[p][op.table]),
           Issue(p, c, op)
    PROVE  TombstonesKept'
  <1> DEFINE found == store[p][op.table].members[op.row]
             ev == [op |-> op, found |-> found]
  <1>1. /\ store'[p] = ApplyOp(store[p], op) /\ seen'[p] = seen[p] \cup {ev}
        /\ \A q \in Peer \ {p} : store'[q] = store[q] /\ seen'[q] = seen[q]
    BY DEF Issue, ReplicaInv, Shape
  <1>2. ev.op = op /\ ev.found = found
    OBVIOUS
  <1> HIDE DEF ev
  <1>3. ASSUME NEW t \in Table, NEW r \in Row, ~Revived(seen'[p], t, r)
        PROVE  store'[p][t].members[r].tombstone # {} <=> Tombstoned(seen'[p], t, r)
    <2> DEFINE e == store[p][t].members[r]
               new == store'[p][t].members[r]
    <2>1. e \in Entries
      BY DEF ReplicaInv, Shape, IsStore, TableStates
    <2>2. ~Revived({ev}, t, r) /\ (e.tombstone # {} <=> Tombstoned(seen[p], t, r))
      <3>1. ~Revived({ev}, t, r) /\ ~Revived(seen[p], t, r)
        BY <1>1, <1>3, TombstonesOfUnion
      <3> QED BY <3>1, TombstonesMean
    <2>3. Tombstoned(seen'[p], t, r) <=> Tombstoned(seen[p], t, r) \/ Tombstoned({ev}, t, r)
      BY <1>1, TombstonesOfUnion
    <2>4. new = IF t = op.table /\ r = op.row THEN MembershipAfter(op, e) ELSE e
      BY <1>1, ApplyEffect DEF ReplicaInv, Shape
    <2> HIDE DEF new
    <2>5. CASE ~(t = op.table /\ r = op.row)
      BY <1>2, <2>2, <2>3, <2>4, <2>5, TombstonesOfOne DEF new
    <2>6. CASE t = op.table /\ r = op.row
      <3>1. found = e
        BY <2>6
      <3> HIDE DEF e, found
      <3>2. CASE op.type = "insert"
        <4>1. e.tombstone = {}
          BY <1>2, <2>2, <2>6, <3>1, <3>2, TombstonesOfOne
        <4>2. new.tombstone = {}
          BY <2>1, <2>4, <2>6, <3>2 DEF MembershipAfter, AddToken, Entries
        <4> QED BY <1>2, <2>2, <2>3, <3>2, <4>1, <4>2, TombstonesOfOne DEF new
      <3>3. CASE op.type = "update"
        BY <1>2, <2>2, <2>3, <2>4, <2>6, <3>3, TombstonesOfOne DEF MembershipAfter, new
      <3>4. CASE op.type = "delete"
        <4>1. e # Absent
          BY <2>6, <3>4 DEF e, VisibleRows, IsVisible, IsLive, Absent
        <4>2. new.tombstone = IF op.fkTombstone THEN {op.hlc} ELSE e.tombstone
          BY <2>1, <2>4, <2>6, <3>4, <4>1 DEF MembershipAfter, RemoveTokens, Entries
        <4> QED BY <1>2, <2>2, <2>3, <2>6, <3>4, <4>2, TombstonesOfOne DEF new
      <3> QED BY <3>2, <3>3, <3>4 DEF IsRowOp
    <2> QED BY <2>5, <2>6
  <1>4. ASSUME NEW q \in Peer, NEW t \in Table, NEW r \in Row, ~Revived(seen'[q], t, r)
        PROVE  store'[q][t].members[r].tombstone # {} <=> Tombstoned(seen'[q], t, r)
    <2>1. CASE q = p
      BY <1>3, <1>4, <2>1
    <2>2. CASE q # p
      BY <1>1, <1>4, <2>2 DEF TombstonesKept, Tombstoned
    <2> QED BY <2>1, <2>2
  <1> QED BY <1>4 DEF TombstonesKept, Tombstoned

LEMMA MergeKeepsTombstones ==
    ASSUME ReplicaInv, TombstonesKept, NEW p \in Peer, NEW q \in Peer, Merge(p, q)
    PROVE  TombstonesKept'
  <1>1. /\ store'[p] = MergeStore(store[p], store[q]) /\ seen'[p] = seen[p] \cup seen[q]
        /\ \A a \in Peer \ {p} : store'[a] = store[a] /\ seen'[a] = seen[a]
    BY DEF Merge, ReplicaInv, Shape
  <1>2. ASSUME NEW a \in Peer, NEW t \in Table, NEW r \in Row, ~Revived(seen'[a], t, r)
        PROVE  store'[a][t].members[r].tombstone # {} <=> Tombstoned(seen'[a], t, r)
    <2>1. CASE a = p
      <3>1. store'[p][t].members[r] = MergeEntry(store[p][t].members[r], store[q][t].members[r])
        BY <1>1, MergeEffect DEF ReplicaInv, Shape
      <3>2. ~Revived(seen[p], t, r) /\ ~Revived(seen[q], t, r)
        BY <1>1, <1>2, <2>1, TombstonesOfUnion
      <3>3. /\ store[p][t].members[r].tombstone # {} <=> Tombstoned(seen[p], t, r)
            /\ store[q][t].members[r].tombstone # {} <=> Tombstoned(seen[q], t, r)
        BY <3>2, TombstonesMean
      <3>4. Tombstoned(seen'[p], t, r) <=> Tombstoned(seen[p], t, r) \/ Tombstoned(seen[q], t, r)
        BY <1>1, TombstonesOfUnion
      <3>5. store'[p][t].members[r].tombstone # {} <=>
                store[p][t].members[r].tombstone # {} \/ store[q][t].members[r].tombstone # {}
        BY <3>1, MergeTombstone
      <3> QED BY <2>1, <3>3, <3>4, <3>5
    <2>2. CASE a # p
      BY <1>1, <1>2, <2>2 DEF TombstonesKept, Tombstoned
    <2> QED BY <2>1, <2>2
  <1> QED BY <1>2 DEF TombstonesKept, Tombstoned

\* Unless an insert has cleared a tombstone a row carries one exactly when a
\* tombstoning delete is known, so replicas agree on the rows they show.
THEOREM MergedTombstonesKept == Spec => []TombstonesKept
  <1>1. Init => TombstonesKept
    <2> SUFFICES ASSUME Init, NEW p \in Peer, NEW t \in Table, NEW r \in Row
                 PROVE  ~Tombstoned(seen[p], t, r) /\ store[p][t].members[r].tombstone = {}
      BY DEF TombstonesKept, Tombstoned
    <2>1. store[p][t].members[r] = Absent
      BY DEF Init, EmptyStore, EmptyTable
    <2>2. Deletes(seen[p], t, r) = {}
      BY DEF Init, Deletes, OpsOn
    <2> QED BY <2>1, <2>2 DEF Tombstoned, Absent
  <1>2. ReplicaInv /\ TombstonesKept /\ [Next]_vars => TombstonesKept'
    <2> SUFFICES ASSUME ReplicaInv, TombstonesKept, [Next]_vars PROVE TombstonesKept'
      OBVIOUS
    <2>1. ASSUME NEW p \in Peer, NEW w \in Wall, Insert(p, w) \/ Update(p, w) \/ Delete(p, w)
          PROVE  TombstonesKept'
      BY <2>1, ChangesIssue, IssueKeepsTombstones
    <2>2. ASSUME NEW p \in Peer, NEW q \in Peer, Merge(p, q) PROVE TombstonesKept'
      BY <2>2, MergeKeepsTombstones
    <2>3. CASE UNCHANGED vars
      BY <2>3 DEF vars, TombstonesKept
    <2> QED BY <2>1, <2>2, <2>3 DEF Next
  <1> QED BY <1>1, <1>2, InitReplicaInv, NextReplicaInv, PTL DEF Spec

-----------------------------------------------------------------------------
(***************************************************************************)
(* A version vector knows what its replica's state contains: comparing     *)
(* vectors is comparing sets of operations, through any local changes and  *)
(* merges of MergingReplicas.  And merging such states is a join.          *)
(*                                                                         *)
(* One number per peer can stand for a set of operations because replicas  *)
(* have no gaps: of the operations of a peer a replica contains those up   *)
(* to its entry and no others (NoGaps).  A merge keeps this since it takes *)
(* states as a whole; a local change keeps it because the clock has passed *)
(* every entry under the name of its peer, at any replica, which follows   *)
(* from Passed once every entry is reached by an operation (Reached).      *)
(***************************************************************************)

\* A replica contains what the others have of it.
OwnSeen ==
    \A p \in Peer : \A e \in seen[p] :
        e.op.hlc.peer \in Peer /\ e \in seen[e.op.hlc.peer]

NoGaps ==
    \A p, q \in Peer : \A e \in seen[q] :
        e.op.hlc.peer = q => (VvDominates(versions[p], e.op.hlc) <=> e \in seen[p])

Reached ==
    \A p, q \in Peer : versions[p][q].heard =>
        \E e \in seen[p] : e.op.hlc.peer = q /\ ~Earlier(e.op.hlc, versions[p][q])

VersionsInv ==
    /\ versions \in [Peer -> [Peer -> VvEntries]]
    /\ OwnSeen
    /\ NoGaps
    /\ Reached

-----------------------------------------------------------------------------
(* Lemmas.                                                                 *)

LEMMA EarlierOrder ==
    ASSUME NEW c, NEW d, NEW e,
           c.wall \in Nat, c.logical \in Nat, d.wall \in Nat, d.logical \in Nat,
           e.wall \in Nat, e.logical \in Nat
    PROVE  /\ ~Earlier(c, c)
           /\ Earlier(c, d) => ~Earlier(d, c)
           /\ ~Earlier(c, d) /\ ~Earlier(d, e) => ~Earlier(c, e)
           /\ Earlier(c, d) /\ ~Earlier(e, d) => Earlier(c, e)
           /\ ~Earlier(d, c) /\ Earlier(d, e) => Earlier(c, e)
  BY DEF Earlier

\* The entry of a merge covers what either entry covers.
LEMMA LaterCovers ==
    ASSUME NEW c \in VvEntries, NEW d \in VvEntries
    PROVE  /\ LaterEntry(c, d) \in {c, d}
           /\ LaterEntry(c, d).heard <=> c.heard \/ d.heard
           /\ \A h \in Stamps :
                LaterEntry(c, d).heard /\ ~Earlier(LaterEntry(c, d), h) <=>
                    (c.heard /\ ~Earlier(c, h)) \/ (d.heard /\ ~Earlier(d, h))
  <1>1. /\ c.wall \in Nat /\ c.logical \in Nat /\ d.wall \in Nat /\ d.logical \in Nat
        /\ \A h \in Stamps : h.wall \in Nat /\ h.logical \in Nat
    BY DEF VvEntries, Stamps
  <1> QED BY <1>1 DEF LaterEntry, Earlier

\* Every entry for a peer is at or below the clock of the peer.
LEMMA EntriesPassed ==
    ASSUME ReplicaInv, VersionsInv, NEW p \in Peer, NEW q \in Peer, versions[p][q].heard
    PROVE  ~Earlier(clock[q], versions[p][q])
  <1>1. PICK e \in seen[p] : e.op.hlc.peer = q /\ ~Earlier(e.op.hlc, versions[p][q])
    BY DEF VersionsInv, Reached
  <1>2. ~Earlier(clock[q], e.op.hlc)
    BY <1>1 DEF ReplicaInv, Passed
  <1>3. e.op.hlc \in Stamps /\ clock[q] \in Clocks /\ versions[p][q] \in VvEntries
    BY DEF ReplicaInv, Shape, VersionsInv
  <1> QED BY <1>1, <1>2, <1>3, EarlierOrder DEF Stamps, Clocks, VvEntries

-----------------------------------------------------------------------------
(* Steps.                                                                  *)

LEMMA IssueKeepsVersions ==
    ASSUME ReplicaInv, VersionsInv, NEW p \in Peer, NEW w \in Wall, NEW op,
           op.hlc = Stamp(TickClock(clock[p], w), p), Issue(p, TickClock(clock[p], w), op)
    PROVE  VersionsInv'
  <1> DEFINE h == op.hlc
             ev == [op |-> op, found |-> store[p][op.table].members[op.row]]
  <1>1. /\ h \in Stamps /\ h.peer = p
        /\ \A s \in Stamps : ~Earlier(clock[p], s) => Before(s, h)
    BY TickPasses, PeerAssumption, WallAssumption DEF ReplicaInv, Shape, Stamp
  <1>2. ev.op = op
    OBVIOUS
  <1>3. /\ versions' = [versions EXCEPT ![p] = VvObserve(@, h)]
        /\ seen' = [seen EXCEPT ![p] = @ \cup {ev}]
    BY DEF Issue
  <1> HIDE DEF h, ev
  <1>4. /\ seen'[p] = seen[p] \cup {ev}
        /\ \A q \in Peer \ {p} : seen'[q] = seen[q]
    BY <1>3 DEF ReplicaInv, Shape
  <1>5. h.wall \in Nat /\ h.logical \in Nat
    BY <1>1 DEF Stamps
  <1>6. ASSUME NEW s \in Stamps, s.peer = p, ~Earlier(clock[p], s)
        PROVE  Earlier(s, h)
    BY <1>1, <1>6 DEF Before, Earlier, Stamps
  <1>7. \A q \in Peer : \A e \in seen[q] : e.op.hlc.peer = p => Earlier(e.op.hlc, h)
    BY <1>6 DEF ReplicaInv, Passed, Shape
  <1>8. ASSUME NEW q \in Peer, versions[q][p].heard PROVE Earlier(versions[q][p], h)
    <2>1. PICK e \in seen[q] : e.op.hlc.peer = p /\ ~Earlier(e.op.hlc, versions[q][p])
      BY <1>8 DEF VersionsInv, Reached
    <2>2. e.op.hlc \in Stamps /\ versions[q][p] \in VvEntries
      BY DEF ReplicaInv, Shape, VersionsInv
    <2>3. Earlier(e.op.hlc, h)
      BY <1>7, <2>1
    <2> QED BY <2>1, <2>2, <2>3, <1>5, EarlierOrder DEF Stamps, VvEntries
  <1>9. /\ versions'[p][p] = Heard(h)
        /\ \A q \in Peer \ {p} : versions'[p][q] = versions[p][q]
        /\ \A q \in Peer \ {p} : versions'[q] = versions[q]
        /\ versions' \in [Peer -> [Peer -> VvEntries]]
    <2>1. Heard(h) \in VvEntries /\ Heard(h).heard /\ Heard(h).wall = h.wall
            /\ Heard(h).logical = h.logical
      BY <1>5 DEF Heard, VvEntries
    <2>2. LaterEntry(versions[p][p], Heard(h)) = Heard(h)
      BY <1>8, <2>1 DEF LaterEntry, Earlier
    <2>3. VvObserve(versions[p], h) = [versions[p] EXCEPT ![p] = Heard(h)]
      BY <1>1, <2>2 DEF VvObserve
    <2> QED BY <1>3, <2>1, <2>3 DEF VersionsInv
  <1>10. Heard(h).heard /\ Heard(h).wall = h.wall /\ Heard(h).logical = h.logical
    BY DEF Heard
  <1>11. OwnSeen'
    <2> SUFFICES ASSUME NEW q \in Peer, NEW e \in seen'[q]
                 PROVE  e.op.hlc.peer \in Peer /\ e \in seen'[e.op.hlc.peer]
      BY DEF OwnSeen
    <2>1. CASE e = ev
      BY <2>1, <1>1, <1>2, <1>4 DEF h
    <2>2. CASE e # ev
      <3>1. e \in seen[q]
        BY <2>2, <1>4
      <3> QED BY <3>1, <1>4 DEF VersionsInv, OwnSeen
    <2> QED BY <2>1, <2>2
  <1>12. NoGaps'
    <2> SUFFICES ASSUME NEW a \in Peer, NEW q \in Peer, NEW e \in seen'[q],
                        e.op.hlc.peer = q
                 PROVE  VvDominates(versions'[a], e.op.hlc) <=> e \in seen'[a]
      BY DEF NoGaps
    <2>1. CASE e = ev
      <3>1. e.op.hlc = h /\ q = p
        BY <2>1, <1>1, <1>2 DEF h
      <3>2. CASE a = p
        BY <3>1, <3>2, <2>1, <1>4, <1>5, <1>9, <1>10, <1>1 DEF VvDominates, Earlier
      <3>3. CASE a # p
        <4>1. ev \notin seen[a]
          <5>1. ~Earlier(h, h)
            BY <1>5 DEF Earlier
          <5> QED BY <5>1, <1>7, <3>1, <2>1, <1>1
        <4>2. ~VvDominates(versions[a], h)
          BY <1>1, <1>8 DEF VvDominates
        <4> QED BY <3>1, <3>3, <4>1, <4>2, <2>1, <1>4, <1>9
      <3> QED BY <3>2, <3>3
    <2>2. CASE e # ev
      <3>1. e \in seen[q]
        BY <2>2, <1>4
      <3>2. VvDominates(versions[a], e.op.hlc) <=> e \in seen[a]
        BY <3>1 DEF VersionsInv, NoGaps
      <3>3. e \in seen'[a] <=> e \in seen[a]
        BY <2>2, <1>4
      <3>4. CASE a # p \/ q # p
        <4>1. versions'[a][q] = versions[a][q]
          BY <3>4, <1>9
        <4> QED BY <4>1, <3>2, <3>3 DEF VvDominates
      <3>5. CASE a = p /\ q = p
        <4>1. Earlier(e.op.hlc, h)
          BY <3>1, <3>5, <1>7
        <4>2. e.op.hlc.wall \in Nat /\ e.op.hlc.logical \in Nat
          BY <3>1 DEF ReplicaInv, Shape, Stamps
        <4>3. VvDominates(versions'[a], e.op.hlc)
          BY <3>5, <4>1, <4>2, <1>5, <1>9, <1>10 DEF VvDominates, Earlier
        <4> QED BY <4>3, <3>1, <3>3, <3>5
      <3> QED BY <3>4, <3>5
    <2> QED BY <2>1, <2>2
  <1>13. Reached'
    <2> SUFFICES ASSUME NEW a \in Peer, NEW q \in Peer, versions'[a][q].heard
                 PROVE  \E e \in seen'[a] : /\ e.op.hlc.peer = q
                                            /\ ~Earlier(e.op.hlc, versions'[a][q])
      BY DEF Reached
    <2>1. CASE a = p /\ q = p
      <3>1. ev \in seen'[a] /\ ev.op.hlc = h /\ h.peer = q
        BY <2>1, <1>1, <1>2, <1>4 DEF h
      <3>2. ~Earlier(h, versions'[a][q])
        BY <2>1, <1>5, <1>9, <1>10 DEF Earlier
      <3> QED BY <3>1, <3>2
    <2>2. CASE a # p \/ q # p
      <3>1. versions'[a][q] = versions[a][q] /\ seen[a] \subseteq seen'[a]
        BY <2>2, <1>4, <1>9
      <3> QED BY <3>1 DEF VersionsInv, Reached
    <2> QED BY <2>1, <2>2
  <1> QED BY <1>9, <1>11, <1>12, <1>13 DEF VersionsInv

LEMMA MergeKeepsVersions ==
    ASSUME ReplicaInv, VersionsInv, NEW p \in Peer, NEW q \in Peer, Merge(p, q)
    PROVE  VersionsInv'
  <1>1. /\ seen'[p] = seen[p] \cup seen[q]
        /\ \A a \in Peer \ {p} : seen'[a] = seen[a]
    BY DEF Merge, ReplicaInv, Shape
  <1>2. /\ versions'[p] = VvMerge(versions[p], versions[q])
        /\ \A a \in Peer \ {p} : versions'[a] = versions[a]
        /\ versions' = [a \in Peer |-> versions'[a]]
    BY DEF Merge, VersionsInv
  <1>3. versions'[p] = [r \in Peer |-> LaterEntry(versions[p][r], versions[q][r])]
    BY <1>2 DEF VersionsInv, VvMerge
  <1>4. \A a, r \in Peer : versions[a][r] \in VvEntries
    BY DEF VersionsInv
  <1>5. \A r \in Peer : versions'[p][r] \in {versions[p][r], versions[q][r]}
    BY <1>3, <1>4, LaterCovers
  <1>6. versions' \in [Peer -> [Peer -> VvEntries]]
    <2>1. versions'[p] \in [Peer -> VvEntries]
      BY <1>3, <1>4, <1>5
    <2> QED BY <2>1, <1>2 DEF VersionsInv
  <1>7. OwnSeen'
    BY <1>1 DEF VersionsInv, OwnSeen
  <1>8. \A h \in Stamps : h.peer \in Peer =>
            (VvDominates(versions'[p], h) <=>
                VvDominates(versions[p], h) \/ VvDominates(versions[q], h))
    BY <1>3, <1>4, LaterCovers DEF VvDominates
  <1>9. NoGaps'
    <2> SUFFICES ASSUME NEW a \in Peer, NEW r \in Peer, NEW e \in seen'[r],
                        e.op.hlc.peer = r
                 PROVE  VvDominates(versions'[a], e.op.hlc) <=> e \in seen'[a]
      BY DEF NoGaps
    <2>1. e \in seen[r]
      BY <1>1 DEF VersionsInv, OwnSeen
    <2>2. \A b \in Peer : VvDominates(versions[b], e.op.hlc) <=> e \in seen[b]
      BY <2>1 DEF VersionsInv, NoGaps
    <2>3. e.op.hlc \in Stamps
      BY <2>1 DEF ReplicaInv, Shape
    <2>4. CASE a = p
      BY <2>2, <2>3, <2>4, <1>1, <1>8
    <2>5. CASE a # p
      BY <2>2, <2>5, <1>1, <1>2
    <2> QED BY <2>4, <2>5
  <1>10. Reached'
    <2> SUFFICES ASSUME NEW a \in Peer, NEW r \in Peer, versions'[a][r].heard
                 PROVE  \E e \in seen'[a] : /\ e.op.hlc.peer = r
                                            /\ ~Earlier(e.op.hlc, versions'[a][r])
      BY DEF Reached
    <2>1. PICK b \in Peer : versions'[a][r] = versions[b][r] /\ seen[b] \subseteq seen'[a]
      BY <1>1, <1>2, <1>5
    <2> QED BY <2>1 DEF VersionsInv, Reached
  <1> QED BY <1>6, <1>7, <1>9, <1>10 DEF VersionsInv

LEMMA InitVersionsInv == Init => VersionsInv
  <1> SUFFICES ASSUME Init PROVE VersionsInv
    OBVIOUS
  <1>1. Unheard \in VvEntries /\ ~Unheard.heard
    BY DEF Unheard, VvEntries
  <1> QED BY <1>1 DEF Init, VersionsInv, OwnSeen, NoGaps, Reached

LEMMA NextVersionsInv == ReplicaInv /\ VersionsInv /\ [Next]_vars => VersionsInv'
  <1> SUFFICES ASSUME ReplicaInv, VersionsInv, [Next]_vars PROVE VersionsInv'
    OBVIOUS
  <1>1. ASSUME NEW p \in Peer, NEW w \in Wall, Insert(p, w) \/ Update(p, w) \/ Delete(p, w)
        PROVE  VersionsInv'
    <2>1. \E op : /\ op.hlc = Stamp(TickClock(clock[p], w), p)
                  /\ Issue(p, TickClock(clock[p], w), op)
      <3>1. CASE Insert(p, w)
        BY <3>1 DEF Insert
      <3>2. CASE Update(p, w)
        BY <3>2 DEF Update
      <3>3. CASE Delete(p, w)
        BY <3>3 DEF Delete
      <3> QED BY <1>1, <3>1, <3>2, <3>3
    <2> QED BY <2>1, IssueKeepsVersions
  <1>2. ASSUME NEW p \in Peer, NEW q \in Peer, Merge(p, q) PROVE VersionsInv'
    BY <1>2, MergeKeepsVersions
  <1>3. CASE UNCHANGED vars
    BY <1>3 DEF vars, VersionsInv, OwnSeen, NoGaps, Reached
  <1> QED BY <1>1, <1>2, <1>3 DEF Next

LEMMA VersionsInvCompares == ReplicaInv /\ VersionsInv => VersionsCompare
  <1> SUFFICES ASSUME ReplicaInv, VersionsInv PROVE VersionsCompare
    OBVIOUS
  <1>1. ASSUME NEW p \in Peer, NEW q \in Peer, NEW e \in seen[q]
        PROVE  VvDominates(versions[p], e.op.hlc) <=> e \in seen[p]
    BY DEF VersionsInv, OwnSeen, NoGaps
  <1>2. \A a, r \in Peer : versions[a][r].wall \in Nat /\ versions[a][r].logical \in Nat
    BY DEF VersionsInv, VvEntries
  <1>3. \A a \in Peer : \A e \in seen[a] :
            e.op.hlc.peer \in Peer /\ e.op.hlc.wall \in Nat /\ e.op.hlc.logical \in Nat
    BY DEF ReplicaInv, Shape, Stamps, VersionsInv, OwnSeen
  <1>4. ASSUME NEW p \in Peer, NEW q \in Peer, VvDominatedBy(versions[p], versions[q]),
               NEW e \in seen[p]
        PROVE  e \in seen[q]
    <2> DEFINE r == e.op.hlc.peer
    <2>1. versions[p][r].heard /\ ~Earlier(versions[p][r], e.op.hlc) /\ r \in Peer
      BY <1>1, <1>3 DEF VvDominates
    <2>2. versions[q][r].heard /\ ~Earlier(versions[q][r], versions[p][r])
      BY <1>4, <2>1 DEF VvDominatedBy, VersionsInv
    <2>3. ~Earlier(versions[q][r], e.op.hlc)
      BY <1>2, <1>3, <2>1, <2>2, EarlierOrder
    <2> QED BY <1>1, <2>2, <2>3 DEF VvDominates
  <1>5. ASSUME NEW p \in Peer, NEW q \in Peer, seen[p] \subseteq seen[q],
               NEW r \in Peer, versions[p][r].heard
        PROVE  versions[q][r].heard /\ ~Earlier(versions[q][r], versions[p][r])
    <2>1. PICK e \in seen[p] : e.op.hlc.peer = r /\ ~Earlier(e.op.hlc, versions[p][r])
      BY <1>5 DEF VersionsInv, Reached
    <2>2. versions[q][r].heard /\ ~Earlier(versions[q][r], e.op.hlc)
      BY <1>1, <1>5, <2>1 DEF VvDominates
    <2> QED BY <1>2, <1>3, <2>1, <2>2, EarlierOrder
  <1>6. \A p, q \in Peer :
            VvDominatedBy(versions[p], versions[q]) <=> seen[p] \subseteq seen[q]
    <2>1. \A a \in Peer : DOMAIN versions[a] = Peer
      BY DEF VersionsInv
    <2> QED BY <1>4, <1>5, <2>1 DEF VvDominatedBy
  <1> QED BY <1>1, <1>6 DEF VersionsCompare

\* Comparing the version vectors of replicas tells which of them contains what
\* the other contains, and asking a vector for a timestamp whether its replica
\* contains the operation.
THEOREM VectorsCompareStates == Spec => []VersionsCompare
  BY InitReplicaInv, NextReplicaInv, InitVersionsInv, NextVersionsInv,
     VersionsInvCompares, PTL DEF Spec

-----------------------------------------------------------------------------
(* Merging whole states.                                                   *)

\* A store is what its rows and cells are.
LEMMA StoresEqual ==
    ASSUME NEW s, NEW u, IsStore(s), IsStore(u),
           \A t \in Table, r \in Row : s[t].members[r] = u[t].members[r],
           \A t \in Table, r \in Row : \A c \in Columns[t] : s[t].cells[r][c] = u[t].cells[r][c]
    PROVE  s = u
  <1>1. ASSUME NEW t \in Table PROVE s[t] = u[t]
    <2>1. \A x \in {s[t], u[t]} : /\ x.members \in [Row -> Entries]
                                  /\ x.cells \in [Row -> [Columns[t] -> SUBSET CellEntries]]
                                  /\ x = [members |-> x.members, cells |-> x.cells]
      BY DEF IsStore, TableStates
    <2>2. s[t].members = u[t].members
      BY <2>1
    <2>3. \A r \in Row : s[t].cells[r] = u[t].cells[r]
      <3> SUFFICES ASSUME NEW r \in Row PROVE s[t].cells[r] = u[t].cells[r]
        OBVIOUS
      <3>1. /\ s[t].cells[r] \in [Columns[t] -> SUBSET CellEntries]
            /\ u[t].cells[r] \in [Columns[t] -> SUBSET CellEntries]
        BY <2>1
      <3>2. \A c \in Columns[t] : s[t].cells[r][c] = u[t].cells[r][c]
        OBVIOUS
      <3> QED BY <3>1, <3>2
    <2>4. s[t].cells = u[t].cells
      BY <2>1, <2>3
    <2> QED BY <2>1, <2>2, <2>4
  <1> QED BY <1>1 DEF IsStore

LEMMA StoresJoin ==
    ASSUME ReplicaInv, NEW p \in Peer, NEW q \in Peer, NEW r \in Peer
    PROVE  /\ MergeStore(store[p], store[q]) = MergeStore(store[q], store[p])
           /\ MergeStore(MergeStore(store[p], store[q]), store[r])
                = MergeStore(store[p], MergeStore(store[q], store[r]))
           /\ MergeStore(store[p], store[p]) = store[p]
  <1>1. \A a \in {p, q, r} : IsStore(store[a])
    BY DEF ReplicaInv, Shape
  <1>2. ASSUME NEW t \in Table, NEW x \in Row, NEW a \in Peer
        PROVE  store[a][t].members[x] \in Entries
    BY DEF ReplicaInv, Shape, IsStore, TableStates
  <1>3. ASSUME NEW t \in Table, NEW x \in Row, NEW c \in Columns[t], NEW a \in Peer
        PROVE  Stamped(store[a][t].cells[x][c]) /\ Compact(store[a][t].cells[x][c])
    <2>1. store[a][t].cells[x][c] = Undominated(Writes(seen[a], t, x, c))
      BY DEF ReplicaInv, CellsAreLatest
    <2>2. \A W : Compact(Undominated(W))
      BY DEF Compact, Undominated
    <2>3. store[a][t].cells[x][c] \in SUBSET CellEntries
      BY DEF ReplicaInv, Shape, IsStore, TableStates
    <2> QED BY <2>1, <2>2, <2>3 DEF Stamped, CellEntries
  <1>4. \A a, b \in {p, q, r} : IsStore(MergeStore(store[a], store[b]))
    BY <1>1, MergeEffect
  <1>5. MergeStore(store[p], store[q]) = MergeStore(store[q], store[p])
    <2>1. ASSUME NEW t \in Table, NEW x \in Row
          PROVE  MergeStore(store[p], store[q])[t].members[x] =
                    MergeStore(store[q], store[p])[t].members[x]
      <3>1. \A a, b \in {p, q} : MergeStore(store[a], store[b])[t].members[x] =
                                    MergeEntry(store[a][t].members[x], store[b][t].members[x])
        BY <1>1, MergeEffect
      <3> QED BY <1>2, <3>1, MergeEntryIsJoin
    <2>2. ASSUME NEW t \in Table, NEW x \in Row, NEW c \in Columns[t]
          PROVE  MergeStore(store[p], store[q])[t].cells[x][c] =
                    MergeStore(store[q], store[p])[t].cells[x][c]
      <3>1. \A a, b \in {p, q} : MergeStore(store[a], store[b])[t].cells[x][c] =
                                    MergeCell(store[a][t].cells[x][c], store[b][t].cells[x][c])
        BY <1>1, MergeEffect
      <3> QED BY <1>3, <3>1, MergeCellIsJoin
    <2> QED BY <1>4, <2>1, <2>2, StoresEqual
  <1>6. MergeStore(MergeStore(store[p], store[q]), store[r])
            = MergeStore(store[p], MergeStore(store[q], store[r]))
    <2> DEFINE L == MergeStore(MergeStore(store[p], store[q]), store[r])
               R == MergeStore(store[p], MergeStore(store[q], store[r]))
    <2>1. IsStore(L) /\ IsStore(R)
      BY <1>1, <1>4, MergeEffect
    <2>2. ASSUME NEW t \in Table, NEW x \in Row PROVE L[t].members[x] = R[t].members[x]
      <3>1. L[t].members[x] = MergeEntry(MergeEntry(store[p][t].members[x], store[q][t].members[x]),
                                         store[r][t].members[x])
        BY <1>1, <1>4, MergeEffect
      <3>2. R[t].members[x] = MergeEntry(store[p][t].members[x],
                                MergeEntry(store[q][t].members[x], store[r][t].members[x]))
        BY <1>1, <1>4, MergeEffect
      <3> QED BY <1>2, <3>1, <3>2, MergeEntryIsJoin
    <2>3. ASSUME NEW t \in Table, NEW x \in Row, NEW c \in Columns[t]
          PROVE  L[t].cells[x][c] = R[t].cells[x][c]
      <3>1. L[t].cells[x][c] = MergeCell(MergeCell(store[p][t].cells[x][c], store[q][t].cells[x][c]),
                                         store[r][t].cells[x][c])
        BY <1>1, <1>4, MergeEffect
      <3>2. R[t].cells[x][c] = MergeCell(store[p][t].cells[x][c],
                                MergeCell(store[q][t].cells[x][c], store[r][t].cells[x][c]))
        BY <1>1, <1>4, MergeEffect
      <3> QED BY <1>3, <3>1, <3>2, MergeCellIsJoin
    <2> HIDE DEF L, R
    <2>4. L = R
      BY <2>1, <2>2, <2>3, StoresEqual
    <2> QED BY <2>4 DEF L, R
  <1>7. MergeStore(store[p], store[p]) = store[p]
    <2>1. ASSUME NEW t \in Table, NEW x \in Row
          PROVE  MergeStore(store[p], store[p])[t].members[x] = store[p][t].members[x]
      BY <1>1, <1>2, MergeEffect, MergeEntryIsJoin
    <2>2. ASSUME NEW t \in Table, NEW x \in Row, NEW c \in Columns[t]
          PROVE  MergeStore(store[p], store[p])[t].cells[x][c] = store[p][t].cells[x][c]
      BY <1>1, <1>3, MergeEffect, MergeCellIsJoin
    <2> QED BY <1>1, <1>4, <2>1, <2>2, StoresEqual
  <1> QED BY <1>5, <1>6, <1>7

\* On the states replicas reach, merge is commutative, associative and
\* idempotent.
THEOREM ReachedStatesJoin == Spec => []MergeIsJoin
  <1>1. ReplicaInv /\ VersionsInv => MergeIsJoin
    <2> SUFFICES ASSUME ReplicaInv, VersionsInv, NEW p \in Peer, NEW q \in Peer, NEW r \in Peer
                 PROVE  /\ MergeStore(store[p], store[q]) = MergeStore(store[q], store[p])
                        /\ MergeStore(MergeStore(store[p], store[q]), store[r])
                            = MergeStore(store[p], MergeStore(store[q], store[r]))
                        /\ MergeStore(store[p], store[p]) = store[p]
                        /\ VvMerge(versions[p], versions[q]) = VvMerge(versions[q], versions[p])
      BY DEF MergeIsJoin
    <2>1. versions[p] \in [Peer -> VvEntries] /\ versions[q] \in [Peer -> VvEntries]
      BY DEF VersionsInv
    <2>2. VvMerge(versions[p], versions[q]) = VvMerge(versions[q], versions[p])
      BY <2>1, VvMergeIsJoin
    <2> QED BY <2>2, StoresJoin
  <1> QED BY <1>1, InitReplicaInv, NextReplicaInv, InitVersionsInv, NextVersionsInv, PTL DEF Spec

-----------------------------------------------------------------------------
(***************************************************************************)
(* Whoever merges with whom, every value a replica has reserved has one    *)
(* owner there, the losers are logged, and replicas that contain the same  *)
(* operations agree on all of it: proofs about UniqueMerge and the         *)
(* replicas of MergingReplicas that use it.                                *)
(*                                                                         *)
(* The states of reservations are stored and only sometimes recomputed, so *)
(* the invariant says that they are always what an election among all      *)
(* reservations of the value would give (Settled).  Which reservations a   *)
(* replica has follows from the operations it contains (Reserved): of the  *)
(* repeated reservations of a row by one peer the first, and replicas have *)
(* no gaps (VersionsCompare), so that they never hold different ones.      *)
(***************************************************************************)

States == {"provisional", "won", "lost"}

Reservations == [value : Value, row : Row, owner : Nat, hlc : Stamps, state : States]

\* c and d are one reservation, in whatever states.
Same(c, d) == SameClaim(c, d) /\ c.hlc = d.hlc

Beaten(c, claims) == \E x \in claims : ClaimBeats(x, c)

\* The state a reservation has among all those of its value.
Standing(c, claims) ==
    IF \A x \in claims : SameClaim(x, c) THEN "provisional"
    ELSE IF Beaten(c, claims) THEN "lost" ELSE "won"

Restated(c, claims) == [c EXCEPT !.state = Standing(c, claims)]

Stood(claims) == {Restated(c, ClaimsOf(claims, c.value)) : c \in claims}

\* Reservations with one unbeaten for every value.
Proper(claims) ==
    /\ claims \in SUBSET Reservations /\ IsFiniteSet(claims)
    /\ \A c, d \in claims : SameClaim(c, d) => c = d
    /\ \A c \in claims : \E d \in ClaimsOf(claims, c.value) :
            ~Beaten(d, ClaimsOf(claims, c.value))

Settled(claims) ==
    /\ Proper(claims)
    /\ \A c \in claims : c.state = Standing(c, ClaimsOf(claims, c.value))

\* Every loser is in the conflict log with an owner of its value.
Logged(index) ==
    \A c \in index.claims : c.state = "lost" =>
        \E k \in index.conflicts : \E d \in ClaimsOf(index.claims, c.value) :
            k.loser = c.row /\ k.winner = d.row /\ d.state # "lost"

-----------------------------------------------------------------------------
(* Elections.                                                              *)

\* Reservations are ordered by timestamp, then by row.
LEMMA BeatsOrder ==
    ASSUME NEW a \in Reservations, NEW b \in Reservations, NEW c \in Reservations
    PROVE  /\ ~ClaimBeats(a, a)
           /\ ClaimBeats(a, b) => ~ClaimBeats(b, a)
           /\ ~ClaimBeats(a, b) /\ ~ClaimBeats(b, c) => ~ClaimBeats(a, c)
           /\ ~ClaimBeats(a, b) /\ ~ClaimBeats(b, a) => a.hlc = b.hlc /\ a.row = b.row
  <1>1. \A x \in {a, b, c} : x.hlc \in Stamps /\ x.row \in Nat
    BY RowAssumption DEF Reservations
  <1>2. \A x \in {a, b, c} : /\ x.hlc.wall \in Nat /\ x.hlc.logical \in Nat /\ x.hlc.peer \in Nat
                             /\ x.hlc = [wall |-> x.hlc.wall, logical |-> x.hlc.logical,
                                         peer |-> x.hlc.peer]
    BY <1>1 DEF Stamps
  <1>3. \A x, y \in {a, b, c} :
            x.hlc = y.hlc <=> /\ x.hlc.wall = y.hlc.wall /\ x.hlc.logical = y.hlc.logical
                              /\ x.hlc.peer = y.hlc.peer
    BY <1>2
  <1> QED BY <1>1, <1>2, <1>3 DEF ClaimBeats, Before, Earlier

\* A reservation whose state is set stays the same reservation.
LEMMA Restating ==
    ASSUME NEW c \in Reservations, NEW s \in States
    PROVE  /\ [c EXCEPT !.state = s] \in Reservations
           /\ Same([c EXCEPT !.state = s], c)
           /\ [c EXCEPT !.state = s].state = s
           /\ c.state = s => [c EXCEPT !.state = s] = c
  BY DEF Reservations, Same, SameClaim

LEMMA StandingIsState ==
    ASSUME NEW c, NEW S
    PROVE  Standing(c, S) \in States
  BY DEF Standing, States

\* Reservations that are the same beat the same ones.
LEMMA SameBeat ==
    ASSUME NEW a, NEW b, NEW c, NEW d, Same(a, c), Same(b, d)
    PROVE  /\ ClaimBeats(a, b) <=> ClaimBeats(c, d)
           /\ SameClaim(a, b) <=> SameClaim(c, d)
  BY DEF Same, SameClaim, ClaimBeats

\* An election gives every reservation of a value its standing.
LEMMA ElectStands ==
    ASSUME NEW S \in SUBSET Reservations, IsFiniteSet(S),
           \A c, d \in S : SameClaim(c, d) => c = d,
           \A c \in S : S = {c} => c.state = "provisional"
    PROVE  Elect(S) = {Restated(c, S) : c \in S}
  <1>1. CASE Cardinality(S) < 2
    <2>1. Cardinality(S) = 0 \/ Cardinality(S) = 1
      BY <1>1, FS_CardinalityType
    <2>2. S = {} \/ \E c : S = {c}
      BY <2>1, FS_EmptySet, FS_Singleton
    <2>3. \A c \in S : Standing(c, S) = "provisional" /\ c.state = "provisional"
      BY <2>2 DEF Standing, SameClaim
    <2>4. \A c \in S : [c EXCEPT !.state = Standing(c, S)] = c
      BY <2>3 DEF Reservations
    <2> QED BY <1>1, <2>4 DEF Elect, Restated
  <1>2. CASE ~(Cardinality(S) < 2)
    <2>1. \A c : S # {c}
      BY <1>2, FS_Singleton
    <2>2. \A c \in S : \E x \in S : ~SameClaim(x, c)
      BY <2>1
    <2>3. \A c \in S : Standing(c, S) = IF \A d \in S : ~ClaimBeats(d, c) THEN "won" ELSE "lost"
      BY <2>2 DEF Standing, Beaten
    <2> QED BY <1>2, <2>3 DEF Elect, Restated
  <1> QED BY <1>1, <1>2

\* What a resolution may be given: reservations that tell apart, of which those
\* that are not elected have their standing.
Resolvable(claims, vs) ==
    /\ Proper(claims)
    /\ \A c \in claims : c.value \notin vs => c.state = Standing(c, ClaimsOf(claims, c.value))
    /\ \A c \in claims : ClaimsOf(claims, c.value) = {c} => c.state = "provisional"

\* The reservations of a value.
LEMMA RivalsProper ==
    ASSUME NEW claims, Proper(claims), NEW v
    PROVE  /\ ClaimsOf(claims, v) \in SUBSET Reservations
           /\ IsFiniteSet(ClaimsOf(claims, v))
           /\ \A c, d \in ClaimsOf(claims, v) : SameClaim(c, d) => c = d
           /\ \A c \in ClaimsOf(claims, v) : c \in claims /\ c.value = v
  BY FS_Subset DEF Proper, ClaimsOf

\* Resolving values gives every reservation its standing.
LEMMA ResolveStands ==
    ASSUME NEW index, NEW claims, NEW vs, Resolvable(claims, vs)
    PROVE  /\ Resolve(index, claims, vs).claims = Stood(claims)
           /\ \A v \in vs : Elect(ClaimsOf(claims, v)) =
                {Restated(c, ClaimsOf(claims, c.value)) : c \in ClaimsOf(claims, v)}
  <1> DEFINE New(c) == Restated(c, ClaimsOf(claims, c.value))
             kept == {c \in claims : c.value \notin vs}
             elected(v) == Elect(ClaimsOf(claims, v))
  <1>1. ASSUME NEW v \in vs
        PROVE  elected(v) = {Restated(c, ClaimsOf(claims, v)) : c \in ClaimsOf(claims, v)}
    <2>1. \A c \in ClaimsOf(claims, v) : ClaimsOf(claims, v) = {c} => c.state = "provisional"
      BY RivalsProper DEF Resolvable
    <2> QED BY <2>1, RivalsProper, ElectStands DEF Resolvable
  <1>2. \A v \in vs : elected(v) = {New(c) : c \in ClaimsOf(claims, v)}
    <2> SUFFICES ASSUME NEW v \in vs PROVE elected(v) = {New(c) : c \in ClaimsOf(claims, v)}
      OBVIOUS
    <2>1. \A c \in ClaimsOf(claims, v) : c.value = v
      BY DEF ClaimsOf
    <2> QED BY <1>1, <2>1
  <1>3. \A c \in kept : New(c) = c
    <2>1. \A c \in kept : c \in Reservations /\ c.state = Standing(c, ClaimsOf(claims, c.value))
      BY DEF Resolvable, Proper
    <2> QED BY <2>1 DEF Reservations, Restated
  <1>4. Resolve(index, claims, vs).claims = kept \cup UNION {elected(v) : v \in vs}
    BY DEF Resolve
  <1> HIDE DEF elected, New
  <1>5. kept \cup UNION {elected(v) : v \in vs} = {New(c) : c \in claims}
    BY <1>2, <1>3 DEF ClaimsOf
  <1> QED BY <1>2, <1>4, <1>5 DEF Stood, New, elected

\* Reservations with their standing, which depends on what is reserved and
\* not on the states they had.
LEMMA StoodSettled ==
    ASSUME NEW claims, Proper(claims)
    PROVE  /\ Settled(Stood(claims))
           /\ \A c \in claims : \E d \in Stood(claims) : Same(d, c)
           /\ \A d \in Stood(claims) : \E c \in claims : Same(d, c)
  <1> DEFINE New(c) == Restated(c, ClaimsOf(claims, c.value))
             stood == Stood(claims)
  <1>1. \A c \in claims : /\ c \in Reservations
                          /\ New(c) \in Reservations /\ Same(New(c), c)
                          /\ New(c).state = Standing(c, ClaimsOf(claims, c.value))
    BY Restating, StandingIsState DEF Proper, Restated
  <1>2. stood = {New(c) : c \in claims}
    BY DEF Stood
  <1>3. IsFiniteSet(stood)
    <2> HIDE DEF New
    <2> DEFINE f == [c \in claims |-> New(c)]
    <2>1. f \in Surjection(claims, stood)
      BY <1>2 DEF Surjection
    <2> QED BY <2>1, FS_Surjection DEF Proper
  <1> HIDE DEF New, stood
  <1>4. \A c \in claims : New(c).value = c.value
    BY <1>1 DEF Same, SameClaim
  <1>5. \A v : ClaimsOf(stood, v) = {New(c) : c \in ClaimsOf(claims, v)}
    BY <1>2, <1>4 DEF ClaimsOf
  <1>6. ASSUME NEW c \in claims
        PROVE  /\ Standing(New(c), ClaimsOf(stood, c.value)) =
                    Standing(c, ClaimsOf(claims, c.value))
               /\ Beaten(New(c), ClaimsOf(stood, c.value)) <=>
                    Beaten(c, ClaimsOf(claims, c.value))
    <2>1. \A x \in ClaimsOf(claims, c.value) :
            /\ SameClaim(New(x), New(c)) <=> SameClaim(x, c)
            /\ ClaimBeats(New(x), New(c)) <=> ClaimBeats(x, c)
      BY <1>1, SameBeat DEF ClaimsOf
    <2> QED BY <1>5, <2>1 DEF Standing, Beaten
  <1>7. stood \in SUBSET Reservations
    BY <1>1, <1>2
  <1>8. \A a, b \in stood : SameClaim(a, b) => a = b
    <2> SUFFICES ASSUME NEW c \in claims, NEW d \in claims, SameClaim(New(c), New(d))
                 PROVE  New(c) = New(d)
      BY <1>2
    <2>1. SameClaim(c, d)
      BY <1>1, SameBeat
    <2> QED BY <2>1 DEF Proper
  <1>9. \A a \in stood : \E b \in ClaimsOf(stood, a.value) : ~Beaten(b, ClaimsOf(stood, a.value))
    <2> SUFFICES ASSUME NEW c \in claims
                 PROVE  \E b \in ClaimsOf(stood, c.value) : ~Beaten(b, ClaimsOf(stood, c.value))
      BY <1>2, <1>4
    <2>1. PICK d \in ClaimsOf(claims, c.value) : ~Beaten(d, ClaimsOf(claims, c.value))
      BY DEF Proper
    <2>2. d \in claims /\ d.value = c.value
      BY DEF ClaimsOf
    <2> QED BY <1>5, <1>6, <2>1, <2>2
  <1>10. \A a \in stood : a.state = Standing(a, ClaimsOf(stood, a.value))
    <2> SUFFICES ASSUME NEW c \in claims
                 PROVE  New(c).state = Standing(New(c), ClaimsOf(stood, New(c).value))
      BY <1>2
    <2> QED BY <1>1, <1>4, <1>6
  <1>11. Settled(stood)
    BY <1>3, <1>7, <1>8, <1>9, <1>10 DEF Settled, Proper
  <1> QED BY <1>1, <1>2, <1>11 DEF stood

\* Settled reservations are told by what is reserved.
LEMMA SettledAgree ==
    ASSUME NEW S, NEW T, Settled(S), Settled(T),
           \A c \in S : \E d \in T : Same(c, d),
           \A d \in T : \E c \in S : Same(c, d)
    PROVE  S = T
  <1>1. ASSUME NEW c \in S, NEW d \in T, Same(c, d) PROVE c = d
    <2>1. c.value = d.value
      BY <1>1 DEF Same, SameClaim
    <2>2. \A x \in ClaimsOf(S, c.value) : \E y \in ClaimsOf(T, c.value) : Same(x, y)
      BY DEF ClaimsOf, Same, SameClaim
    <2>3. \A y \in ClaimsOf(T, c.value) : \E x \in ClaimsOf(S, c.value) : Same(x, y)
      BY DEF ClaimsOf, Same, SameClaim
    <2>4. Beaten(c, ClaimsOf(S, c.value)) <=> Beaten(d, ClaimsOf(T, c.value))
      BY <1>1, <2>2, <2>3, SameBeat DEF Beaten
    <2>5. (\A x \in ClaimsOf(S, c.value) : SameClaim(x, c)) <=>
            (\A y \in ClaimsOf(T, c.value) : SameClaim(y, d))
      BY <1>1, <2>2, <2>3, SameBeat
    <2>6. c.state = d.state
      BY <2>1, <2>4, <2>5 DEF Settled, Standing
    <2> QED BY <1>1, <2>6 DEF Settled, Proper, Reservations, Same, SameClaim
  <1> QED BY <1>1

\* The owner of a value is the reservation that is not beaten.
LEMMA OwnerUnbeaten ==
    ASSUME NEW index, Settled(index.claims), NEW v
    PROVE  CanonicalOwners(index, v) =
             {c.row : c \in {d \in ClaimsOf(index.claims, v) :
                \A x \in ClaimsOf(index.claims, v) : ~ClaimBeats(x, d)}}
  <1> DEFINE S == ClaimsOf(index.claims, v)
  <1>1. ASSUME NEW d \in S PROVE d.state # "lost" <=> \A x \in S : ~ClaimBeats(x, d)
    <2>1. d \in index.claims /\ d.value = v /\ d.state = Standing(d, S)
      BY DEF Settled, ClaimsOf
    <2>2. S \in SUBSET Reservations /\ \A c, e \in S : SameClaim(c, e) => c = e
      BY RivalsProper DEF Settled
    <2>3. CASE \A x \in S : SameClaim(x, d)
      BY <2>1, <2>2, <2>3, BeatsOrder DEF Standing
    <2>4. CASE ~\A x \in S : SameClaim(x, d)
      BY <2>1, <2>4 DEF Standing, Beaten
    <2> QED BY <2>3, <2>4
  <1> QED BY <1>1 DEF CanonicalOwners

LEMMA OneOwnerRow ==
    ASSUME NEW index, Settled(index.claims), NEW d \in index.claims, d.state # "lost"
    PROVE  CanonicalOwners(index, d.value) = {d.row}
  <1> DEFINE S == ClaimsOf(index.claims, d.value)
  <1>0. d \in S
    BY DEF ClaimsOf
  <1>1. S \in SUBSET Reservations /\ d \in S
    BY <1>0, RivalsProper DEF Settled
  <1>2. ASSUME NEW c \in S, c.state # "lost" PROVE \A x \in S : ~ClaimBeats(x, c)
    <2>1. c.state = Standing(c, S)
      BY DEF Settled, ClaimsOf
    <2>2. \A c1, e \in S : SameClaim(c1, e) => c1 = e
      BY RivalsProper DEF Settled
    <2> QED BY <1>1, <1>2, <2>1, <2>2, BeatsOrder DEF Standing, Beaten
  <1>3. \A c \in S : c.state # "lost" => c.row = d.row
    BY <1>1, <1>2, BeatsOrder
  <1> QED BY <1>1, <1>3 DEF CanonicalOwners

\* A resolution logs the losers it makes.
LEMMA ResolveLogs ==
    ASSUME NEW index, NEW claims, NEW vs, Resolvable(claims, vs),
           \A c \in claims : c.value \notin vs /\ c.state = "lost" =>
                \E k \in index.conflicts : \E d \in ClaimsOf(claims, c.value) :
                    k.loser = c.row /\ k.winner = d.row /\ d.state # "lost"
    PROVE  Logged(Resolve(index, claims, vs))
  <1> DEFINE New(c) == Restated(c, ClaimsOf(claims, c.value))
             R == Resolve(index, claims, vs)
  <1>0. R.claims = Stood(claims)
    BY ResolveStands
  <1>1. R.claims = Stood(claims) /\ Settled(R.claims)
    <2>1. Settled(Stood(claims))
      BY StoodSettled DEF Resolvable
    <2> QED BY <1>0, <2>1
  <1>2. /\ index.conflicts \subseteq R.conflicts
        /\ \A v \in vs : ConflictsOf(Elect(ClaimsOf(claims, v))) \subseteq R.conflicts
    BY DEF Resolve
  <1>3. \A c \in claims : /\ New(c) \in R.claims /\ New(c).value = c.value
                          /\ c.value \notin vs => New(c) = c
    <2>1. ASSUME NEW c \in claims
          PROVE  /\ New(c).value = c.value
                 /\ c.state = Standing(c, ClaimsOf(claims, c.value)) => New(c) = c
      BY Restating, StandingIsState DEF Resolvable, Proper, Same, SameClaim, Restated
    <2> QED BY <1>1, <2>1 DEF Stood, Resolvable
  <1>4. \A v \in vs : Elect(ClaimsOf(claims, v)) = ClaimsOf(R.claims, v)
    <2> SUFFICES ASSUME NEW v \in vs PROVE Elect(ClaimsOf(claims, v)) = ClaimsOf(R.claims, v)
      OBVIOUS
    <2>1. Elect(ClaimsOf(claims, v)) = {New(c) : c \in ClaimsOf(claims, v)}
      BY ResolveStands
    <2>2. R.claims = {New(c) : c \in claims}
      BY <1>1 DEF Stood
    <2> HIDE DEF New, R
    <2> QED BY <1>3, <2>1, <2>2 DEF ClaimsOf
  <1> HIDE DEF R
  <1> SUFFICES ASSUME NEW c \in R.claims, c.state = "lost"
               PROVE  \E k \in R.conflicts : \E d \in ClaimsOf(R.claims, c.value) :
                        k.loser = c.row /\ k.winner = d.row /\ d.state # "lost"
    BY DEF Logged, R
  <1>5. CASE c.value \in vs
    <2> DEFINE E == ClaimsOf(R.claims, c.value)
    <2>1. c \in E
      BY DEF ClaimsOf
    <2>2. PICK d \in E : ~Beaten(d, E)
      BY <1>1 DEF Settled, Proper
    <2>3. /\ d.state = Standing(d, E)
          /\ c.state = Standing(c, E)
      BY <1>1 DEF Settled, ClaimsOf
    <2>4. PICK x \in E : ~SameClaim(x, c)
      BY <2>3 DEF Standing
    <2>5. ~SameClaim(x, d) \/ ~SameClaim(c, d)
      BY <2>4 DEF SameClaim
    <2>6. d.state = "won"
      BY <2>1, <2>2, <2>3, <2>5 DEF Standing
    <2> DEFINE k == [loser |-> c.row, winner |-> d.row, value |-> c.value]
    <2>7. k \in ConflictsOf(E)
      BY <2>1, <2>6 DEF ConflictsOf
    <2>8. k \in R.conflicts
      BY <1>2, <1>4, <1>5, <2>7
    <2> QED BY <2>6, <2>8
  <1>6. CASE c.value \notin vs
    <2>1. PICK c0 \in claims : c = New(c0)
      BY <1>1 DEF Stood
    <2>2. c0 = c
      BY <1>3, <1>6, <2>1
    <2>3. PICK k \in index.conflicts : \E d \in ClaimsOf(claims, c.value) :
                k.loser = c.row /\ k.winner = d.row /\ d.state # "lost"
      BY <1>6, <2>2
    <2>4. PICK d \in ClaimsOf(claims, c.value) :
                k.loser = c.row /\ k.winner = d.row /\ d.state # "lost"
      BY <2>3
    <2>5. d \in ClaimsOf(R.claims, c.value)
      BY <1>3, <1>6 DEF ClaimsOf
    <2> QED BY <1>2, <2>4, <2>5
  <1> QED BY <1>5, <1>6

-----------------------------------------------------------------------------
(* Joins of reservations.                                                  *)

\* What of b is new to a, and reservations that do not contradict each other.
NewTo(a, b) == {c \in b : \A d \in a : ~SameClaim(c, d)}
Agree(a, b) == \A c \in a, d \in b : SameClaim(c, d) => Same(c, d)

\* The reservations of a value that either knows have one unbeaten.
LEMMA JoinTopped ==
    ASSUME NEW A, NEW B, Proper(A), Proper(B), Agree(A, B),
           NEW c \in A \cup NewTo(A, B)
    PROVE  LET S == ClaimsOf(A \cup NewTo(A, B), c.value)
           IN  \E d \in S : ~Beaten(d, S)
  <1> DEFINE J == A \cup NewTo(A, B)
             v == c.value
             S == ClaimsOf(J, v)
  <1>0. A \in SUBSET Reservations /\ B \in SUBSET Reservations /\ S \in SUBSET Reservations
    BY DEF Proper, NewTo, ClaimsOf
  <1>1. \A x \in B : \E y \in J : Same(y, x)
    BY DEF NewTo, Agree, Same, SameClaim
  <1>2. \A x \in S : x \in ClaimsOf(A, v) \/ x \in ClaimsOf(B, v)
    BY DEF NewTo, ClaimsOf
  <1>3. ASSUME NEW d \in ClaimsOf(A, v), ~Beaten(d, ClaimsOf(A, v)),
               NEW e \in ClaimsOf(B, v), ~Beaten(e, ClaimsOf(B, v))
        PROVE  \E x \in S : ~Beaten(x, S)
    <2>1. d \in S /\ d \in A /\ e \in B
      BY DEF ClaimsOf
    <2>2. PICK f \in S : Same(f, e)
      BY <1>1, <2>1 DEF ClaimsOf, Same, SameClaim
    <2>3. \A x \in ClaimsOf(A, v) : ~ClaimBeats(x, d)
      BY <1>3 DEF Beaten
    <2>4. \A x \in ClaimsOf(B, v) : ~ClaimBeats(x, f)
      BY <1>3, <2>2, SameBeat DEF Beaten, Same, SameClaim
    <2>5. CASE ~ClaimBeats(f, d)
      <3>1. \A x \in S : ~ClaimBeats(x, d)
        BY <1>0, <1>2, <2>1, <2>3, <2>4, <2>5, BeatsOrder
      <3> QED BY <2>1, <3>1 DEF Beaten
    <2>6. CASE ClaimBeats(f, d)
      <3>1. ~ClaimBeats(d, f)
        BY <1>0, <2>1, <2>6, BeatsOrder
      <3>2. \A x \in S : ~ClaimBeats(x, f)
        BY <1>0, <1>2, <2>1, <2>3, <2>4, <3>1, BeatsOrder
      <3> QED BY <3>2 DEF Beaten
    <2> QED BY <2>5, <2>6
  <1>4. /\ ClaimsOf(A, v) # {} => \E d \in ClaimsOf(A, v) : ~Beaten(d, ClaimsOf(A, v))
        /\ ClaimsOf(B, v) # {} => \E d \in ClaimsOf(B, v) : ~Beaten(d, ClaimsOf(B, v))
    <2>1. \A X : Proper(X) => \A x \in ClaimsOf(X, v) :
                \E d \in ClaimsOf(X, v) : ~Beaten(d, ClaimsOf(X, v))
      <3> SUFFICES ASSUME NEW X, Proper(X), NEW x \in ClaimsOf(X, v)
                   PROVE  \E d \in ClaimsOf(X, v) : ~Beaten(d, ClaimsOf(X, v))
        OBVIOUS
      <3>1. x \in X /\ x.value = v
        BY DEF ClaimsOf
      <3> QED BY <3>1 DEF Proper
    <2> QED BY <2>1
  <1>5. CASE ClaimsOf(A, v) = {}
    <2>1. S = ClaimsOf(B, v)
      BY <1>5 DEF NewTo, ClaimsOf, SameClaim
    <2>2. c \in S
      BY DEF ClaimsOf
    <2> QED BY <1>4, <2>1, <2>2
  <1>6. CASE ClaimsOf(B, v) = {}
    <2>1. S = ClaimsOf(A, v)
      BY <1>6 DEF NewTo, ClaimsOf
    <2>2. c \in S
      BY DEF ClaimsOf
    <2> QED BY <1>4, <2>1, <2>2
  <1> QED BY <1>3, <1>4, <1>5, <1>6

LEMMA JoinResolvable ==
    ASSUME NEW A, NEW B, Settled(A), Settled(B), Agree(A, B)
    PROVE  Resolvable(A \cup NewTo(A, B), {c.value : c \in B})
  <1> DEFINE J == A \cup NewTo(A, B)
             vs == {c.value : c \in B}
  <1>1. Proper(A) /\ Proper(B)
    BY DEF Settled
  <1>2. J \in SUBSET Reservations /\ IsFiniteSet(J)
    BY <1>1, FS_Subset, FS_Union DEF Proper, NewTo
  <1>3. \A c, d \in J : SameClaim(c, d) => c = d
    BY <1>1 DEF Proper, NewTo, SameClaim
  <1>4. Proper(J)
    BY <1>1, <1>2, <1>3, JoinTopped DEF Proper
  <1>5. ASSUME NEW c \in J, c.value \notin vs
        PROVE  c.state = Standing(c, ClaimsOf(J, c.value))
    <2>1. c \in A /\ ClaimsOf(J, c.value) = ClaimsOf(A, c.value)
      BY <1>5 DEF NewTo, ClaimsOf
    <2> QED BY <2>1 DEF Settled
  <1>6. ASSUME NEW c \in J, ClaimsOf(J, c.value) = {c} PROVE c.state = "provisional"
    <2>1. CASE c \in A
      <3>1. ClaimsOf(A, c.value) = {c}
        BY <1>6, <2>1 DEF ClaimsOf
      <3>2. Standing(c, ClaimsOf(A, c.value)) = "provisional"
        BY <3>1 DEF Standing, SameClaim
      <3> QED BY <2>1, <3>2 DEF Settled
    <2>2. CASE c \in NewTo(A, B)
      <3>1. c \in B /\ \A x \in ClaimsOf(B, c.value) : x \in NewTo(A, B) \/ \E y \in J : SameClaim(x, y)
        BY <2>2 DEF NewTo, ClaimsOf
      <3>2. \A x \in ClaimsOf(B, c.value) : SameClaim(x, c)
        BY <1>6, <3>1 DEF ClaimsOf, SameClaim
      <3> QED BY <3>1, <3>2 DEF Settled, Standing
    <2> QED BY <2>1, <2>2
  <1> QED BY <1>4, <1>5, <1>6 DEF Resolvable

\* Joining the reservations of an index with others that do not contradict
\* them, and resolving their values, gives a settled index.
LEMMA JoinResolves ==
    ASSUME NEW index, Settled(index.claims), Logged(index),
           NEW B, Settled(B), Agree(index.claims, B)
    PROVE  LET merged == Resolve(index, index.claims \cup NewTo(index.claims, B),
                                 {c.value : c \in B})
           IN  /\ Settled(merged.claims) /\ Logged(merged)
               /\ \A c \in index.claims \cup B : \E d \in merged.claims : Same(d, c)
               /\ \A d \in merged.claims : \E c \in index.claims \cup B : Same(d, c)
  <1> DEFINE A == index.claims
             J == A \cup NewTo(A, B)
             vs == {c.value : c \in B}
             merged == Resolve(index, J, vs)
  <1>1. Resolvable(J, vs)
    BY JoinResolvable
  <1>2. merged.claims = Stood(J)
    BY <1>1, ResolveStands
  <1>3. /\ Settled(Stood(J))
        /\ \A c \in J : \E d \in Stood(J) : Same(d, c)
        /\ \A d \in Stood(J) : \E c \in J : Same(d, c)
    BY <1>1, StoodSettled DEF Resolvable
  <1>4. \A c \in J : c.value \notin vs /\ c.state = "lost" =>
            \E k \in index.conflicts : \E d \in ClaimsOf(J, c.value) :
                k.loser = c.row /\ k.winner = d.row /\ d.state # "lost"
    <2> SUFFICES ASSUME NEW c \in J, c.value \notin vs, c.state = "lost"
                 PROVE  \E k \in index.conflicts : \E d \in ClaimsOf(J, c.value) :
                            k.loser = c.row /\ k.winner = d.row /\ d.state # "lost"
      OBVIOUS
    <2>1. c \in A /\ ClaimsOf(J, c.value) = ClaimsOf(A, c.value)
      BY DEF NewTo, ClaimsOf
    <2> QED BY <2>1 DEF Logged
  <1>5. Logged(merged)
    BY <1>1, <1>4, ResolveLogs
  <1>6. \A c \in B : \E d \in J : Same(d, c)
    BY DEF NewTo, Agree, Same, SameClaim
  <1>7. \A c \in A \cup B : \E d \in Stood(J) : Same(d, c)
    <2> SUFFICES ASSUME NEW c \in A \cup B PROVE \E d \in Stood(J) : Same(d, c)
      OBVIOUS
    <2>1. PICK e \in J : Same(e, c)
      BY <1>6 DEF Same, SameClaim
    <2>2. PICK d \in Stood(J) : Same(d, e)
      BY <1>3
    <2> QED BY <2>1, <2>2 DEF Same, SameClaim
  <1>8. \A d \in Stood(J) : \E c \in A \cup B : Same(d, c)
    BY <1>3 DEF NewTo
  <1> QED BY <1>2, <1>3, <1>5, <1>7, <1>8

-----------------------------------------------------------------------------
(* Replicas.                                                               *)

\* Operation e made reservation c in table t.
Made(e, t, c) ==
    /\ e.op.table = t /\ e.op.type # "delete"
    /\ c.row = e.op.row /\ c.hlc = e.op.hlc /\ c.owner = e.op.hlc.peer
    /\ \E x \in DOMAIN e.op.cells : c.value = e.op.cells[x]

\* Of what operation e writes in table t there is a reservation, as old as e.
ReservedBy(e, t, claims) ==
    e.op.table = t /\ e.op.type # "delete" =>
        \A x \in DOMAIN e.op.cells : \E c \in claims :
            /\ c.value = e.op.cells[x] /\ c.row = e.op.row /\ c.owner = e.op.hlc.peer
            /\ ~Earlier(e.op.hlc, c.hlc)

\* The reservations are those of the operations in s.
Reserved(s, t, claims) ==
    /\ \A c \in claims : \E e \in s : Made(e, t, c)
    /\ IF Claiming THEN \A e \in s : ReservedBy(e, t, claims) ELSE claims = {}

IndexInv(s, t, index) == Settled(index.claims) /\ Logged(index) /\ Reserved(s, t, index.claims)

ElectionInv ==
    /\ unique = [p \in Peer |-> unique[p]]
    /\ \A p \in Peer : /\ unique[p] = [t \in Table |-> unique[p][t]]
                       /\ \A t \in Table : IndexInv(seen[p], t, unique[p][t])

\* Reservations that are the same were made by the same operations.
LEMMA ReservedJoin ==
    ASSUME NEW s, NEW u, NEW t, NEW A, NEW B, NEW M, Claiming,
           Reserved(s, t, A), Reserved(u, t, B),
           \A c \in A \cup B : \E d \in M : Same(d, c),
           \A d \in M : \E c \in A \cup B : Same(d, c)
    PROVE  Reserved(s \cup u, t, M)
  <1>1. ASSUME NEW d \in M PROVE \E e \in s \cup u : Made(e, t, d)
    <2>1. PICK c \in A \cup B : Same(d, c)
      OBVIOUS
    <2>2. PICK e \in s \cup u : Made(e, t, c)
      BY DEF Reserved
    <2> QED BY <2>1, <2>2 DEF Made, Same, SameClaim
  <1>2. ASSUME NEW e \in s \cup u PROVE ReservedBy(e, t, M)
    <2>1. ReservedBy(e, t, A) \/ ReservedBy(e, t, B)
      BY DEF Reserved
    <2> QED BY <2>1 DEF ReservedBy, Same, SameClaim
  <1> QED BY <1>1, <1>2 DEF Reserved

\* A reservation is as old at one replica as it is at another, which contains
\* everything its owner did up to its own.
LEMMA FirstEverywhere ==
    ASSUME ReplicaInv, VersionsInv, ElectionInv, NEW p \in Peer, NEW q \in Peer, NEW t \in Table,
           NEW c \in unique[p][t].claims, NEW d \in unique[q][t].claims, SameClaim(c, d),
           ~Earlier(d.hlc, c.hlc)
    PROVE  ~Earlier(c.hlc, d.hlc)
  <1>1. /\ IndexInv(seen[p], t, unique[p][t])
        /\ IndexInv(seen[q], t, unique[q][t])
    BY DEF ElectionInv
  <1>2. Claiming
    BY <1>1 DEF IndexInv, Reserved
  <1>3. PICK e \in seen[p] : Made(e, t, c)
    BY <1>1 DEF IndexInv, Reserved
  <1>4. PICK f \in seen[q] : Made(f, t, d)
    BY <1>1 DEF IndexInv, Reserved
  <1>5. e.op.hlc.peer = f.op.hlc.peer /\ e.op.hlc = c.hlc /\ f.op.hlc = d.hlc
    BY <1>3, <1>4 DEF Made, SameClaim
  <1>6. e.op.hlc \in Stamps /\ f.op.hlc \in Stamps
    BY DEF ReplicaInv, Shape
  <1>7. f.op.hlc.peer \in Peer
    BY DEF VersionsInv, OwnSeen
  <1>8. VersionsCompare
    BY VersionsInvCompares
  <1>9. VvDominates(versions[q], f.op.hlc)
    BY <1>8 DEF VersionsCompare
  <1>10. versions[q][f.op.hlc.peer] \in VvEntries
    BY <1>7 DEF VersionsInv
  <1>11. VvDominates(versions[q], e.op.hlc)
    BY <1>5, <1>6, <1>9, <1>10, EarlierOrder DEF VvDominates, Stamps, VvEntries
  <1>12. e \in seen[q]
    BY <1>8, <1>11 DEF VersionsCompare
  <1>13. ReservedBy(e, t, unique[q][t].claims)
    BY <1>1, <1>2, <1>12 DEF IndexInv, Reserved
  <1>14. PICK x \in DOMAIN e.op.cells : c.value = e.op.cells[x]
    BY <1>3 DEF Made
  <1>15. PICK g \in unique[q][t].claims :
            /\ g.value = c.value /\ g.row = c.row /\ g.owner = c.owner
            /\ ~Earlier(e.op.hlc, g.hlc)
    BY <1>3, <1>13, <1>14 DEF ReservedBy, Made
  <1>16. SameClaim(g, d)
    BY <1>15 DEF SameClaim
  <1>17. g = d
    BY <1>1, <1>16 DEF IndexInv, Settled, Proper
  <1> QED BY <1>5, <1>15, <1>17

LEMMA ReplicasAgree ==
    ASSUME ReplicaInv, VersionsInv, ElectionInv, NEW p \in Peer, NEW q \in Peer, NEW t \in Table
    PROVE  Agree(unique[p][t].claims, unique[q][t].claims)
  <1> SUFFICES ASSUME NEW c \in unique[p][t].claims, NEW d \in unique[q][t].claims, SameClaim(c, d)
               PROVE  c.hlc = d.hlc
    BY DEF Agree, Same
  <1>0. /\ IndexInv(seen[p], t, unique[p][t])
        /\ IndexInv(seen[q], t, unique[q][t])
    BY DEF ElectionInv
  <1>1. c.hlc \in Stamps /\ d.hlc \in Stamps
    BY <1>0 DEF IndexInv, Settled, Proper, Reservations
  <1>2. /\ c.hlc.wall \in Nat /\ c.hlc.logical \in Nat
        /\ d.hlc.wall \in Nat /\ d.hlc.logical \in Nat
    BY <1>1 DEF Stamps
  <1>3. SameClaim(d, c)
    BY DEF SameClaim
  <1>4. ~Earlier(c.hlc, d.hlc) /\ ~Earlier(d.hlc, c.hlc)
    BY <1>2, <1>3, FirstEverywhere, EarlierOrder
  <1>5. c.hlc.wall = d.hlc.wall /\ c.hlc.logical = d.hlc.logical
    BY <1>2, <1>4 DEF Earlier
  <1>6. c.hlc.peer = c.owner /\ d.hlc.peer = d.owner
    BY <1>0 DEF IndexInv, Reserved, Made
  <1> QED BY <1>1, <1>3, <1>5, <1>6 DEF SameClaim, Stamps

-----------------------------------------------------------------------------
(* Steps.                                                                  *)

LEMMA ClaimSettled ==
    ASSUME NEW v \in Value, NEW r \in Row, NEW h \in Stamps
    PROVE  Settled({Claim(v, r, h)})
  <1> DEFINE c == Claim(v, r, h)
  <1>1. c \in Reservations /\ c.state = "provisional" /\ c.value = v
    BY DEF Claim, Reservations, Stamps, States
  <1> HIDE DEF c
  <1>2. IsFiniteSet({c})
    BY FS_Singleton
  <1>3. ClaimsOf({c}, v) = {c}
    BY <1>1 DEF ClaimsOf
  <1>4. ~Beaten(c, {c}) /\ Standing(c, {c}) = "provisional"
    BY <1>1, BeatsOrder DEF Beaten, Standing, SameClaim
  <1>5. Settled({c})
    BY <1>1, <1>2, <1>3, <1>4 DEF Settled, Proper
  <1> QED BY <1>5 DEF c

\* Reserving, after an operation that makes the reservation.
LEMMA ReserveKeeps ==
    ASSUME Claiming, NEW s, NEW t, NEW index, IndexInv(s, t, index),
           NEW v \in Value, NEW r \in Row, NEW e, e.op.hlc \in Stamps,
           e.op.table = t, e.op.row = r, e.op.type # "delete",
           DOMAIN e.op.cells # {}, \A x \in DOMAIN e.op.cells : e.op.cells[x] = v,
           \A f \in s : f.op.hlc.peer = e.op.hlc.peer => ~Earlier(e.op.hlc, f.op.hlc)
    PROVE  IndexInv(s \cup {e}, t, ReserveIn(index, Claim(v, r, e.op.hlc)))
  <1> DEFINE c == Claim(v, r, e.op.hlc)
  <1>0. /\ c.value = v /\ c.row = r /\ c.owner = e.op.hlc.peer /\ c.hlc = e.op.hlc
        /\ Settled({c})
    BY ClaimSettled DEF Claim
  <1> HIDE DEF c
  <1>1. CASE \E d \in index.claims : SameClaim(d, c)
    <2>1. PICK d \in index.claims : SameClaim(d, c)
      BY <1>1
    <2>2. PICK f \in s : Made(f, t, d)
      BY DEF IndexInv, Reserved
    <2>3. ~Earlier(e.op.hlc, d.hlc)
      BY <1>0, <2>1, <2>2 DEF Made, SameClaim
    <2>4. ReservedBy(e, t, index.claims)
      BY <1>0, <2>1, <2>3 DEF ReservedBy, SameClaim
    <2>5. Reserved(s \cup {e}, t, index.claims)
      BY <2>4 DEF IndexInv, Reserved
    <2> QED BY <1>1, <2>5 DEF IndexInv, ReserveIn, c
  <1>2. CASE \A d \in index.claims : ~SameClaim(d, c)
    <2> DEFINE new == Resolve(index, index.claims \cup {c}, {c.value})
    <2>1. ReserveIn(index, c) = new
      BY <1>2 DEF ReserveIn
    <2>2. Agree(index.claims, {c}) /\ NewTo(index.claims, {c}) = {c}
      BY <1>2 DEF Agree, NewTo, SameClaim
    <2>3. {d.value : d \in {c}} = {c.value}
      OBVIOUS
    <2>4. /\ Settled(new.claims) /\ Logged(new)
          /\ \A a \in index.claims \cup {c} : \E d \in new.claims : Same(d, a)
          /\ \A d \in new.claims : \E a \in index.claims \cup {c} : Same(d, a)
      BY <1>0, <2>2, <2>3, JoinResolves DEF IndexInv
    <2> HIDE DEF new
    <2>5. Reserved({e}, t, {c})
      <3>1. Made(e, t, c)
        BY <1>0 DEF Made
      <3>2. ~Earlier(e.op.hlc, e.op.hlc)
        BY EarlierOrder DEF Stamps
      <3>3. ReservedBy(e, t, {c})
        BY <1>0, <3>2 DEF ReservedBy
      <3> QED BY <3>1, <3>3 DEF Reserved
    <2>6. Reserved(s \cup {e}, t, new.claims)
      BY <2>4, <2>5, ReservedJoin DEF IndexInv
    <2> QED BY <2>1, <2>4, <2>6 DEF IndexInv, c
  <1> QED BY <1>1, <1>2

\* Merging an index that does not contradict.
LEMMA MergeIndexKeeps ==
    ASSUME NEW s, NEW u, NEW t, NEW a, NEW b, IndexInv(s, t, a), IndexInv(u, t, b),
           Agree(a.claims, b.claims)
    PROVE  IndexInv(s \cup u, t, MergeIndex(a, b))
  <1> DEFINE merged == Resolve(a, a.claims \cup NewTo(a.claims, b.claims), {c.value : c \in b.claims})
  <1>1. /\ Settled(merged.claims) /\ Logged(merged)
        /\ \A c \in a.claims \cup b.claims : \E d \in merged.claims : Same(d, c)
        /\ \A d \in merged.claims : \E c \in a.claims \cup b.claims : Same(d, c)
    BY JoinResolves DEF IndexInv
  <1>2. /\ MergeIndex(a, b).claims = merged.claims
        /\ merged.conflicts \subseteq MergeIndex(a, b).conflicts
    BY DEF MergeIndex, NewTo, Resolve
  <1> HIDE DEF merged
  <1>3. Logged(MergeIndex(a, b))
    BY <1>1, <1>2 DEF Logged
  <1>4. Reserved(s \cup u, t, merged.claims)
    <2>1. CASE Claiming
      BY <1>1, <2>1, ReservedJoin DEF IndexInv
    <2>2. CASE ~Claiming
      BY <1>1, <2>2 DEF IndexInv, Reserved
    <2> QED BY <2>1, <2>2
  <1> QED BY <1>1, <1>2, <1>3, <1>4 DEF IndexInv

\* Operations that reserve nothing in a table change nothing there.
LEMMA OtherOpsKeep ==
    ASSUME NEW s, NEW t, NEW index, IndexInv(s, t, index), NEW e,
           Claiming => e.op.table # t \/ e.op.type = "delete"
    PROVE  IndexInv(s \cup {e}, t, index)
  BY DEF IndexInv, Reserved, ReservedBy

LEMMA IssueKeepsElection ==
    ASSUME ReplicaInv, ElectionInv, NEW p \in Peer, NEW w \in Wall, NEW op, IsRowOp(op),
           op.hlc = Stamp(TickClock(clock[p], w), p), Issue(p, TickClock(clock[p], w), op),
           \/ op.type = "delete" /\ UNCHANGED unique
           \/ \E v \in Value :
                /\ op.type # "delete"
                /\ DOMAIN op.cells # {} /\ \A x \in DOMAIN op.cells : op.cells[x] = v
                /\ Reserving(p, op.table, v, op.row, op.hlc)
    PROVE  ElectionInv'
  <1> DEFINE ev == [op |-> op, found |-> store[p][op.table].members[op.row]]
             u == op.table
  <1>1. /\ seen'[p] = seen[p] \cup {ev}
        /\ \A q \in Peer \ {p} : seen'[q] = seen[q]
    BY DEF Issue, ReplicaInv, Shape
  <1>2. ev.op = op
    OBVIOUS
  <1> HIDE DEF ev
  <1>3. /\ unique = [q \in Peer |-> unique[q]]
        /\ \A q \in Peer : unique[q] = [t \in Table |-> unique[q][t]]
        /\ \A q \in Peer, t \in Table : IndexInv(seen[q], t, unique[q][t])
    BY DEF ElectionInv
  <1>4. CASE UNCHANGED unique /\ (Claiming => op.type = "delete")
    <2>1. \A q \in Peer, t \in Table : IndexInv(seen'[q], t, unique[q][t])
      BY <1>1, <1>2, <1>3, <1>4, OtherOpsKeep
    <2> QED BY <1>3, <1>4, <2>1 DEF ElectionInv
  <1>5. ASSUME Claiming, NEW v \in Value, op.type # "delete",
               DOMAIN op.cells # {}, \A x \in DOMAIN op.cells : op.cells[x] = v,
               Reserving(p, u, v, op.row, op.hlc)
        PROVE  ElectionInv'
    <2>1. u \in Table /\ op.row \in Row /\ op.hlc \in Stamps /\ op.hlc.peer = p
      BY DEF IsRowOp, Stamp
    <2> DEFINE new == ReserveIn(unique[p][u], Claim(v, op.row, op.hlc))
    <2>2. unique' = [unique EXCEPT ![p] = [@ EXCEPT ![u] = new]]
      BY <1>3, <1>5, <2>1 DEF Reserving
    <2> HIDE DEF new
    <2>3. /\ unique'[p] = [unique[p] EXCEPT ![u] = new]
          /\ \A q \in Peer \ {p} : unique'[q] = unique[q]
          /\ unique' = [q \in Peer |-> unique'[q]]
      BY <1>3, <2>2
    <2>4. /\ unique'[p] = [t \in Table |-> unique'[p][t]]
          /\ unique'[p][u] = new
          /\ \A t \in Table \ {u} : unique'[p][t] = unique[p][t]
      BY <1>3, <2>1, <2>3
    <2>5. \A f \in seen[p] : f.op.hlc.peer = p => ~Earlier(op.hlc, f.op.hlc)
      <3> SUFFICES ASSUME NEW f \in seen[p], f.op.hlc.peer = p PROVE ~Earlier(op.hlc, f.op.hlc)
        OBVIOUS
      <3>1. f.op.hlc \in Stamps /\ ~Earlier(clock[p], f.op.hlc)
        BY DEF ReplicaInv, Shape, Passed
      <3>2. Before(f.op.hlc, op.hlc)
        BY <3>1, TickPasses, PeerAssumption, WallAssumption DEF ReplicaInv, Shape
      <3> QED BY <2>1, <3>1, <3>2 DEF Before, Earlier, Stamps
    <2>6. IndexInv(seen'[p], u, new)
      <3>1. IndexInv(seen[p], u, unique[p][u])
        BY <1>3, <2>1
      <3>2. /\ ev.op.hlc = op.hlc /\ ev.op.table = u /\ ev.op.row = op.row
            /\ ev.op.type # "delete" /\ ev.op.cells = op.cells
        BY <1>2, <1>5
      <3>3. IndexInv(seen[p] \cup {ev}, u, ReserveIn(unique[p][u], Claim(v, op.row, ev.op.hlc)))
        <4> HIDE DEF u
        <4> QED BY <1>5, <2>1, <2>5, <3>1, <3>2, ReserveKeeps
      <3> QED BY <1>1, <3>2, <3>3 DEF new
    <2>7. \A t \in Table : IndexInv(seen'[p], t, unique'[p][t])
      <3> SUFFICES ASSUME NEW t \in Table PROVE IndexInv(seen'[p], t, unique'[p][t])
        OBVIOUS
      <3>1. CASE t = u
        BY <2>4, <2>6, <3>1
      <3>2. CASE t # u
        <4>1. IndexInv(seen[p], t, unique[p][t]) /\ ev.op.table # t
          BY <1>2, <1>3, <3>2
        <4>2. IndexInv(seen[p] \cup {ev}, t, unique[p][t])
          BY <4>1, OtherOpsKeep
        <4>3. unique'[p][t] = unique[p][t]
          BY <2>4, <3>2
        <4> QED BY <1>1, <4>2, <4>3
      <3> QED BY <3>1, <3>2
    <2>8. \A q \in Peer : /\ unique'[q] = [t \in Table |-> unique'[q][t]]
                          /\ \A t \in Table : IndexInv(seen'[q], t, unique'[q][t])
      <3> SUFFICES ASSUME NEW q \in Peer
                   PROVE  /\ unique'[q] = [t \in Table |-> unique'[q][t]]
                          /\ \A t \in Table : IndexInv(seen'[q], t, unique'[q][t])
        OBVIOUS
      <3>1. CASE q = p
        BY <2>4, <2>7, <3>1
      <3>2. CASE q # p
        <4>1. unique'[q] = unique[q] /\ seen'[q] = seen[q]
          BY <1>1, <2>3, <3>2
        <4> QED BY <1>3, <4>1
      <3> QED BY <3>1, <3>2
    <2> QED BY <2>3, <2>8 DEF ElectionInv
  <1> QED BY <1>4, <1>5 DEF Reserving

LEMMA MergeKeepsElection ==
    ASSUME ReplicaInv, VersionsInv, ElectionInv, NEW p \in Peer, NEW q \in Peer, Merge(p, q)
    PROVE  ElectionInv'
  <1>1. /\ seen'[p] = seen[p] \cup seen[q]
        /\ \A a \in Peer \ {p} : seen'[a] = seen[a]
    BY DEF Merge, ReplicaInv, Shape
  <1>2. /\ unique' = [a \in Peer |-> unique'[a]]
        /\ unique'[p] = [t \in Table |-> MergeIndex(unique[p][t], unique[q][t])]
        /\ \A a \in Peer \ {p} : unique'[a] = unique[a]
    BY DEF Merge, ElectionInv
  <1>3. \A t \in Table : IndexInv(seen'[p], t, unique'[p][t])
    BY <1>1, <1>2, ReplicasAgree, MergeIndexKeeps DEF ElectionInv
  <1>4. unique'[p] = [t \in Table |-> unique'[p][t]]
    BY <1>2
  <1>5. \A a \in Peer : /\ unique'[a] = [t \in Table |-> unique'[a][t]]
                        /\ \A t \in Table : IndexInv(seen'[a], t, unique'[a][t])
    BY <1>1, <1>2, <1>3, <1>4 DEF ElectionInv
  <1> QED BY <1>2, <1>5 DEF ElectionInv

LEMMA InitElectionInv == Init => ElectionInv
  <1> SUFFICES ASSUME Init PROVE ElectionInv
    OBVIOUS
  <1>1. Settled({})
    BY FS_EmptySet DEF Settled, Proper
  <1>2. \A t \in Table : IndexInv({}, t, EmptyIndex)
    BY <1>1 DEF IndexInv, EmptyIndex, Logged, Reserved
  <1>3. /\ unique = [p \in Peer |-> unique[p]]
        /\ \A p \in Peer : unique[p] = [t \in Table |-> EmptyIndex] /\ seen[p] = {}
    BY DEF Init
  <1> QED BY <1>2, <1>3 DEF ElectionInv

LEMMA NextElectionInv ==
    ReplicaInv /\ VersionsInv /\ ElectionInv /\ [Next]_vars => ElectionInv'
  <1> SUFFICES ASSUME ReplicaInv, VersionsInv, ElectionInv, [Next]_vars PROVE ElectionInv'
    OBVIOUS
  <1>0. ASSUME NEW p \in Peer, NEW w \in Wall
        PROVE  Stamp(TickClock(clock[p], w), p) \in Stamps
    BY TickPasses, PeerAssumption, WallAssumption DEF ReplicaInv, Shape
  <1>1. ASSUME NEW p \in Peer, NEW w \in Wall, Insert(p, w) PROVE ElectionInv'
    <2> DEFINE h == Stamp(TickClock(clock[p], w), p)
               op(t, r, v) == [type |-> "insert", table |-> t, row |-> r, hlc |-> h,
                               cells |-> [x \in Columns[t] |-> v]]
    <2>1. PICK t \in Table, r \in Row, v \in Value :
            Issue(p, TickClock(clock[p], w), op(t, r, v)) /\ Reserving(p, t, v, r, h)
      BY <1>1 DEF Insert
    <2>2. /\ IsRowOp(op(t, r, v)) /\ op(t, r, v).hlc = h /\ op(t, r, v).table = t
          /\ op(t, r, v).row = r /\ op(t, r, v).type # "delete"
          /\ DOMAIN op(t, r, v).cells # {}
          /\ \A x \in DOMAIN op(t, r, v).cells : op(t, r, v).cells[x] = v
      BY <1>0, HasColumnsAssumption DEF IsRowOp
    <2> HIDE DEF op
    <2> QED BY <2>1, <2>2, IssueKeepsElection
  <1>2. ASSUME NEW p \in Peer, NEW w \in Wall, Update(p, w) PROVE ElectionInv'
    <2> DEFINE h == Stamp(TickClock(clock[p], w), p)
               op(t, r, x, v) == [type |-> "update", table |-> t, row |-> r, hlc |-> h,
                                  cells |-> [y \in {x} |-> v]]
    <2>0. PICK t \in Table, v \in Value : \E r \in VisibleRows(store[p][t]), x \in Columns[t] :
            Issue(p, TickClock(clock[p], w), op(t, r, x, v)) /\ Reserving(p, t, v, r, h)
      BY <1>2 DEF Update
    <2>1. PICK r \in VisibleRows(store[p][t]), x \in Columns[t] :
            Issue(p, TickClock(clock[p], w), op(t, r, x, v)) /\ Reserving(p, t, v, r, h)
      BY <2>0
    <2>2. /\ IsRowOp(op(t, r, x, v)) /\ op(t, r, x, v).hlc = h /\ op(t, r, x, v).table = t
          /\ op(t, r, x, v).row = r /\ op(t, r, x, v).type # "delete"
          /\ DOMAIN op(t, r, x, v).cells # {}
          /\ \A y \in DOMAIN op(t, r, x, v).cells : op(t, r, x, v).cells[y] = v
      BY <1>0 DEF IsRowOp, VisibleRows
    <2> HIDE DEF op
    <2> QED BY <2>1, <2>2, IssueKeepsElection
  <1>3. ASSUME NEW p \in Peer, NEW w \in Wall, Delete(p, w) PROVE ElectionInv'
    <2> DEFINE h == Stamp(TickClock(clock[p], w), p)
               op(t, r, b) == [type |-> "delete", table |-> t, row |-> r, hlc |-> h,
                               fkTombstone |-> b]
    <2>0. PICK t \in Table, b \in BOOLEAN : \E r \in VisibleRows(store[p][t]) :
            Issue(p, TickClock(clock[p], w), op(t, r, b)) /\ UNCHANGED unique
      BY <1>3 DEF Delete
    <2>1. PICK r \in VisibleRows(store[p][t]) :
            Issue(p, TickClock(clock[p], w), op(t, r, b)) /\ UNCHANGED unique
      BY <2>0
    <2>2. IsRowOp(op(t, r, b)) /\ op(t, r, b).hlc = h /\ op(t, r, b).type = "delete"
      BY <1>0 DEF IsRowOp, VisibleRows
    <2> HIDE DEF op
    <2> QED BY <2>1, <2>2, IssueKeepsElection
  <1>4. ASSUME NEW p \in Peer, NEW q \in Peer, Merge(p, q) PROVE ElectionInv'
    BY <1>4, MergeKeepsElection
  <1>5. CASE UNCHANGED vars
    BY <1>5 DEF vars, ElectionInv, IndexInv, Reserved, ReservedBy
  <1> QED BY <1>1, <1>2, <1>3, <1>4, <1>5 DEF Next

-----------------------------------------------------------------------------
\* Every value some replica has reserved has the largest of the reservations
\* made as its owner there, whenever and through whomever they became known.
THEOREM EveryValueOneOwner == Spec => []OneOwner
  <1>1. ElectionInv => OneOwner
    <2>1. ElectionInv => \A p \in Peer, t \in Table : Settled(unique[p][t].claims)
      BY DEF ElectionInv, IndexInv
    <2>2. ASSUME NEW p \in Peer, NEW t \in Table, Settled(unique[p][t].claims), NEW v
          PROVE  CanonicalOwners(unique[p][t], v) =
                    {c.row : c \in {d \in ClaimsOf(unique[p][t].claims, v) :
                        \A x \in ClaimsOf(unique[p][t].claims, v) : ~ClaimBeats(x, d)}}
      BY <2>2, OwnerUnbeaten
    <2> QED BY <2>1, <2>2 DEF OneOwner
  <1> QED
    BY <1>1, InitReplicaInv, NextReplicaInv, InitVersionsInv, NextVersionsInv,
       InitElectionInv, NextElectionInv, PTL DEF Spec

\* Every loser's conflict with the present owner of the value is in the log of
\* every replica that knows both.
THEOREM NoLoserDropped == Spec => []LosersLogged
  <1>1. ElectionInv => LosersLogged
    <2> SUFFICES ASSUME ElectionInv, NEW p \in Peer, NEW t \in Table,
                        NEW c \in unique[p][t].claims, c.state = "lost"
                 PROVE  \E k \in unique[p][t].conflicts :
                            k.loser = c.row /\ {k.winner} = CanonicalOwners(unique[p][t], c.value)
      BY DEF LosersLogged
    <2>1. IndexInv(seen[p], t, unique[p][t])
      BY DEF ElectionInv
    <2>2. PICK k \in unique[p][t].conflicts, d \in ClaimsOf(unique[p][t].claims, c.value) :
            k.loser = c.row /\ k.winner = d.row /\ d.state # "lost"
      BY <2>1 DEF IndexInv, Logged
    <2>3. d \in unique[p][t].claims /\ d.value = c.value
      BY DEF ClaimsOf
    <2> QED BY <2>1, <2>2, <2>3, OneOwnerRow DEF IndexInv
  <1> QED
    BY <1>1, InitReplicaInv, NextReplicaInv, InitVersionsInv, NextVersionsInv,
       InitElectionInv, NextElectionInv, PTL DEF Spec

\* Replicas that contain the same operations hold the same reservations, in the
\* same states.
THEOREM SameReservations == Spec => []ClaimsConverge
  <1>1. ReplicaInv /\ VersionsInv /\ ElectionInv => ClaimsConverge
    <2> SUFFICES ASSUME ReplicaInv, VersionsInv, ElectionInv, NEW p \in Peer, NEW q \in Peer,
                        seen[p] = seen[q], NEW t \in Table
                 PROVE  unique[p][t].claims = unique[q][t].claims
      BY DEF ClaimsConverge
    <2>1. IndexInv(seen[p], t, unique[p][t]) /\ IndexInv(seen[q], t, unique[q][t])
      BY DEF ElectionInv
    <2>2. ASSUME NEW S, NEW T, Reserved(seen[p], t, S), Reserved(seen[p], t, T), Agree(S, T),
                 NEW c \in S
          PROVE  \E d \in T : Same(c, d)
      <3>1. PICK e \in seen[p] : Made(e, t, c)
        BY <2>2 DEF Reserved
      <3>2. ReservedBy(e, t, T)
        BY <2>2 DEF Reserved
      <3>3. \E d \in T : SameClaim(c, d)
        BY <3>1, <3>2 DEF Made, ReservedBy, SameClaim
      <3> QED BY <2>2, <3>3 DEF Agree
    <2>3. /\ Agree(unique[p][t].claims, unique[q][t].claims)
          /\ Agree(unique[q][t].claims, unique[p][t].claims)
      BY ReplicasAgree
    <2>4. /\ \A c \in unique[p][t].claims : \E d \in unique[q][t].claims : Same(c, d)
          /\ \A d \in unique[q][t].claims : \E c \in unique[p][t].claims : Same(d, c)
      BY <2>1, <2>2, <2>3 DEF IndexInv
    <2>5. \A d \in unique[q][t].claims : \E c \in unique[p][t].claims : Same(c, d)
      BY <2>4 DEF Same, SameClaim
    <2> QED BY <2>1, <2>4, <2>5, SettledAgree DEF IndexInv
  <1> QED
    BY <1>1, InitReplicaInv, NextReplicaInv, InitVersionsInv, NextVersionsInv,
       InitElectionInv, NextElectionInv, PTL DEF Spec
=============================================================================
