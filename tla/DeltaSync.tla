----------------------------- MODULE DeltaSync -----------------------------
(***************************************************************************)
(* Cursor-based anti-entropy (src/src/sync/anti_entropy.rs) over logs with *)
(* sequence numbers (storage/op_log.rs), and the acknowledgements that     *)
(* decide what may be collected (storage/compaction.rs).                   *)
(*                                                                         *)
(* The crate offers the steps; who asks for a delta, carries it and keeps  *)
(* the cursors is up to the caller, as the module comment of               *)
(* anti_entropy.rs lays out.  Deltas travel over a network that delays,    *)
(* reorders, repeats and loses them.                                       *)
(***************************************************************************)
EXTENDS OpLog

CONSTANTS
    Peer,           \* ranks of the peer identifiers
    Link,           \* <<source, receiver>> pairs that use deltas
    BucketSize,     \* operations per bucket of a digest
    MaxStatements   \* bound on the statements executed

ASSUME DeltaPeerAssumption == Peer \subseteq Nat
ASSUME LinkAssumption == \A l \in Link : l[1] \in Peer /\ l[2] \in Peer \ {l[1]}
ASSUME BucketAssumption == BucketSize \in Nat \ {0}

VARIABLES
    executed,   \* statements executed so far
    clock,      \* HlcClock of each peer
    log,        \* OpLog of each peer; the entry at i has sequence number i - 1
    cursor,     \* cursor[p][q]: max_seq_for(q) in the SyncCursor of p
    acks,       \* acks[p][q]: what q acknowledged to the GcTracker of p
    deltas      \* the deltas ever sent

vars == <<executed, clock, log, cursor, acks, deltas>>

\* No entry in peer_acks.
NoAck == -1

Init ==
    /\ executed = 0
    /\ clock = [p \in Peer |-> [wall |-> 0, logical |-> 0]]
    /\ log = [p \in Peer |-> <<>>]
    /\ cursor = [p \in Peer |-> [q \in Peer |-> 0]]
    /\ acks = [p \in Peer |-> [q \in Peer |-> NoAck]]
    /\ deltas = {}

-----------------------------------------------------------------------------
\* OpLog::max_seq.
MaxSeq(l) == IF l = <<>> THEN 0 ELSE Len(l) - 1

SinceNext(l, s) == SubSeq(l, s + 3, Len(l))

\* OpLog::since: the entries with a sequence number beyond s.
Since(l, s) == SubSeq(l, s + 2, Len(l))

OwnSeqs(p, l) == {i - 1 : i \in {j \in DOMAIN l : l[j].hlc.peer = p}}

\* SyncCursor::observe and GcTracker::ack on an existing entry.
Advance(old, s) == Larger(old, s)

\* The operations p made that the log l has beyond sequence number s.
OwnSince(p, l, s) ==
    LET new == Since(l, s)
    IN  Picked(new, {i \in DOMAIN new : new[i].hlc.peer = p})

\* The cursor s after observing the last entry of p's own in log l.
Covering(p, l, s) ==
    LET own == OwnSeqs(p, l)
    IN  IF own = {} THEN s ELSE Advance(s, Max(own))

DeltaOneByOne(p, l, s) ==
    LET own == OwnSince(p, l, s)
    IN  [ops  |-> IF own = <<>> THEN <<>> ELSE <<Head(own)>>, upto |-> Covering(p, l, s)]

\* compute_delta: the operations p made that the cursor s does not cover, and
\* the cursor that covers them.
ComputeDelta(p, l, s) == [ops |-> OwnSince(p, l, s), upto |-> Covering(p, l, s)]

-----------------------------------------------------------------------------
\* What a statement logs for one row: the write alone, or with a reservation.
Groups == {<<"write">>, <<"write", "reserve">>}

\* A statement at p.  Bound: the physical clock stands still.
Execute(p) ==
    \E bodies \in Groups :
        LET c == TickClock(clock[p], 0)
            h == Stamp(c, p)
        IN  /\ executed < MaxStatements
            /\ executed' = executed + 1
            /\ log' = [log EXCEPT ![p] =
                        AppendAll(@, [i \in DOMAIN bodies |-> [hlc |-> h, body |-> bodies[i]]])]
            /\ clock' = [clock EXCEPT ![p] =
                            FoldLeft(LAMBDA x, b : ObserveClock(x, h, 0), c, bodies)]
            /\ UNCHANGED <<cursor, acks, deltas>>

\* p answers the cursor of q with a delta.
SendDelta(p, q) ==
    LET d == ComputeDelta(p, log[p], cursor[q][p])
        m == [from |-> p, to |-> q, ops |-> d.ops, upto |-> d.upto]
    IN  /\ d.ops # <<>> /\ m \notin deltas
        /\ deltas' = deltas \cup {m}
        /\ UNCHANGED <<executed, clock, log, cursor, acks>>

\* A delta arrives, for the first time or again: apply_delta, then the
\* receiver observes the new cursor.
Deliver(m) ==
    /\ log' = [log EXCEPT ![m.to] = AppendAll(@, m.ops)]
    /\ cursor' = [cursor EXCEPT ![m.to][m.from] = Advance(@, m.upto)]
    /\ UNCHANGED <<executed, clock, acks, deltas>>

\* sync_peers: an exchange by timestamps, which advances the cursors too.
SyncPeers(p, q) ==
    /\ log' = [log EXCEPT ![p] = AppendAll(@, MissingOps(log[q], log[p])),
                          ![q] = AppendAll(@, MissingOps(log[p], log[q]))]
    /\ cursor' = [cursor EXCEPT ![q][p] = Advance(@, MaxSeq(log'[p])),
                                ![p][q] = Advance(@, MaxSeq(log'[q]))]
    /\ UNCHANGED <<executed, clock, acks, deltas>>

\* q tells p how far its cursor is: GcTracker::ack.
Ack(p, q) ==
    /\ acks' = [acks EXCEPT ![p][q] = Advance(@, cursor[q][p])]
    /\ UNCHANGED <<executed, clock, log, cursor, deltas>>

Next ==
    \/ \E p \in Peer : Execute(p)
    \/ \E l \in Link : SendDelta(l[1], l[2]) \/ Ack(l[1], l[2])
    \/ \E p, q \in Peer : p # q /\ SyncPeers(p, q)
    \/ \E m \in deltas : Deliver(m)

\* A delta that tells q something new gets through.
Progress(p, q) ==
    \E m \in deltas :
        m.from = p /\ m.to = q /\ m.upto > cursor[q][p] /\ Deliver(m)

\* Peers keep asking, and of the deltas sent from p to q not all are lost.
FairDeltas ==
    \A l \in Link : WF_vars(SendDelta(l[1], l[2])) /\ WF_vars(Progress(l[1], l[2]))

Spec == Init /\ [][Next]_vars /\ FairDeltas

-----------------------------------------------------------------------------
(* Garbage collection and digests.                                         *)

SafeSeqOfMax(p) ==
    LET acked == {acks[p][q] : q \in {x \in Peer \ {p} : acks[p][x] # NoAck}}
    IN  FoldSet(Larger, 0, acked)

\* GcTracker::safe_seq, where all other peers are known.  A known peer that
\* has not acknowledged anything is left out of the minimum.
SafeSeq(p) ==
    LET acked == {acks[p][q] : q \in {x \in Peer \ {p} : acks[p][x] # NoAck}}
    IN  IF acked = {} THEN 0 ELSE CHOOSE s \in acked : \A u \in acked : s <= u

BucketOf(s) == s \div BucketSize

\* MerkleDigest::build: the hash of a bucket stands for its operations.
Digest(l) ==
    [b \in {BucketOf(i - 1) : i \in DOMAIN l} |->
        {<<i, l[i]>> : i \in {j \in DOMAIN l : BucketOf(j - 1) = b}}]

DiffCommonBuckets(d, e) == {b \in DOMAIN d : b \in DOMAIN e /\ d[b] # e[b]}

\* MerkleDigest::diff_buckets.
DiffBuckets(d, e) ==
    {b \in DOMAIN d \cup DOMAIN e : ~(b \in DOMAIN d /\ b \in DOMAIN e /\ d[b] = e[b])}

-----------------------------------------------------------------------------
(* Properties.                                                             *)

Has(p, o) == Contains(log[p], o)

\* Whatever is lost, repeated or reordered, and however deltas and exchanges
\* mix, a cursor covers only operations that were received, the entry with
\* sequence number zero excepted: a cursor that has seen nothing and one that
\* has seen entry zero are the same number (anti_entropy.rs, SyncCursor: "max
\* seq received from that peer").
CursorHonest ==
    \A p \in Peer : \A q \in Peer \ {p} :
        \A s \in OwnSeqs(p, log[p]) \ {0} :
            s <= cursor[q][p] => Has(q, log[p][s + 1])

\* A row write and its reservation are apart at some peer only if the one it
\* lacks is entry zero of its origin's log.  The exchange by timestamps never
\* closes that gap: it takes the group for received.
GroupsSplitAtZero ==
    \A p, q \in Peer : \A i \in DOMAIN log[p], j \in DOMAIN log[q] :
        LET o == log[q][j]
        IN  log[p][i].hlc = o.hlc => Has(p, o) \/ o = log[o.hlc.peer][1]

\* What a peer may collect was received by everyone who has acknowledged
\* anything, if the peer made it itself and it is not entry zero
\* (compaction.rs: "all known peers have observed the ops to be GC'd").  Peers
\* that never acknowledged are not waited for, and operations of others are
\* not covered by a cursor moved by deltas.
SafeToCollect ==
    \A p \in Peer : \A q \in Peer \ {p} :
        acks[p][q] # NoAck =>
            \A s \in OwnSeqs(p, log[p]) \ {0} :
                s <= SafeSeq(p) => Has(q, log[p][s + 1])

\* An operation one of two peers lacks lies in a bucket their digests report.
DiffCoversMissing ==
    \A p, q \in Peer : \A i \in DOMAIN log[p] :
        ~Has(q, log[p][i]) =>
            /\ BucketOf(i - 1) \in DiffBuckets(Digest(log[p]), Digest(log[q]))
            /\ BucketOf(i - 1) \in DiffBuckets(Digest(log[q]), Digest(log[p]))

\* As long as deltas keep being asked for and not all are lost, the receiver
\* catches up with every entry of the sender's own but entry zero, by deltas
\* alone (anti_entropy.rs: "Cursor-based resumption allows retrying").
DeltasDeliver ==
    \A l \in Link :
        []<>(\A s \in OwnSeqs(l[1], log[l[1]]) \ {0} : Has(l[2], log[l[1]][s + 1]))
=============================================================================
