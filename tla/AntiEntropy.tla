---------------------------- MODULE AntiEntropy ----------------------------
(***************************************************************************)
(* Replication of the operation logs between peers                         *)
(* (src/src/sync/anti_entropy.rs, storage/op_log.rs, api/engine.rs).       *)
(*                                                                         *)
(* A statement produces operations in groups: all operations planned for   *)
(* one row carry one timestamp.  A synchronisation identifies operations   *)
(* by that timestamp alone, its "fingerprint".  Whether it loses anything  *)
(* therefore depends on groups never being split.                          *)
(*                                                                         *)
(* A log is abstracted to the set of its operations: Engine.tla keeps the  *)
(* sequence and implements this module.                                    *)
(***************************************************************************)
EXTENDS Hlc

CONSTANTS
    Peer,       \* ranks of the peer identifiers
    Wall,       \* wall_ms values
    Logical,    \* logical counter values
    Body,       \* what an operation says, apart from its timestamp
    Link        \* pairs of peers that keep synchronising (liveness only)

ASSUME PeerIsNat == Peer \subseteq Nat
ASSUME TimeIsNat == Wall \subseteq Nat /\ Logical \subseteq Nat
ASSUME ZeroIsTime == 0 \in Wall /\ 0 \in Logical

VARIABLES
    clock,  \* Engine.clock of each peer
    log     \* Engine.log of each peer, as a set of operations

vars == <<clock, log>>

Clocks == [wall : Wall, logical : Logical]
Op == [hlc : [wall : Wall, logical : Logical, peer : Peer], body : Body]

TypeOK ==
    /\ clock \in [Peer -> Clocks]
    /\ log \in [Peer -> SUBSET Op]

Init ==
    /\ clock = [p \in Peer |-> [wall |-> 0, logical |-> 0]]
    /\ log = [p \in Peer |-> {}]

-----------------------------------------------------------------------------
\* Operation o may be logged by p while its clock moves from clock[p] to c:
\* tick only returns timestamps beyond the clock, and observe of each planned
\* operation leaves the clock at or beyond it.
LoggableStuck(p, c, o) ==
    /\ o.hlc.peer = p
    /\ ~Earlier(o.hlc, clock[p])
    /\ ~Earlier(c, o.hlc)

Loggable(p, c, o) ==
    /\ o.hlc.peer = p
    /\ Earlier(clock[p], o.hlc)
    /\ ~Earlier(c, o.hlc)

\* Engine::execute_with_params: plan and apply a statement.  A statement that
\* matches no row, or fails validation, logs nothing.
Statement(p, c, new) ==
    /\ Earlier(clock[p], c)
    /\ \A o \in new : Loggable(p, c, o)
    /\ clock' = [clock EXCEPT ![p] = c]
    /\ log' = [log EXCEPT ![p] = @ \cup new]

Execute(p) ==
    \E c \in Clocks : \E new \in SUBSET {o \in Op : Loggable(p, c, o)} :
        Statement(p, c, new)

Fingerprints(ops) == {o.hlc : o \in ops}

\* A cursor instead of a set: only what is newer than all the other has.
MissingAfterNewest(src, dst) ==
    {o \in src : \A u \in dst : Before(u.hlc, o.hlc)}

\* What sync_peers and sync_from send from a log src to a log dst.
Missing(src, dst) == {o \in src : o.hlc \notin Fingerprints(dst)}

\* Engine::sync_with: both directions, computed before either is applied.
\* The clocks are not touched.
Sync(p, q) ==
    /\ log' = [log EXCEPT ![p] = @ \cup Missing(log[q], log[p]),
                          ![q] = @ \cup Missing(log[p], log[q])]
    /\ UNCHANGED clock

\* Engine::sync_from: one direction.
SyncFrom(p, q) ==
    /\ log' = [log EXCEPT ![p] = @ \cup Missing(log[q], log[p])]
    /\ UNCHANGED clock

Next ==
    \/ \E p \in Peer : Execute(p)
    \/ \E p, q \in Peer : p # q /\ (Sync(p, q) \/ SyncFrom(p, q))

Spec == Init /\ [][Next]_vars

\* Synchronisation is started from outside (the dashboard's sync buttons, the
\* rounds of the test harness): the pairs in Link keep being synchronised.
FairSync == \A l \in Link : WF_vars(Sync(l[1], l[2]))
FairSpec == Spec /\ FairSync

-----------------------------------------------------------------------------
\* A peer's clock has reached every timestamp under its own name.
Floor ==
    \A p \in Peer : \A o \in log[p] :
        o.hlc.peer = p => ~Earlier(clock[p], o.hlc)

\* Every operation in some log is in the log of the peer that produced it.
Origin ==
    \A p \in Peer : \A o \in log[p] :
        o.hlc.peer \in Peer /\ o \in log[o.hlc.peer]

\* A peer that has one operation of a group has the whole group: the row
\* write never travels without its uniqueness reservations.
GroupsWhole ==
    \A p, q \in Peer : \A a \in log[p], b \in log[q] :
        a.hlc = b.hlc => b \in log[p]

\* The inductive invariant behind the refinement.
LogInv == TypeOK /\ Floor /\ Origin /\ GroupsWhole

\* Comparing fingerprints instead of operations loses nothing: the logs are a
\* replicated set (anti_entropy.rs, doc of sync_peers).
Abstract == INSTANCE ReplicatedSet WITH ops <- log
ImplementsReplicatedSet == Abstract!Spec

\* An operation logged by the peer that produced it reaches every other peer,
\* through intermediaries where two peers never meet (anti_entropy.rs, doc of
\* sync_peers: "fully relayed even through intermediaries").
Delivery ==
    \A o \in Op : \A q \in Peer \ {o.hlc.peer} :
        o \in log[o.hlc.peer] ~> o \in log[q]
=============================================================================
