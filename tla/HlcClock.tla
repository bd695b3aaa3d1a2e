------------------------------ MODULE HlcClock ------------------------------
(***************************************************************************)
(* The hybrid logical clocks of a set of peers (src/src/crdt/clocks.rs).   *)
(*                                                                         *)
(* Tick is a local event, Observe the receipt of some timestamp that a     *)
(* peer produced earlier.  Every reading of the physical clock is an       *)
(* arbitrary element of Wall: peers are skewed, and a reading may be       *)
(* smaller than the previous one on the same peer.  Timestamps are carried *)
(* by messages that may be lost, duplicated and reordered: any timestamp   *)
(* ever produced may be observed by any peer, any number of times.         *)
(*                                                                         *)
(* The history variables known and before record which timestamps a peer   *)
(* has seen and the happened-before relation between timestamps.           *)
(***************************************************************************)
EXTENDS Hlc

CONSTANTS
    Peer,           \* ranks of the peer identifiers
    Wall,           \* possible readings of the physical clock, in ms
    LogicalRange    \* 2^32 in the code: the logical counter is a u32

ASSUME PeerAssumption == Peer \subseteq Nat
ASSUME WallAssumption == Wall \subseteq Nat
ASSUME LogicalAssumption == LogicalRange \in Nat

VARIABLES
    clock,      \* HlcClock: max_wall_ms and max_logical of each peer
    known,      \* timestamps in the causal past of each peer
    before      \* happened-before: pairs of timestamps

vars == <<clock, known, before>>

Clocks == [wall : Nat, logical : Nat]
Stamps == [wall : Nat, logical : Nat, peer : Peer]

TypeOK ==
    /\ clock \in [Peer -> Clocks]
    /\ known \in [Peer -> SUBSET Stamps]
    /\ before \subseteq Stamps \X Stamps

Produced == UNION {known[p] : p \in Peer}
Past(t) == {e[1] : e \in {f \in before : f[2] = t}}

Init ==
    /\ clock = [p \in Peer |-> [wall |-> 0, logical |-> 0]]
    /\ known = [p \in Peer |-> {}]
    /\ before = {}

\* Bound LogicalRange: a step that would wrap the u32 counter is not taken.
InRange(c) == c.logical < LogicalRange

\* The event at p whose timestamp is the new value of p's clock, when the
\* timestamps in seen reach p with it.
Event(p, c, seen) ==
    LET past == known[p] \cup seen
    IN  /\ InRange(c)
        /\ clock' = [clock EXCEPT ![p] = c]
        /\ known' = [known EXCEPT ![p] = past \cup {Stamp(c, p)}]
        /\ before' = before \cup (past \X {Stamp(c, p)})

Tick(p, w) == Event(p, TickClock(clock[p], w), {})

Observe(p, t, w) == Event(p, ObserveClock(clock[p], t, w), {t} \cup Past(t))

Next ==
    \E p \in Peer, w \in Wall :
        \/ Tick(p, w)
        \/ \E t \in Produced : Observe(p, t, w)

Spec == Init /\ [][Next]_vars

-----------------------------------------------------------------------------
\* Timestamps preserve causality: if one event happened before another, its
\* timestamp is smaller (clocks.rs, module comment, and the doc of observe).
Causality == \A e \in before : Before(e[1], e[2])

\* A timestamp is never produced twice, by any peer, even when the physical
\* clock stands still or steps backwards (clocks.rs: "globally unique").
FreshStamps ==
    [][\A p \in Peer :
          clock'[p] # clock[p] => Stamp(clock'[p], p) \notin Produced]_vars

\* The clock of a peer has reached every timestamp in its causal past.
ClockDominates ==
    \A p \in Peer : \A t \in known[p] : ~Earlier(clock[p], t)

\* What a peer produced itself stays in its causal past, and only the peer
\* named in a timestamp produces it.
OwnKnown ==
    \A p \in Peer : \A t \in known[p] : t.peer \in Peer /\ t \in known[t.peer]

\* The past recorded by happened-before consists of produced timestamps.
PastProduced ==
    \A e \in before : e[1] \in Produced /\ e[2] \in Produced

\* The inductive invariant behind Causality and FreshStamps.
ClockInv ==
    /\ TypeOK
    /\ Causality
    /\ ClockDominates
    /\ OwnKnown
    /\ PastProduced
=============================================================================
