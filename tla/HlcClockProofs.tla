--------------------------- MODULE HlcClockProofs ---------------------------
(***************************************************************************)
(* The hybrid logical clocks preserve causality and never produce the same *)
(* timestamp twice, for every set of peers and every sequence of readings  *)
(* of the physical clocks, as long as the u32 counter does not wrap.       *)
(***************************************************************************)
EXTENDS HlcClock, TLAPS

-----------------------------------------------------------------------------
(* The order on timestamps.                                                *)

\* No timestamp is smaller than itself.
LEMMA BeforeIrreflexive ==
    ASSUME NEW s \in Stamps
    PROVE  ~Before(s, s)
  <1>1. s.wall \in Nat /\ s.logical \in Nat /\ s.peer \in Nat
    BY PeerAssumption DEF Stamps
  <1>2. QED
    BY <1>1 DEF Before, Earlier

\* tick returns a clock value, strictly later than the clock it read.
LEMMA TickAdvances ==
    ASSUME NEW c \in Clocks, NEW w \in Wall
    PROVE  /\ TickClock(c, w) \in Clocks
           /\ Earlier(c, TickClock(c, w))
  BY WallAssumption DEF Clocks, TickClock, Earlier

\* observe returns a clock value strictly later than both the clock it read
\* and the observed timestamp, whatever the wall clock says.
LEMMA ObserveAdvances ==
    ASSUME NEW c \in Clocks, NEW t \in Stamps, NEW w \in Wall
    PROVE  /\ ObserveClock(c, t, w) \in Clocks
           /\ Earlier(c, ObserveClock(c, t, w))
           /\ Earlier(t, ObserveClock(c, t, w))
  <1> DEFINE m == Larger(w, Larger(c.wall, t.wall))
  <1>1. /\ c.wall \in Nat /\ c.logical \in Nat
        /\ t.wall \in Nat /\ t.logical \in Nat /\ w \in Nat
    BY WallAssumption DEF Clocks, Stamps
  <1>2. m \in Nat /\ m >= w /\ m >= c.wall /\ m >= t.wall
    BY <1>1 DEF Larger
  <1>3. ObserveClock(c, t, w).wall = m
    BY DEF ObserveClock
  <1>4. CASE m = c.wall /\ m = t.wall
    BY <1>1, <1>2, <1>4 DEF ObserveClock, Clocks, Earlier, Larger
  <1>5. CASE m = c.wall /\ m # t.wall
    BY <1>1, <1>2, <1>5 DEF ObserveClock, Clocks, Earlier
  <1>6. CASE m # c.wall /\ m = t.wall
    BY <1>1, <1>2, <1>6 DEF ObserveClock, Clocks, Earlier
  <1>7. CASE m # c.wall /\ m # t.wall
    BY <1>1, <1>2, <1>7 DEF ObserveClock, Clocks, Earlier
  <1>8. QED
    BY <1>4, <1>5, <1>6, <1>7

-----------------------------------------------------------------------------
(* One step of a peer.                                                     *)

\* An event whose clock value lies strictly beyond the clock and beyond
\* everything it receives preserves the invariant.
LEMMA EventPreserves ==
    ASSUME ClockInv,
           NEW p \in Peer, NEW c \in Clocks, NEW seen \in SUBSET Produced,
           Earlier(clock[p], c),
           \A t \in seen : Earlier(t, c),
           Event(p, c, seen)
    PROVE  /\ ClockInv'
           /\ Stamp(c, p) \notin Produced
  <1> DEFINE s == Stamp(c, p)
             past == known[p] \cup seen
  <1>1. s \in Stamps /\ s.peer = p
    BY DEF Stamp, Stamps, Clocks
  <1>2. past \subseteq Produced /\ Produced \subseteq Stamps
    BY DEF Produced, ClockInv, TypeOK
  <1>3. \A t \in known[p] : Earlier(t, c)
    <2> SUFFICES ASSUME NEW t \in known[p] PROVE Earlier(t, c)
      OBVIOUS
    <2>1. ~Earlier(clock[p], t)
      BY DEF ClockInv, ClockDominates
    <2>2. t \in Stamps /\ clock[p] \in Clocks
      BY DEF ClockInv, TypeOK
    <2>3. QED
      BY <2>1, <2>2 DEF Earlier, Stamps, Clocks
  <1>4. \A t \in past : Before(t, s)
    BY <1>3 DEF Before, Earlier, Stamp
  <1>5. s \notin Produced
    <2> SUFFICES ASSUME s \in Produced PROVE FALSE
      OBVIOUS
    <2>1. PICK q \in Peer : s \in known[q]
      BY DEF Produced
    <2>2. s \in known[p]
      BY <2>1, <1>1 DEF ClockInv, OwnKnown
    <2>3. QED
      BY <2>2, <1>4, <1>1, BeforeIrreflexive
  <1>6. /\ clock' = [clock EXCEPT ![p] = c]
        /\ known' = [known EXCEPT ![p] = past \cup {s}]
        /\ before' = before \cup (past \X {s})
    BY DEF Event
  <1>7. TypeOK'
    BY <1>1, <1>2, <1>6 DEF ClockInv, TypeOK
  <1>8. /\ known'[p] = past \cup {s}
        /\ \A q \in Peer : q # p => known'[q] = known[q]
        /\ clock'[p] = c
        /\ \A q \in Peer : q # p => clock'[q] = clock[q]
    BY <1>6 DEF ClockInv, TypeOK
  <1>9. Causality'
    BY <1>4, <1>6 DEF ClockInv, Causality
  <1>10. ClockDominates'
    <2> SUFFICES ASSUME NEW q \in Peer, NEW t \in known'[q]
                 PROVE  ~Earlier(clock'[q], t)
      BY DEF ClockDominates
    <2>1. CASE q # p
      BY <2>1, <1>8 DEF ClockInv, ClockDominates
    <2>2. CASE q = p /\ t = s
      BY <2>2, <1>8 DEF Earlier, Stamp, Clocks
    <2>3. CASE q = p /\ t \in past
      <3>1. Earlier(t, c) /\ t \in Stamps
        BY <2>3, <1>2, <1>3
      <3>2. ~Earlier(c, t)
        BY <3>1 DEF Earlier, Stamps, Clocks
      <3>3. QED
        BY <3>2, <2>3, <1>8
    <2>4. QED
      BY <2>1, <2>2, <2>3, <1>8
  <1>11. OwnKnown'
    <2> SUFFICES ASSUME NEW q \in Peer, NEW t \in known'[q]
                 PROVE  t.peer \in Peer /\ t \in known'[t.peer]
      BY DEF OwnKnown
    <2>1. CASE t = s
      BY <2>1, <1>1, <1>8
    <2>2. CASE t # s
      <3>1. t \in Produced
        BY <2>2, <1>2, <1>8 DEF Produced
      <3>2. t.peer \in Peer /\ t \in known[t.peer]
        BY <3>1 DEF Produced, ClockInv, OwnKnown
      <3>3. QED
        BY <3>2, <1>8
    <2>3. QED
      BY <2>1, <2>2
  <1>12. PastProduced'
    <2>1. Produced \subseteq Produced' /\ s \in Produced'
      BY <1>8 DEF Produced
    <2>2. QED
      BY <2>1, <1>2, <1>6 DEF ClockInv, PastProduced
  <1>13. QED
    BY <1>5, <1>7, <1>9, <1>10, <1>11, <1>12 DEF ClockInv

\* Every step is such an event, so it preserves the invariant, and the
\* timestamp it produces is new.
LEMMA StepPreserves ==
    ASSUME ClockInv, NEW p \in Peer, NEW w \in Wall,
           Tick(p, w) \/ \E t \in Produced : Observe(p, t, w)
    PROVE  /\ ClockInv'
           /\ \A q \in Peer :
                clock'[q] # clock[q] => Stamp(clock'[q], q) \notin Produced
  <1>1. clock[p] \in Clocks /\ clock \in [Peer -> Clocks]
    BY DEF ClockInv, TypeOK
  <1>2. Produced \subseteq Stamps
    BY DEF Produced, ClockInv, TypeOK
  <1>3. CASE Tick(p, w)
    <2> DEFINE c == TickClock(clock[p], w)
    <2>1. c \in Clocks /\ Earlier(clock[p], c)
      BY <1>1, TickAdvances
    <2>2. Event(p, c, {})
      BY <1>3 DEF Tick
    <2> HIDE DEF c
    <2>3. ClockInv' /\ Stamp(c, p) \notin Produced
      BY <2>1, <2>2, EventPreserves
    <2>4. clock' = [clock EXCEPT ![p] = c]
      BY <2>2 DEF Event
    <2>5. QED
      BY <2>3, <2>4, <1>1
  <1>4. ASSUME NEW t \in Produced, Observe(p, t, w)
        PROVE  /\ ClockInv'
               /\ \A q \in Peer :
                    clock'[q] # clock[q] => Stamp(clock'[q], q) \notin Produced
    <2> DEFINE c == ObserveClock(clock[p], t, w)
               seen == {t} \cup Past(t)
    <2>1. /\ c \in Clocks
          /\ Earlier(clock[p], c)
          /\ Earlier(t, c)
      BY <1>1, <1>2, ObserveAdvances
    <2>2. Event(p, c, seen)
      BY <1>4 DEF Observe
    <2>3. seen \subseteq Produced
      BY DEF Past, ClockInv, PastProduced
    <2>4. \A u \in seen : Earlier(u, c)
      <3> SUFFICES ASSUME NEW u \in seen, u # t PROVE Earlier(u, c)
        BY <2>1
      <3>1. Before(u, t)
        BY DEF Past, ClockInv, Causality
      <3>2. u \in Stamps /\ t \in Stamps
        BY <2>3, <1>2
      <3> HIDE DEF c
      <3>3. QED
        BY <2>1, <3>1, <3>2 DEF Before, Earlier, Stamps, Clocks
    <2> HIDE DEF c, seen
    <2>5. ClockInv' /\ Stamp(c, p) \notin Produced
      BY <2>1, <2>2, <2>3, <2>4, EventPreserves
    <2>6. clock' = [clock EXCEPT ![p] = c]
      BY <2>2 DEF Event
    <2>7. QED
      BY <2>5, <2>6, <1>1
  <1>5. QED
    BY <1>3, <1>4

-----------------------------------------------------------------------------
(* The theorems.                                                           *)

\* ClockInv is an inductive invariant of the clocks.
THEOREM ClockInvariant == Spec => []ClockInv
  <1>1. Init => ClockInv
    BY DEF Init, ClockInv, TypeOK, Causality, ClockDominates, OwnKnown,
           PastProduced, Clocks
  <1>2. ClockInv /\ [Next]_vars => ClockInv'
    <2> SUFFICES ASSUME ClockInv, [Next]_vars PROVE ClockInv'
      OBVIOUS
    <2>1. CASE Next
      BY <2>1, StepPreserves DEF Next
    <2>2. CASE UNCHANGED vars
      BY <2>2 DEF vars, ClockInv, TypeOK, Causality, ClockDominates, OwnKnown,
                  PastProduced, Produced
    <2>3. QED
      BY <2>1, <2>2
  <1>3. QED
    BY <1>1, <1>2, PTL DEF Spec

\* If A happened before B then hlc(A) < hlc(B): the promise of clocks.rs for
\* events that go through tick and observe.
THEOREM ClocksPreserveCausality == Spec => []Causality
  <1>1. ClockInv => Causality
    BY DEF ClockInv
  <1>2. QED
    BY <1>1, ClockInvariant, PTL

\* Timestamps are globally unique: no step produces one that exists already.
THEOREM StampsAreFresh == Spec => FreshStamps
  <1>1. ASSUME ClockInv, [Next]_vars
        PROVE  [\A p \in Peer :
                  clock'[p] # clock[p] => Stamp(clock'[p], p) \notin Produced]_vars
    <2>1. CASE Next
      BY <2>1, <1>1, StepPreserves DEF Next
    <2>2. CASE UNCHANGED vars
      BY <2>2
    <2>3. QED
      BY <1>1, <2>1, <2>2
  <1>2. QED
    BY <1>1, ClockInvariant, PTL DEF Spec, FreshStamps
=============================================================================
