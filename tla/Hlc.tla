-------------------------------- MODULE Hlc --------------------------------
(***************************************************************************)
(* Hybrid logical timestamps (src/src/crdt/clocks.rs).                     *)
(*                                                                         *)
(* A timestamp is (wall_ms, logical, peer_id).  Peer identifiers are       *)
(* strings that the code only compares, so they are represented by their   *)
(* rank: a natural number.  The clock of a peer is the pair of atomics     *)
(* max_wall_ms and max_logical.                                            *)
(***************************************************************************)
EXTENDS Naturals

Stamp(c, p) == [wall |-> c.wall, logical |-> c.logical, peer |-> p]

\* The strict order on clock values.
Earlier(c, d) ==
    \/ c.wall < d.wall
    \/ c.wall = d.wall /\ c.logical < d.logical

\* HlcTimestamp::cmp, as the strict order it induces.
Before(s, t) ==
    \/ Earlier(s, t)
    \/ s.wall = t.wall /\ s.logical = t.logical /\ s.peer < t.peer

-----------------------------------------------------------------------------
(* Forms of the two clock operations with one plausible mistake each.      *)

TickClockResetting(c, w) ==
    [wall |-> w, logical |-> IF w = c.wall THEN c.logical + 1 ELSE 0]

ObserveClockNoIncrement(c, t, w) ==
    IF Earlier(c, t) THEN [wall |-> t.wall, logical |-> t.logical]
    ELSE [wall |-> c.wall, logical |-> c.logical]

ObserveClockOwnWallFirst(c, t, w) ==
    IF w > c.wall THEN [wall |-> w, logical |-> 0]
    ELSE [wall |-> c.wall, logical |-> c.logical + 1]

-----------------------------------------------------------------------------
\* HlcClock::tick for a wall reading w.  The reading may be behind the clock.
TickClock(c, w) ==
    IF w > c.wall
    THEN [wall |-> w, logical |-> 0]
    ELSE [wall |-> c.wall, logical |-> c.logical + 1]

Larger(a, b) == IF a >= b THEN a ELSE b

\* HlcClock::observe of timestamp t for a wall reading w.
ObserveClock(c, t, w) ==
    LET m == Larger(w, Larger(c.wall, t.wall))
    IN  [wall    |-> m,
         logical |-> IF m = c.wall /\ m = t.wall
                     THEN Larger(c.logical, t.logical) + 1
                     ELSE IF m = c.wall THEN c.logical + 1
                     ELSE IF m = t.wall THEN t.logical + 1
                     ELSE 0]
=============================================================================
