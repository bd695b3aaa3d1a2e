----------------------------- MODULE MCHlcClock -----------------------------
(* Bounds for model checking HlcClock: at most MaxEvents timestamps.       *)
EXTENDS HlcClock, FiniteSets

CONSTANT MaxEvents

FewEvents == Cardinality(Produced) <= MaxEvents
=============================================================================
