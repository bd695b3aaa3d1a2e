---------------------------- MODULE MCDeltaSync ----------------------------
(* Peer 1 sends deltas to the others; any two peers may exchange logs.      *)
EXTENDS DeltaSync

FromFirst == {<<1, 2>>, <<1, 3>>}
=============================================================================
