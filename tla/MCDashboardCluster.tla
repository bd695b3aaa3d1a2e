------------------------- MODULE MCDashboardCluster -------------------------
(* The names of the peers are interchangeable.                              *)
EXTENDS DashboardCluster

Names == Permutations(Peer)

SyncingAll == {r \in pending : r.kind = "all"}

\* Bound: two requests are served at a time, one of them at most synchronises
\* all peers, once there is something to synchronise.
TwoAtATime ==
    /\ Cardinality(pending) <= 2
    /\ Cardinality(SyncingAll) <= 1
    /\ SyncingAll # {} => executed > 0
=============================================================================
