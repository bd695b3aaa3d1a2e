--------------------------- MODULE DashboardServer ---------------------------
(***************************************************************************)
(* The dashboard server (src/src/bin/dashboard_server.rs): threads that    *)
(* run the handlers of its routes.                                         *)
(***************************************************************************)
EXTENDS DashboardHandlers, DashboardLocks

\* The handlers that nest mutexes under the map of peers only: those of the
\* whole cluster, those of one peer, and the exchange of two different ones.
ClusterPrograms ==
    {Heartbeat, Greeting, ResetCluster, AddPeer, RemovePeer, DisconnectPeer, SyncAllPeers}

PeerPrograms ==
    UNION {{GetPeerState(x), ReadPeer(x), ExecPeer(x), CreateSchema(x),
            ReplayPeer(x), TogglePartition(x), SyncPeerById(x), ConnectPeer(x)} :
           x \in ToSet(Engines)}

PairPrograms == UNION {{SyncPair(a, b) : b \in ToSet(Engines) \ {a}} : a \in ToSet(Engines)}

GatedPrograms == ClusterPrograms \cup PeerPrograms \cup PairPrograms

\* Whoever waits for a mutex while it holds one holds the map of peers, and
\* does not wait for itself: the discipline behind the absence of deadlocks.
NestedUnderMap == WaitsUnder("peers")
=============================================================================
