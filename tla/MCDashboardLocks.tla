-------------------------- MODULE MCDashboardLocks --------------------------
(* Sets of handlers for model checking DashboardLocks.                     *)
EXTENDS DashboardServer

TwoEngines == <<"P0", "P1">>
FourEngines == <<"P0", "P1", "P2", "P3">>

PeersEndpoint == {GetPeers}
ScenariosAndHeartbeat ==
    {Heartbeat, ConcurrentUpdate("P0", "P1"), DeleteVsUpdate("P0", "P1"), UniquenessStorm,
     MultiHop(FourEngines), Chaos("P0", "P1", "P0"), OfflineReconnect("P0", "P3")}
BootstrapAndSync == {BootstrapPeer("P1", "P0"), SyncPair("P1", "P0")}
=============================================================================
