------------------------- MODULE DashboardHandlers -------------------------
(***************************************************************************)
(* The request handlers of the dashboard server                            *)
(* (src/src/bin/dashboard_server.rs) as the sequences of mutexes they take *)
(* and drop.  All engines are online and stay in the map; a handler that   *)
(* returns early takes a prefix of its sequence and drops what it holds.   *)
(* The mutex of the chaos settings, under which nothing else is taken, is  *)
(* left out.                                                               *)
(***************************************************************************)
EXTENDS Naturals, Sequences, SequencesExt

CONSTANT Engines    \* the engines in the order of the map's iteration

ASSUME EnginesAssumption ==
    /\ Engines \in Seq(STRING)
    /\ \A i, j \in DOMAIN Engines : i # j => Engines[i] # Engines[j]
    /\ "peers" \notin ToSet(Engines) /\ "online" \notin ToSet(Engines)

Locks == {"peers", "online"} \cup ToSet(Engines)

Hold(l, body) == <<[take |-> TRUE, lock |-> l]>> \o body \o <<[take |-> FALSE, lock |-> l]>>
Peek(l) == Hold(l, <<>>)

\* fg.sync_with(&mut tg), and the one-way sync_from.
Exchange(a, b) == Hold(a, Hold(b, <<>>))

ExchangeWithOthers(x) ==
    FlattenSeq([i \in DOMAIN Engines |->
        IF Engines[i] = x THEN <<>> ELSE Exchange(x, Engines[i])])

\* The loops over pairs of engines; prefix is what is looked up for each pair.
AllPairs(prefix) ==
    FlattenSeq([i \in DOMAIN Engines |->
        FlattenSeq([j \in 1..(Len(Engines) - i) |->
            prefix \o Exchange(Engines[i], Engines[i + j])])])

-----------------------------------------------------------------------------
(* Reports.                                                                *)

PeerInfo(x) == Hold("peers", Hold(x, Peek("online")))

AllPeerInfos == FlattenSeq([i \in DOMAIN Engines |-> PeerInfo(Engines[i])])

EmitConvergence ==
    Hold("peers", FlattenSeq([i \in DOMAIN Engines |-> Peek(Engines[i])]))

GetPeers == Hold("peers", AllPeerInfos)
GetPeerState(x) == Peek("peers") \o PeerInfo(x)

\* query_peer, get_snapshot, get_oplog, get_hash, snapshot_state.
ReadPeer(x) == Peek("peers") \o Peek(x)

\* One round of the heartbeat, and the greeting of a web socket.
Heartbeat == EmitConvergence \o Peek("peers") \o AllPeerInfos
Greeting == Peek("peers") \o AllPeerInfos

-----------------------------------------------------------------------------
(* Statements and membership.                                              *)

ExecPeer(x) == Peek("peers") \o Peek(x) \o PeerInfo(x) \o EmitConvergence
CreateSchema(x) == Peek("peers") \o Peek(x) \o PeerInfo(x)
ReplayPeer(x) == Peek("peers") \o Peek(x) \o Peek(x) \o Peek(x) \o PeerInfo(x)

ResetCluster == Hold("peers", Peek("online")) \o EmitConvergence

AddPeerOnlineFirst == Hold("online", Peek("peers"))
AddPeer == Hold("peers", Peek("online"))

RemovePeerKeepingLock == Hold("peers", Peek("online") \o EmitConvergence)
RemovePeer == Hold("peers", Peek("online")) \o EmitConvergence

DisconnectPeer == Peek("peers") \o Peek("online")

-----------------------------------------------------------------------------
(* Synchronisation.                                                        *)

SyncPair(a, b) ==
    Peek("online") \o Hold("peers", Exchange(a, b))
        \o PeerInfo(a) \o PeerInfo(b) \o EmitConvergence

SyncAllPeers ==
    LET round == Hold("peers", AllPairs(Peek("online") \o Peek("online")))
    IN  round \o round \o round \o Peek("peers") \o AllPeerInfos \o EmitConvergence

\* toggle_partition of a peer that comes back.
TogglePartition(x) ==
    Peek("online") \o Hold("peers", Hold("online", ExchangeWithOthers(x)))
        \o Peek("peers") \o AllPeerInfos \o EmitConvergence

SyncPeerById(x) ==
    Hold("peers", Hold("online", ExchangeWithOthers(x))) \o PeerInfo(x) \o EmitConvergence

ConnectPeer(x) == Peek("peers") \o Peek("online") \o SyncPeerById(x)

BootstrapPeer(x, from) ==
    Peek("peers") \o Exchange(from, x) \o Peek(x) \o PeerInfo(x) \o EmitConvergence

-----------------------------------------------------------------------------
(* Scenarios.                                                              *)

GetActivePeers == Hold("online", Peek("peers"))

ConcurrentUpdate(a, b) ==
    GetActivePeers \o Peek(a) \o Exchange(a, b) \o Peek(a) \o Peek(b)
        \o Exchange(a, b) \o Peek(a) \o EmitConvergence

DeleteVsUpdate(a, b) ==
    GetActivePeers \o Peek(a) \o Exchange(a, b) \o Peek(a) \o Peek(b)
        \o Exchange(a, b) \o Peek(a) \o EmitConvergence

MultiHop(e) ==
    GetActivePeers \o Peek(e[1]) \o Exchange(e[1], e[2]) \o Exchange(e[2], e[3])
        \o Exchange(e[3], e[4]) \o Exchange(e[3], e[2]) \o Exchange(e[2], e[1])
        \o EmitConvergence

UniquenessStorm ==
    LET round == AllPairs(Peek("peers"))
    IN  GetActivePeers
            \o FlattenSeq([i \in DOMAIN Engines |-> Hold("peers", Peek(Engines[i]))])
            \o round \o round \o round \o round \o round
            \o Peek("peers") \o Peek(Engines[1]) \o EmitConvergence

\* One insert and one random exchange of the twelve, then three rounds.
Chaos(x, a, b) ==
    LET round == AllPairs(Peek("peers"))
    IN  GetActivePeers \o Hold("peers", Peek(x)) \o Peek("peers") \o Exchange(a, b)
            \o round \o round \o round \o EmitConvergence

OfflineReconnect(a, b) ==
    Peek("peers") \o Peek("online") \o Hold("peers", Peek(a)) \o Peek("online")
        \o Peek("peers") \o Exchange(a, b) \o EmitConvergence
=============================================================================
