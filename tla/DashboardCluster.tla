-------------------------- MODULE DashboardCluster --------------------------
(***************************************************************************)
(* The peers behind the dashboard server (src/src/bin/dashboard_server.rs): *)
(* a map from names to engines, a flag per name that says whether the peer *)
(* is online, and the requests that look both up, wait, and act on what    *)
(* they found.                                                             *)
(*                                                                         *)
(* An engine is named by its peer and its generation: removing a peer or   *)
(* resetting the cluster drops an engine, adding a peer makes a new one,   *)
(* with an empty log and a zero clock.  A request that holds an Arc keeps  *)
(* a dropped engine alive.  Logs are sets of operations, as in AntiEntropy, *)
(* whose groups of operations are single operations here.                  *)
(***************************************************************************)
EXTENDS Hlc, FiniteSets, SequencesExt

CONSTANTS
    Peer,           \* the peer names, which the server only compares
    MaxGeneration,  \* bound on the engines made for one name
    MaxTime,        \* bound on the readings of the physical clock
    MaxOps,         \* bound on the statements executed
    MaxRequests     \* bound on the requests accepted

ASSUME BoundsAssumption ==
    MaxGeneration \in Nat \ {0} /\ MaxTime \in Nat /\ IsFiniteSet(Peer) /\ Peer # {}

Engine == Peer \X (1..MaxGeneration)

\* The physical clock, in milliseconds.  Two readings are in any order: it
\* advances, stalls and steps back.
Time == 1..MaxTime

\* sync_all_peers goes over all pairs this often.
Rounds == 3

VARIABLES
    map,        \* AppState.peers: the generation of the engine, 0 for none
    flag,       \* AppState.online: TRUE, FALSE or "none"
    made,       \* generations made so far
    resets,     \* how often the cluster was reset
    birth,      \* history: after how many resets every engine was made, and
                \* how far the clocks of its predecessors were then
    clock,      \* Engine.clock
    log,        \* Engine.log
    pending,    \* requests being served
    accepted,   \* requests accepted so far
    executed    \* statements executed so far

cluster == <<map, made, resets, birth>>
vars == <<cluster, flag, clock, log, pending, accepted, executed>>

\* build_state; the data it inserts is left out.
Init ==
    /\ map = [p \in Peer |-> 1]
    /\ flag = [p \in Peer |-> "online"]
    /\ made = [p \in Peer |-> 1]
    /\ resets = 0
    /\ birth = [e \in Engine |-> [resets |-> 0, past |-> <<>>]]
    /\ clock = [e \in Engine |-> [wall |-> 0, logical |-> 0]]
    /\ log = [e \in Engine |-> {}]
    /\ pending = {}
    /\ accepted = 0
    /\ executed = 0

-----------------------------------------------------------------------------
Mapped == {p \in Peer : map[p] # 0}
EngineOf(p) == <<p, map[p]>>

\* *online.get(id).unwrap_or(&true)
Online(p) == flag[p] # "offline"

\* sync_all holds the mutex on the map through a round, a sweep holds it and
\* the one on the flags to its end.
PeersFree == \A r \in pending : r.kind \in {"all", "sweep"} => ~r.holding
FlagsFree == \A r \in pending : r.kind = "sweep" => ~r.holding

Stamps(e) == {o.hlc : o \in log[e]}
Missing(src, dst) == {o \in log[src] : o.hlc \notin Stamps(dst)}

ExchangeOneWay(e, f) == log' = [log EXCEPT ![f] = @ \cup Missing(e, f)]

\* Engine::sync_with.
Exchange(e, f) ==
    log' = [log EXCEPT ![e] = @ \cup Missing(f, e), ![f] = @ \cup Missing(e, f)]

\* The exchange treats both engines of a pair alike.
ExchangePair(pair) == \E e, f \in pair : e # f /\ Exchange(e, f)

\* Engine e makes an operation at clock value c; late says that its name has
\* been given to another engine.
OpOf(e, c) == [hlc |-> Stamp(c, e[1]), by |-> e[2], late |-> e[2] < made[e[1]]]

RunUnclocked(e) ==
    \E s \in Time :
        /\ executed < MaxOps
        /\ executed' = executed + 1
        /\ log' = [log EXCEPT ![e] = @ \cup {OpOf(e, TickClock(clock[e], s))}]
        /\ UNCHANGED clock

\* Engine::execute with a statement that logs one operation: the clock ticks,
\* and observes what is appended.
Run(e) ==
    \E s, t \in Time :
        LET c == TickClock(clock[e], s)
        IN  /\ executed < MaxOps
            /\ executed' = executed + 1
            /\ clock' = [clock EXCEPT ![e] = ObserveClock(c, OpOf(e, c).hlc, t)]
            /\ log' = [log EXCEPT ![e] = @ \cup {OpOf(e, c)}]

Accept(r) ==
    /\ accepted < MaxRequests
    /\ accepted' = accepted + 1
    /\ pending' = pending \cup {r}

Becomes(r, s) == pending' = (pending \ {r}) \cup {s}
Reply(r) == pending' = pending \ {r}

-----------------------------------------------------------------------------
(* History: what the peers that are mapped and online had when a           *)
(* synchronisation was asked for, and which of them have been so since;    *)
(* and which peers a request has seen online (seen).                       *)

Steady == {p \in Mapped : Online(p)}
StampsNow == [p \in Peer |-> IF p \in Mapped THEN Stamps(EngineOf(p)) ELSE {}]

\* The requests in rs once the peers in ps are no longer there.
Without(rs, ps) ==
    {IF r.kind \in {"all", "sweep"} THEN [r EXCEPT !.steady = @ \ ps] ELSE r : r \in rs}

\* The requests in rs once peer p is back: a round could still find it online.
Finding(rs, p) ==
    {IF r.kind = "all" /\ r.holding THEN [r EXCEPT !.seen = @ \cup {p}] ELSE r : r \in rs}

-----------------------------------------------------------------------------
(* Statements and exchanges of two peers.                                  *)

\* exec_peer looks the engine up, lets go of the map, and executes.
ExecPeer(p) ==
    /\ PeersFree /\ p \in Mapped
    /\ Accept([kind |-> "exec", engine |-> EngineOf(p)])
    /\ UNCHANGED <<cluster, flag, clock, log, executed>>

ExecRun(r) ==
    /\ r.kind = "exec"
    /\ Run(r.engine)
    /\ Reply(r)
    /\ UNCHANGED <<cluster, flag, accepted>>

\* sync_pair reads the flags, sleeps, and looks the engines up.
SyncPair(p, q) ==
    /\ FlagsFree /\ Online(p) /\ Online(q)
    /\ Accept([kind |-> "pair", peers |-> {p, q}, seen |-> {x \in {p, q} : Online(x)}])
    /\ UNCHANGED <<cluster, flag, clock, log, executed>>

SyncPairRun(r) ==
    /\ r.kind = "pair" /\ PeersFree
    /\ IF r.peers \subseteq Mapped THEN ExchangePair({EngineOf(p) : p \in r.peers})
       ELSE UNCHANGED log
    /\ Reply(r)
    /\ UNCHANGED <<cluster, flag, clock, accepted, executed>>

\* bootstrap_peer looks both engines up together, then pulls.
BootstrapPeer(p, q) ==
    /\ PeersFree /\ {p, q} \subseteq Mapped
    /\ Accept([kind |-> "bootstrap", dst |-> EngineOf(p), src |-> EngineOf(q)])
    /\ UNCHANGED <<cluster, flag, clock, log, executed>>

BootstrapRunLate(r) ==
    /\ r.kind = "bootstrap"
    /\ r.dst[1] \in Mapped
    /\ LET dst == EngineOf(r.dst[1])
       IN  log' = [log EXCEPT ![dst] = @ \cup Missing(r.src, dst)]
    /\ Reply(r)
    /\ UNCHANGED <<cluster, flag, clock, accepted, executed>>

BootstrapRun(r) ==
    /\ r.kind = "bootstrap"
    /\ log' = [log EXCEPT ![r.dst] = @ \cup Missing(r.src, r.dst)]
    /\ Reply(r)
    /\ UNCHANGED <<cluster, flag, clock, accepted, executed>>

\* A scenario on two engines get_active_peers returned: it executes on them
\* and exchanges their logs until it is done.
Scenario(p, q) ==
    /\ PeersFree /\ FlagsFree /\ {p, q} \subseteq Steady
    /\ Accept([kind |-> "scenario", engines |-> {EngineOf(p), EngineOf(q)},
               seen |-> {x \in {p, q} : Online(x)}])
    /\ UNCHANGED <<cluster, flag, clock, log, executed>>

ScenarioRun(r) ==
    /\ r.kind = "scenario"
    /\ \E e \in r.engines : Run(e)
    /\ UNCHANGED <<cluster, flag, pending, accepted>>

ScenarioSync(r) ==
    /\ r.kind = "scenario"
    /\ ExchangePair(r.engines)
    /\ Reply(r) \/ UNCHANGED pending
    /\ UNCHANGED <<cluster, flag, clock, accepted, executed>>

-----------------------------------------------------------------------------
(* sync_all_peers.                                                         *)

\* The loops over the pairs of the engines keys, at the pair of at[1] and at[2].
NextPair(n, at) == IF at[2] < n THEN <<at[1], at[2] + 1>> ELSE <<at[1] + 1, at[1] + 2>>

SyncAllPeers ==
    /\ Accept([kind |-> "all", holding |-> FALSE, rounds |-> Rounds, keys |-> <<>>,
               at |-> <<1, 2>>, passed |-> 0, seen |-> {},
               steady |-> Steady, before |-> StampsNow])
    /\ UNCHANGED <<cluster, flag, clock, log, executed>>

\* The round comes to the pair at; after the last pair the map is let go.
InRound(r, rounds, keys, at) ==
    LET holding == at[2] <= Len(keys)
    IN  [r EXCEPT !.holding = holding, !.rounds = rounds,
                  !.keys = IF holding THEN keys ELSE <<>>,
                  !.at = IF holding THEN at ELSE <<1, 2>>,
                  !.passed = 0,
                  !.seen = IF holding THEN Steady ELSE {}]

\* A round begins: the hash map yields its entries in any order.
RoundBegin(r) ==
    /\ r.kind = "all" /\ ~r.holding /\ r.rounds > 0 /\ PeersFree
    /\ \E keys \in SetToSeqs({EngineOf(p) : p \in Mapped}) :
            Becomes(r, InRound(r, r.rounds - 1, keys, <<1, 2>>))
    /\ UNCHANGED <<cluster, flag, clock, log, accepted, executed>>

\* The engines of the pair a round is at.
PairAt(r) == {r.keys[r.at[1]], r.keys[r.at[2]]}

Skip(r) == Becomes(r, InRound(r, r.rounds, r.keys, NextPair(Len(r.keys), r.at)))
Pass(r) == Becomes(r, [r EXCEPT !.passed = @ + 1])

RoundLookUnchecked(r) ==
    /\ r.kind = "all" /\ r.holding /\ r.passed < 2 /\ FlagsFree
    /\ Pass(r)
    /\ UNCHANGED <<cluster, flag, clock, log, accepted, executed>>

\* The flag of one of the pair is read, and the flags are let go.  If it is
\* offline, nothing depends on what the other one is.
RoundLook(r) ==
    /\ r.kind = "all" /\ r.holding /\ r.passed < 2 /\ FlagsFree
    /\ IF Online(r.keys[r.at[r.passed + 1]][1]) THEN Pass(r) ELSE Skip(r)
    /\ UNCHANGED <<cluster, flag, clock, log, accepted, executed>>

\* The pair is synchronised, whatever its flags are by now.
RoundSync(r) ==
    /\ r.kind = "all" /\ r.holding /\ r.passed = 2
    /\ ExchangePair(PairAt(r))
    /\ Skip(r)
    /\ UNCHANGED <<cluster, flag, clock, accepted, executed>>

SyncAllDone(r) == r.kind = "all" /\ ~r.holding /\ r.rounds = 0

-----------------------------------------------------------------------------
(* Partitions and reconnections.                                           *)

Sweep(p) ==
    [kind |-> "sweep", holding |-> FALSE, done |-> FALSE, hub |-> p, rest |-> {},
     steady |-> Steady \cup ({p} \cap Mapped), before |-> StampsNow]

\* toggle_partition to offline, and disconnect_peer.
Disconnect(p) ==
    /\ FlagsFree /\ Online(p) /\ accepted < MaxRequests
    /\ accepted' = accepted + 1
    /\ flag' = [flag EXCEPT ![p] = "offline"]
    /\ pending' = Without(pending, {p})
    /\ UNCHANGED <<cluster, clock, log, executed>>

\* toggle_partition to online, and connect_peer: the flag is set, then the
\* peer is synchronised with all that are online.
Connect(p) ==
    /\ FlagsFree /\ ~Online(p) /\ accepted < MaxRequests
    /\ accepted' = accepted + 1
    /\ pending' = Finding(pending, p) \cup {Sweep(p)}
    /\ flag' = [flag EXCEPT ![p] = "online"]
    /\ UNCHANGED <<cluster, clock, log, executed>>

\* sync_peer_by_id does the same for a peer that may be offline.
SyncPeerById(p) ==
    /\ Accept(Sweep(p))
    /\ UNCHANGED <<cluster, flag, clock, log, executed>>

\* What is left of a sweep; after the last peer the mutexes are let go.
InSweep(r, rest) ==
    [r EXCEPT !.holding = rest # {}, !.done = rest = {}, !.rest = rest]

\* The sweep begins, with the peers that are online by now.
SweepBegin(r) ==
    /\ r.kind = "sweep" /\ ~r.holding /\ ~r.done /\ PeersFree
    /\ IF r.hub \in Mapped
       THEN Becomes(r, InSweep(r, {p \in Mapped \ {r.hub} : Online(p)}))
       ELSE Reply(r)
    /\ UNCHANGED <<cluster, flag, clock, log, accepted, executed>>

SweepStep(r) ==
    /\ r.kind = "sweep"
    /\ \E p \in r.rest :
        /\ Exchange(EngineOf(r.hub), EngineOf(p))
        /\ Becomes(r, InSweep(r, r.rest \ {p}))
    /\ UNCHANGED <<cluster, flag, clock, accepted, executed>>

\* The answer of a synchronisation that is done.
Answer(r) ==
    /\ SyncAllDone(r) \/ (r.kind = "sweep" /\ r.done)
    /\ Reply(r)
    /\ UNCHANGED <<cluster, flag, clock, log, accepted, executed>>

-----------------------------------------------------------------------------
(* Membership.                                                             *)

\* Open new engines for the peers in ps, all of them online.
Open(ps, n) ==
    /\ \A p \in ps : made[p] < MaxGeneration
    /\ made' = [p \in Peer |-> IF p \in ps THEN made[p] + 1 ELSE made[p]]
    /\ map' = [p \in Peer |-> IF p \in ps THEN made[p] + 1 ELSE map[p]]
    /\ flag' = [p \in Peer |-> IF p \in ps THEN "online" ELSE flag[p]]
    /\ birth' = [e \in Engine |->
                    IF e[1] \in ps /\ e[2] = made[e[1]] + 1
                    THEN [resets |-> n, past |-> [g \in 1..made[e[1]] |-> clock[<<e[1], g>>].wall]]
                    ELSE birth[e]]
    /\ resets' = n

AddPeer(p) ==
    /\ PeersFree /\ p \notin Mapped /\ accepted < MaxRequests
    /\ accepted' = accepted + 1
    /\ Open({p}, resets)
    /\ UNCHANGED <<clock, log, pending, executed>>

RemovePeer(p) ==
    /\ PeersFree /\ p \in Mapped /\ accepted < MaxRequests
    /\ accepted' = accepted + 1
    /\ map' = [map EXCEPT ![p] = 0]
    /\ flag' = [flag EXCEPT ![p] = "none"]
    /\ pending' = Without(pending, {p})
    /\ UNCHANGED <<made, resets, birth, clock, log, executed>>

\* reset_cluster; all names are those of base peers.
ResetCluster ==
    /\ PeersFree /\ accepted < MaxRequests
    /\ accepted' = accepted + 1
    /\ Open(Peer, resets + 1)
    /\ pending' = Without(pending, Peer)
    /\ UNCHANGED <<clock, log, executed>>

-----------------------------------------------------------------------------
Serve(r) ==
    \/ ExecRun(r) \/ SyncPairRun(r) \/ BootstrapRun(r)
    \/ ScenarioRun(r) \/ ScenarioSync(r)
    \/ RoundBegin(r) \/ RoundLook(r) \/ RoundSync(r)
    \/ SweepBegin(r) \/ SweepStep(r)
    \/ Answer(r)

Next ==
    \/ \E p \in Peer : \/ ExecPeer(p)
                       \/ Disconnect(p)
                       \/ Connect(p)
                       \/ SyncPeerById(p)
                       \/ AddPeer(p)
                       \/ RemovePeer(p)
    \/ \E p, q \in Peer : p # q /\ (SyncPair(p, q) \/ BootstrapPeer(p, q) \/ Scenario(p, q))
    \/ SyncAllPeers
    \/ ResetCluster
    \/ \E r \in pending : Serve(r)

Spec == Init /\ [][Next]_vars

-----------------------------------------------------------------------------
(* Properties.                                                             *)

\* Nothing of what was executed before a reset is in the log of a peer after
\* it, although requests that were being served keep the old engines alive
\* and go on (reset_cluster: "wiping ALL peers").
ResetIsolates ==
    \A p \in Mapped : \A o \in log[EngineOf(p)] :
        birth[<<o.hlc.peer, o.by>>].resets = resets

\* When a synchronisation of all peers is answered, everything a peer had
\* when it was asked for is at every other one, among the peers that stayed
\* in the map and online, whatever was partitioned, added or removed between
\* its pairs and in whatever order the hash map yields the peers.
SyncAllReaches ==
    \A r \in pending : SyncAllDone(r) =>
        \A p, q \in r.steady : r.before[p] \subseteq Stamps(EngineOf(q))

\* When the sweep that follows a reconnection is done, the peer has what the
\* others had when it came back, and they have what it had: nothing falls
\* between setting the flag and locking the map (toggle_partition:
\* "automatically syncing with the cluster").
ReconnectReaches ==
    \A r \in pending : r.kind = "sweep" /\ r.done /\ r.hub \in r.steady =>
        \A p \in r.steady : /\ r.before[p] \subseteq Stamps(EngineOf(r.hub))
                            /\ r.before[r.hub] \subseteq Stamps(EngineOf(p))

\* Request r may exchange logs with an offline peer p: p has been online since
\* it came to look, or it does not look.
MayReach(r, p) ==
    \/ r.kind \in {"pair", "scenario"} /\ p \in r.seen
    \/ r.kind = "all" /\ p \in r.seen /\ \E e \in PairAt(r) : e[1] = p
    \/ r.kind = "bootstrap" /\ r.dst[1] = p
    \/ r.kind = "sweep" /\ r.hub = p

\* A peer that is offline receives operations of others only from requests
\* that could see it online: a synchronisation or scenario of two that was
\* asked for before, the pair a synchronisation of all peers is at.  Else it
\* bootstraps, or a sweep of its own does not ask.
OfflineReceives ==
    [][\A p \in Mapped : ~Online(p) /\ map'[p] = map[p] =>
            \A o \in log'[EngineOf(p)] \ log[EngineOf(p)] :
                \/ <<o.hlc.peer, o.by>> = EngineOf(p)
                \/ \E r \in pending : MayReach(r, p)]_vars

\* Operation o is of an engine that had been replaced when o was executed, or
\* whose clock had reached the millisecond of o when the engine of u was opened.
Outlives(o, u) ==
    o.late \/ o.hlc.wall <= birth[<<u.hlc.peer, u.by>>].past[o.by]

\* Two operations share a timestamp only if they are of two engines of one
\* name, and the older engine executed its own when it had been replaced, or the
\* physical clock showed the new one a time that is not past the clock of the
\* old: it stood still or was set back.  A new engine starts with a zero clock,
\* so only physical time keeps it off the timestamps of the one it replaces; an
\* exchange takes one operation for the other and drops it.
StampsReusedOnReplacement ==
    \A e, f \in Engine : \A o \in log[e], u \in log[f] :
        o # u /\ o.hlc = u.hlc =>
            \/ o.by < u.by /\ Outlives(o, u)
            \/ u.by < o.by /\ Outlives(u, o)
=============================================================================
