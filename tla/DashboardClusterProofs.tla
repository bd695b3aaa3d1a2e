----------------------- MODULE DashboardClusterProofs -----------------------
(***************************************************************************)
(* No operation outlives a reset, an offline peer receives only what was   *)
(* let through, timestamps are reused only when an engine is replaced, and *)
(* synchronisations reach the peers that stayed: proofs about              *)
(* DashboardCluster for any peers, number of engines, statements, requests *)
(* and readings of the physical clock.                                     *)
(*                                                                         *)
(* None is inductive: they depend on what the requests being served may    *)
(* still do and have done.  The invariant says that whatever engines a     *)
(* request holds were opened between the same two resets, that whatever an *)
(* engine has in its log was executed between those resets too, and that a *)
(* sweep that holds the mutexes still finds the peers it chose mapped and  *)
(* online.  The second adds which peers a round could find online, the     *)
(* third how far the clocks were, the last two which pairs have met.       *)
(***************************************************************************)
EXTENDS DashboardCluster, FiniteSetTheorems, TLAPS

Maker(o) == <<o.hlc.peer, o.by>>

Opened(e) == e \in Engine /\ e[2] <= made[e[1]]

\* Two engines opened between the same resets.
Kin(e, f) == Opened(e) /\ Opened(f) /\ birth[e].resets = birth[f].resets

Shape ==
    /\ map \in [Peer -> 0..MaxGeneration]
    /\ made \in [Peer -> 0..MaxGeneration]
    /\ DOMAIN flag = Peer
    /\ log = [e \in Engine |-> log[e]]

\* The engines in the map are those opened since the last reset.
MapCurrent ==
    \A p \in Mapped : Opened(EngineOf(p)) /\ birth[EngineOf(p)].resets = resets

LogsKin == \A e \in Engine : \A o \in log[e] : Kin(Maker(o), e)

\* The fields of a synchronisation of all peers and of a sweep.
AllOf(h, n, ks, at, pd, sn, st, bf) ==
    [kind |-> "all", holding |-> h, rounds |-> n, keys |-> ks, at |-> at,
     passed |-> pd, seen |-> sn, steady |-> st, before |-> bf]

IsAll(r) ==
    r = AllOf(r.holding, r.rounds, r.keys, r.at, r.passed, r.seen, r.steady, r.before)

IsSweep(r) ==
    r = [kind |-> "sweep", holding |-> r.holding, done |-> r.done, hub |-> r.hub,
         rest |-> r.rest, steady |-> r.steady, before |-> r.before]

\* The place of a round, and that it is on the pairs while it holds the map.
AtPair(r) ==
    /\ r.keys \in Seq(Engine)
    /\ r.at = <<r.at[1], r.at[2]>>
    /\ r.at[1] \in Nat /\ r.at[2] \in Nat /\ 1 <= r.at[1] /\ r.at[1] < r.at[2]
    /\ r.passed \in 0..2
    /\ r.holding => r.at[2] <= Len(r.keys)

\* Request s is at the place of r; it may have seen or passed other peers.
SamePlace(r, s) ==
    s = AllOf(r.holding, r.rounds, r.keys, r.at, s.passed, s.seen, s.steady, r.before)

\* What the requests being served may still touch.
Honest(r) ==
    \/ r.kind = "exec" /\ Opened(r.engine)
    \/ r.kind = "pair" /\ r.peers \subseteq Peer
    \/ r.kind = "bootstrap" /\ Kin(r.dst, r.src)
    \/ r.kind = "scenario" /\ \A e, f \in r.engines : Kin(e, f)
    \/ /\ r.kind = "all" /\ IsAll(r) /\ AtPair(r)
       /\ \A i, j \in 1..Len(r.keys) : Kin(r.keys[i], r.keys[j])
    \/ /\ r.kind = "sweep" /\ IsSweep(r)
       /\ r.rest # {} => r.holding /\ r.hub \in Mapped /\ r.hub \notin r.rest
       /\ \A p \in r.rest : p \in Mapped /\ Online(p)

Requests == \A r \in pending : Honest(r)

ClusterInv == Shape /\ MapCurrent /\ LogsKin /\ Requests

-----------------------------------------------------------------------------
(* Lemmas.                                                                 *)

\* An engine in the map is an engine.
LEMMA MappedEngines ==
    ASSUME Shape, NEW p \in Mapped
    PROVE  EngineOf(p) \in Engine /\ p \in Peer
  BY BoundsAssumption DEF Shape, Mapped, EngineOf, Engine

\* An exchange between kin keeps logs within their kin.
LEMMA ExchangeKeeps ==
    ASSUME Shape, LogsKin, NEW e, NEW f, Kin(e, f), Exchange(e, f),
           UNCHANGED <<made, birth, map, flag>>
    PROVE  Shape' /\ LogsKin'
  <1>1. e \in Engine /\ f \in Engine
    BY DEF Kin, Opened
  <1>2. \A g \in Engine : Opened(g)' <=> Opened(g)
    BY DEF Opened
  <1>3. \A g, h : Kin(g, h)' <=> Kin(g, h)
    BY DEF Kin, Opened
  <1>4. \A g \in Engine : g # e /\ g # f => log'[g] = log[g]
    BY <1>1 DEF Exchange, Shape
  <1>5. log'[e] \subseteq log[e] \cup log[f] /\ log'[f] \subseteq log[e] \cup log[f]
    BY <1>1 DEF Exchange, Shape, Missing
  <1>6. \A o \in log[e] \cup log[f] : Kin(Maker(o), e) /\ Kin(Maker(o), f)
    BY <1>1 DEF LogsKin, Kin
  <1>7. LogsKin'
    <2> SUFFICES ASSUME NEW g \in Engine, NEW o \in log'[g] PROVE Kin(Maker(o), g)
      BY <1>3 DEF LogsKin, Maker
    <2>1. CASE g = e \/ g = f
      BY <2>1, <1>5, <1>6
    <2>2. CASE g # e /\ g # f
      BY <2>2, <1>4 DEF LogsKin
    <2> QED BY <2>1, <2>2
  <1>8. Shape'
    BY DEF Exchange, Shape
  <1> QED BY <1>7, <1>8

\* Requests stay honest while the cluster and the flags stay the same.
LEMMA HonestStays ==
    ASSUME UNCHANGED <<cluster, flag>>
    PROVE  /\ \A r : Honest(r)' <=> Honest(r)
           /\ MapCurrent => MapCurrent'
  <1>1. \A g, h : Kin(g, h)' <=> Kin(g, h)
    BY DEF Kin, Opened, cluster
  <1>2. \A g : Opened(g)' <=> Opened(g)
    BY DEF Opened, cluster
  <1>3. Mapped' = Mapped /\ \A p : Online(p)' <=> Online(p)
    BY DEF Mapped, Online, cluster
  <1>4. \A r : IsAll(r)' <=> IsAll(r)
    BY DEF IsAll
  <1>5. \A r : IsSweep(r)' <=> IsSweep(r)
    BY DEF IsSweep
  <1>6. \A r : AtPair(r)' <=> AtPair(r)
    BY DEF AtPair
  <1>7. \A r : Honest(r)' <=> Honest(r)
    BY <1>1, <1>2, <1>3, <1>4, <1>5, <1>6 DEF Honest
  <1>8. MapCurrent => MapCurrent'
    BY DEF MapCurrent, Mapped, EngineOf, Opened, cluster
  <1> QED BY <1>7, <1>8

\* A step that leaves cluster, flags and logs alone keeps the invariant if
\* the requests it adds are honest.
LEMMA QuietKeeps ==
    ASSUME ClusterInv, UNCHANGED <<cluster, flag, log>>,
           \A r \in pending' : r \in pending \/ Honest(r)
    PROVE  ClusterInv'
  <1>1. Shape'
    BY DEF ClusterInv, Shape, cluster
  <1>2. LogsKin'
    BY DEF ClusterInv, LogsKin, Kin, Opened, cluster
  <1>3. MapCurrent' /\ Requests'
    BY HonestStays DEF ClusterInv, Requests
  <1> QED BY <1>1, <1>2, <1>3 DEF ClusterInv

\* So does one that exchanges the logs of two kin.
LEMMA ExchangingKeeps ==
    ASSUME ClusterInv, UNCHANGED <<cluster, flag>>,
           NEW e, NEW f, Kin(e, f), Exchange(e, f),
           \A r \in pending' : r \in pending \/ Honest(r)
    PROVE  ClusterInv'
  <1>1. Shape' /\ LogsKin'
    BY ExchangeKeeps DEF ClusterInv, cluster
  <1>2. MapCurrent' /\ Requests'
    BY HonestStays DEF ClusterInv, Requests
  <1> QED BY <1>1, <1>2 DEF ClusterInv

\* A statement logs an operation of the engine itself and nothing else.
LEMMA RunLogs ==
    ASSUME Shape, NEW e \in Engine, Run(e)
    PROVE  /\ log' = [g \in Engine |-> log'[g]]
           /\ \A g \in Engine : g # e => log'[g] = log[g]
           /\ \A o \in log'[e] : o \in log[e] \/ Maker(o) = e
  <1> DEFINE op(c) == OpOf(e, c)
  <1>1. PICK c : log' = [log EXCEPT ![e] = @ \cup {op(c)}]
    BY DEF Run
  <1>2. op(c).by = e[2] /\ op(c).hlc.peer = e[1]
    BY DEF OpOf, Stamp
  <1>3. Maker(op(c)) = e
    BY <1>2 DEF Maker, Engine
  <1> HIDE DEF op
  <1> QED BY <1>1, <1>3 DEF Shape

LEMMA RunKeeps ==
    ASSUME ClusterInv, UNCHANGED <<cluster, flag>>, NEW e, Opened(e), Run(e),
           \A r \in pending' : r \in pending \/ Honest(r)
    PROVE  ClusterInv'
  <1>1. e \in Engine /\ Kin(e, e)
    BY DEF Opened, Kin
  <1>2. Shape'
    BY <1>1, RunLogs DEF ClusterInv, Shape, cluster
  <1>3. \A g, h : Kin(g, h)' <=> Kin(g, h)
    BY DEF Kin, Opened, cluster
  <1>4. LogsKin'
    <2> SUFFICES ASSUME NEW g \in Engine, NEW o \in log'[g] PROVE Kin(Maker(o), g)
      BY <1>3 DEF LogsKin, Maker
    <2>1. CASE o \in log[g]
      BY <2>1 DEF ClusterInv, LogsKin
    <2>2. CASE o \notin log[g]
      BY <2>2, <1>1, RunLogs DEF ClusterInv
    <2> QED BY <2>1, <2>2
  <1>5. MapCurrent' /\ Requests'
    BY HonestStays DEF ClusterInv, Requests
  <1> QED BY <1>2, <1>4, <1>5 DEF ClusterInv

-----------------------------------------------------------------------------
(* Steps that change the map or the flags.                                 *)

\* Nothing of what was opened is changed.
OpenedStays ==
    \A e : Opened(e) => Opened(e)' /\ birth'[e].resets = birth[e].resets

LEMMA HonestThrough ==
    ASSUME OpenedStays, NEW r, Honest(r), r.kind = "sweep" => ~r.holding
    PROVE  Honest(r)'
  <1>1. \A g, h : Kin(g, h) => Kin(g, h)'
    BY DEF Kin, OpenedStays
  <1>2. \A g : Opened(g) => Opened(g)'
    BY DEF OpenedStays
  <1>3. /\ IsAll(r)' <=> IsAll(r)
        /\ IsSweep(r)' <=> IsSweep(r)
        /\ AtPair(r)' <=> AtPair(r)
    BY DEF IsAll, IsSweep, AtPair
  <1>4. CASE r.kind = "sweep"
    <2>1. IsSweep(r) /\ r.rest = {}
      BY <1>4 DEF Honest
    <2> QED BY <2>1, <1>3, <1>4 DEF Honest
  <1>5. CASE r.kind # "sweep"
    BY <1>1, <1>2, <1>3, <1>5 DEF Honest
  <1> QED BY <1>4, <1>5

LEMMA LogsKinThrough ==
    ASSUME OpenedStays, LogsKin, UNCHANGED log
    PROVE  LogsKin'
  <1>1. \A g, h : Kin(g, h) => Kin(g, h)'
    BY DEF Kin, OpenedStays
  <1> QED BY <1>1 DEF LogsKin, Maker

\* A new request of these kinds touches nothing yet.
LEMMA NewSweepHonest ==
    ASSUME NEW p
    PROVE  Honest(Sweep(p)) /\ Sweep(p).kind = "sweep" /\ ~Sweep(p).holding
  BY DEF Sweep, Honest, IsSweep

\* A synchronisation at the place of another is as honest.
LEMMA SamePlaceHonest ==
    ASSUME NEW r, r.kind = "all", Honest(r), NEW s, SamePlace(r, s), s.passed \in 0..2
    PROVE  Honest(s) /\ s.kind = "all"
  <1>1. IsAll(r) /\ AtPair(r) /\ \A i, j \in 1..Len(r.keys) : Kin(r.keys[i], r.keys[j])
    BY DEF Honest
  <1>2. /\ s.kind = "all" /\ s.holding = r.holding /\ s.rounds = r.rounds
        /\ s.keys = r.keys /\ s.at = r.at /\ s.before = r.before
    BY DEF SamePlace, AllOf
  <1>3. IsAll(s)
    BY <1>2 DEF SamePlace, IsAll
  <1>4. AtPair(s)
    BY <1>1, <1>2 DEF AtPair
  <1> QED BY <1>1, <1>2, <1>3, <1>4 DEF Honest

\* What Finding makes of a request.
LEMMA FindingSame ==
    ASSUME NEW p, Requests, NEW s \in Finding(pending, p)
    PROVE  \E r \in pending :
              \/ s = r /\ ~(r.kind = "all" /\ r.holding)
              \/ /\ r.kind = "all" /\ r.holding /\ SamePlace(r, s)
                 /\ s.passed = r.passed /\ s.steady = r.steady /\ s.seen = r.seen \cup {p}
  <1>1. PICK r \in pending :
            s = IF r.kind = "all" /\ r.holding THEN [r EXCEPT !.seen = @ \cup {p}] ELSE r
    BY DEF Finding
  <1>2. CASE r.kind = "all" /\ r.holding
    <2>1. IsAll(r)
      BY <1>2 DEF Requests, Honest
    <2>2. s = AllOf(r.holding, r.rounds, r.keys, r.at, r.passed, r.seen \cup {p}, r.steady, r.before)
      BY <2>1, <1>1, <1>2 DEF IsAll, AllOf
    <2>3. SamePlace(r, s) /\ s.passed = r.passed /\ s.steady = r.steady /\ s.seen = r.seen \cup {p}
      BY <2>2 DEF SamePlace, AllOf
    <2> QED BY <1>2, <2>3
  <1> QED BY <1>1, <1>2

LEMMA FindingHonest ==
    ASSUME NEW p, Requests, NEW s \in Finding(pending, p)
    PROVE  /\ Honest(s)
           /\ \E r \in pending : s.kind = r.kind /\ (s.kind = "sweep" => s.holding = r.holding)
  <1>1. PICK r \in pending :
            s = r \/ (r.kind = "all" /\ SamePlace(r, s) /\ s.passed = r.passed)
    BY FindingSame
  <1>2. Honest(r)
    BY DEF Requests
  <1>3. CASE r.kind = "all" /\ SamePlace(r, s) /\ s.passed = r.passed
    <2>1. s.passed \in 0..2
      BY <1>2, <1>3 DEF Honest, AtPair
    <2> QED BY <1>2, <1>3, <2>1, SamePlaceHonest
  <1> QED BY <1>1, <1>2, <1>3

\* A request without some of its steady peers is as honest as before.
LEMMA WithoutHonest ==
    ASSUME NEW ps, Requests
    PROVE  \A s \in Without(pending, ps) :
               /\ Honest(s)
               /\ \E r \in pending : s.kind = r.kind /\ (s.kind = "sweep" => s.holding = r.holding)
  <1> SUFFICES ASSUME NEW r \in pending,
                      NEW s, s = IF r.kind \in {"all", "sweep"} THEN [r EXCEPT !.steady = @ \ ps] ELSE r
               PROVE  Honest(s) /\ s.kind = r.kind /\ (s.kind = "sweep" => s.holding = r.holding)
    BY DEF Without
  <1>0. Honest(r)
    BY DEF Requests
  <1>1. CASE r.kind = "all"
    <2>1. IsAll(r)
      BY <1>0, <1>1 DEF Honest
    <2>2. s = AllOf(r.holding, r.rounds, r.keys, r.at, r.passed, r.seen, r.steady \ ps, r.before)
      BY <2>1, <1>1 DEF IsAll, AllOf
    <2>3. SamePlace(r, s) /\ s.passed = r.passed
      BY <2>2 DEF SamePlace, AllOf
    <2>4. s.passed \in 0..2
      BY <1>0, <1>1, <2>3 DEF Honest, AtPair
    <2> QED BY <1>0, <1>1, <2>3, <2>4, SamePlaceHonest
  <1>2. CASE r.kind = "sweep"
    <2>1. /\ IsSweep(r)
          /\ r.rest # {} => r.holding /\ r.hub \in Mapped /\ r.hub \notin r.rest
          /\ \A p \in r.rest : p \in Mapped /\ Online(p)
      BY <1>0, <1>2 DEF Honest
    <2>2. s = [kind |-> "sweep", holding |-> r.holding, done |-> r.done, hub |-> r.hub,
               rest |-> r.rest, steady |-> r.steady \ ps, before |-> r.before]
      BY <2>1, <1>2 DEF IsSweep
    <2>3. s.kind = "sweep" /\ s.holding = r.holding /\ s.hub = r.hub /\ s.rest = r.rest
      BY <2>2
    <2>4. IsSweep(s)
      BY <2>2 DEF IsSweep
    <2> QED BY <2>1, <2>3, <2>4, <1>2 DEF Honest
  <1>3. CASE r.kind \notin {"all", "sweep"}
    BY <1>0, <1>3
  <1> QED BY <1>1, <1>2, <1>3

\* Opening engines leaves those opened before, and their logs, alone.
LEMMA OpenKeeps ==
    ASSUME Shape, NEW ps \in SUBSET Peer, NEW n, Open(ps, n), UNCHANGED log
    PROVE  Shape' /\ OpenedStays
  <1>1. \A p \in ps : made[p] + 1 \in 0..MaxGeneration
    BY BoundsAssumption DEF Open, Shape
  <1>2. Shape'
    BY <1>1 DEF Shape, Open
  <1>3. \A e \in Engine : e[1] \in Peer /\ e[2] \in Nat /\ made[e[1]] \in Nat
    BY BoundsAssumption DEF Engine, Shape
  <1>4. OpenedStays
    BY <1>3 DEF OpenedStays, Opened, Open
  <1> QED BY <1>2, <1>4

\* The engines just opened carry the number of resets they were opened after.
LEMMA OpenedNow ==
    ASSUME Shape, NEW ps \in SUBSET Peer, NEW n, Open(ps, n), NEW p \in ps
    PROVE  p \in Mapped' /\ Opened(EngineOf(p))' /\ birth'[EngineOf(p)'].resets = n
  <1>1. map'[p] = made[p] + 1 /\ made'[p] = made[p] + 1 /\ made[p] + 1 \in 1..MaxGeneration
    BY BoundsAssumption DEF Open, Shape
  <1>2. <<p, made[p] + 1>> \in Engine
    BY <1>1 DEF Engine
  <1>3. birth'[<<p, made[p] + 1>>].resets = n
    BY <1>2 DEF Open
  <1>4. EngineOf(p)' = <<p, made[p] + 1>>
    BY <1>1 DEF EngineOf
  <1> QED BY <1>1, <1>2, <1>3, <1>4, BoundsAssumption DEF Mapped, Opened, Shape

-----------------------------------------------------------------------------
(* The invariant.                                                          *)

LEMMA InitClusterInv == Init => ClusterInv
  <1> SUFFICES ASSUME Init PROVE ClusterInv
    OBVIOUS
  <1>1. Shape
    BY BoundsAssumption DEF Init, Shape
  <1>2. MapCurrent
    BY BoundsAssumption DEF Init, MapCurrent, Mapped, EngineOf, Opened, Engine
  <1>3. LogsKin /\ Requests
    BY DEF Init, LogsKin, Requests
  <1> QED BY <1>1, <1>2, <1>3 DEF ClusterInv
LEMMA MembershipKeeps ==
    ASSUME ClusterInv, NEW p \in Peer, AddPeer(p) \/ RemovePeer(p) \/ ResetCluster
    PROVE  ClusterInv'
  <1>0. Shape /\ MapCurrent /\ LogsKin /\ Requests
    BY DEF ClusterInv
  <1>1. CASE AddPeer(p)
    <2>1. Open({p}, resets) /\ UNCHANGED <<log, pending>> /\ resets' = resets
      BY <1>1 DEF AddPeer, Open
    <2>2. Shape' /\ OpenedStays
      BY <1>0, <2>1, OpenKeeps
    <2>3. MapCurrent'
      <3> SUFFICES ASSUME NEW q \in Mapped'
                   PROVE  Opened(EngineOf(q))' /\ birth'[EngineOf(q)'].resets = resets'
        BY DEF MapCurrent
      <3>1. CASE q = p
        BY <3>1, <1>0, <2>1, OpenedNow
      <3>2. CASE q # p
        <4>1. q \in Mapped /\ EngineOf(q)' = EngineOf(q)
          BY <3>2, <2>1 DEF Mapped, EngineOf, Open
        <4> QED BY <4>1, <1>0, <2>1, <2>2 DEF MapCurrent, OpenedStays, Opened
      <3> QED BY <3>1, <3>2
    <2>4. Requests'
      BY <1>0, <1>1, <2>1, <2>2, HonestThrough DEF Requests, AddPeer, PeersFree
    <2> QED BY <1>0, <2>1, <2>2, <2>3, <2>4, LogsKinThrough DEF ClusterInv
  <1>2. CASE RemovePeer(p)
    <2>1. OpenedStays
      BY <1>2 DEF RemovePeer, OpenedStays, Opened
    <2>2. Shape'
      BY <1>0, <1>2, BoundsAssumption DEF RemovePeer, Shape
    <2>3. MapCurrent'
      BY <1>0, <1>2 DEF RemovePeer, MapCurrent, Mapped, EngineOf, Opened, Shape
    <2>4. \A s \in pending' : Honest(s) /\ (s.kind = "sweep" => ~s.holding)
      BY <1>0, <1>2, WithoutHonest DEF RemovePeer, PeersFree
    <2>5. Requests'
      BY <2>1, <2>4, HonestThrough DEF Requests
    <2> QED BY <1>0, <1>2, <2>1, <2>2, <2>3, <2>5, LogsKinThrough DEF ClusterInv, RemovePeer
  <1>3. CASE ResetCluster
    <2>1. Open(Peer, resets + 1) /\ UNCHANGED log /\ resets' = resets + 1
      BY <1>3 DEF ResetCluster, Open
    <2>2. Shape' /\ OpenedStays
      BY <1>0, <2>1, OpenKeeps
    <2>3. MapCurrent'
      BY <1>0, <2>1, OpenedNow DEF MapCurrent, Mapped
    <2>4. \A s \in pending' : Honest(s) /\ (s.kind = "sweep" => ~s.holding)
      BY <1>0, <1>3, WithoutHonest DEF ResetCluster, PeersFree
    <2>5. Requests'
      BY <2>2, <2>4, HonestThrough DEF Requests
    <2> QED BY <1>0, <2>1, <2>2, <2>3, <2>5, LogsKinThrough DEF ClusterInv
  <1> QED BY <1>1, <1>2, <1>3

LEMMA FlagKeeps ==
    ASSUME ClusterInv, NEW p \in Peer, Disconnect(p) \/ Connect(p)
    PROVE  ClusterInv'
  <1>0. Shape /\ MapCurrent /\ LogsKin /\ Requests
    BY DEF ClusterInv
  <1>1. UNCHANGED <<cluster, log>> /\ DOMAIN flag' = Peer
    BY <1>0 DEF Disconnect, Connect, Shape
  <1>2. Shape' /\ OpenedStays /\ MapCurrent'
    BY <1>0, <1>1 DEF Shape, OpenedStays, Opened, MapCurrent, Mapped, EngineOf, cluster
  <1>3. \A s \in pending' : Honest(s) /\ (s.kind = "sweep" => ~s.holding)
    <2>1. CASE Disconnect(p)
      BY <1>0, <2>1, WithoutHonest DEF Disconnect, FlagsFree
    <2>2. CASE Connect(p)
      BY <1>0, <2>2, NewSweepHonest, FindingHonest DEF Connect, FlagsFree
    <2> QED BY <2>1, <2>2
  <1>4. Requests'
    BY <1>2, <1>3, HonestThrough DEF Requests
  <1> QED BY <1>0, <1>1, <1>2, <1>4, LogsKinThrough DEF ClusterInv

\* Engines mapped together were opened between the same resets.
LEMMA MappedKin ==
    ASSUME MapCurrent, NEW p \in Mapped, NEW q \in Mapped
    PROVE  Kin(EngineOf(p), EngineOf(q)) /\ Opened(EngineOf(p))
  BY DEF MapCurrent, Kin

\* Requests that are accepted touch nothing yet.
LEMMA AcceptKeeps ==
    ASSUME ClusterInv, NEW p \in Peer, NEW q \in Peer,
           \/ ExecPeer(p) \/ SyncPeerById(p) \/ SyncAllPeers
           \/ SyncPair(p, q) \/ BootstrapPeer(p, q) \/ Scenario(p, q)
    PROVE  ClusterInv'
  <1>0. MapCurrent
    BY DEF ClusterInv
  <1>1. CASE ExecPeer(p)
    <2>1. Honest([kind |-> "exec", engine |-> EngineOf(p)])
      BY <1>0, <1>1, MappedKin DEF Honest, ExecPeer
    <2> QED BY <1>1, <2>1, QuietKeeps DEF ExecPeer, Accept
  <1>2. CASE SyncPeerById(p)
    BY <1>2, NewSweepHonest, QuietKeeps DEF SyncPeerById, Accept
  <1>3. CASE SyncAllPeers
    <2> DEFINE r == [kind |-> "all", holding |-> FALSE, rounds |-> Rounds,
                     keys |-> <<>>, at |-> <<1, 2>>, passed |-> 0, seen |-> {},
                     steady |-> Steady, before |-> StampsNow]
    <2>1. Honest(r)
      BY DEF Honest, IsAll, AllOf, AtPair
    <2> HIDE DEF r
    <2>2. pending' = pending \cup {r} /\ UNCHANGED <<cluster, flag, log>>
      BY <1>3 DEF SyncAllPeers, Accept, r
    <2> QED BY <2>1, <2>2, QuietKeeps
  <1>4. CASE SyncPair(p, q)
    <2>1. Honest([kind |-> "pair", peers |-> {p, q}, seen |-> {x \in {p, q} : Online(x)}])
      BY DEF Honest
    <2> QED BY <1>4, <2>1, QuietKeeps DEF SyncPair, Accept
  <1>5. CASE BootstrapPeer(p, q)
    <2>1. Honest([kind |-> "bootstrap", dst |-> EngineOf(p), src |-> EngineOf(q)])
      BY <1>0, <1>5, MappedKin DEF Honest, BootstrapPeer
    <2> QED BY <1>5, <2>1, QuietKeeps DEF BootstrapPeer, Accept
  <1>6. CASE Scenario(p, q)
    <2>1. p \in Mapped /\ q \in Mapped
      BY <1>6 DEF Scenario, Steady
    <2>2. Kin(EngineOf(p), EngineOf(q)) /\ Kin(EngineOf(q), EngineOf(p))
          /\ Kin(EngineOf(p), EngineOf(p)) /\ Kin(EngineOf(q), EngineOf(q))
      BY <1>0, <2>1, MappedKin
    <2>3. Honest([kind |-> "scenario", engines |-> {EngineOf(p), EngineOf(q)},
                  seen |-> {x \in {p, q} : Online(x)}])
      BY <2>2 DEF Honest
    <2> QED BY <1>6, <2>3, QuietKeeps DEF Scenario, Accept
  <1> QED BY <1>1, <1>2, <1>3, <1>4, <1>5, <1>6
LEMMA FunctionIsSeq ==
    ASSUME NEW S, NEW n \in Nat, NEW f \in [1..n -> S]
    PROVE  f \in Seq(S) /\ Len(f) = n
  OBVIOUS

\* What changing some fields of a synchronisation gives.
LEMMA AllExcept ==
    ASSUME NEW r, IsAll(r), NEW h, NEW n, NEW ks, NEW at, NEW pd, NEW sn, NEW s,
           s = [r EXCEPT !.holding = h, !.rounds = n, !.keys = ks, !.at = at,
                         !.passed = pd, !.seen = sn]
    PROVE  s = AllOf(h, n, ks, at, pd, sn, r.steady, r.before)
  <1>0. r = AllOf(r.holding, r.rounds, r.keys, r.at, r.passed, r.seen, r.steady, r.before)
    BY DEF IsAll
  <1> USE <1>0 DEF AllOf
  <1>1. DOMAIN s = {"kind", "holding", "rounds", "keys", "at", "passed", "seen",
                    "steady", "before"}
    <2>1. DOMAIN s = DOMAIN r
      OBVIOUS
    <2> QED BY <2>1
  <1>2. s.kind = "all" /\ s.steady = r.steady /\ s.before = r.before
    OBVIOUS
  <1>3. s.holding = h
    OBVIOUS
  <1>4. s.rounds = n
    OBVIOUS
  <1>5. s.keys = ks
    OBVIOUS
  <1>6. s.at = at
    OBVIOUS
  <1>7. s.passed = pd
    OBVIOUS
  <1>8. s.seen = sn
    OBVIOUS
  <1>9. DOMAIN s = DOMAIN r
    OBVIOUS
  <1> QED BY <1>1, <1>2, <1>3, <1>4, <1>5, <1>6, <1>7, <1>8, <1>9

\* What moving a round on makes of a synchronisation.
LEMMA InRoundIs ==
    ASSUME NEW r, IsAll(r), NEW n, NEW keys, NEW at
    PROVE  InRound(r, n, keys, at) =
             LET holding == at[2] <= Len(keys)
             IN  AllOf(holding, n, IF holding THEN keys ELSE <<>>,
                       IF holding THEN at ELSE <<1, 2>>, 0,
                       IF holding THEN Steady ELSE {}, r.steady, r.before)
  <1> DEFINE holding == at[2] <= Len(keys)
             ks == IF holding THEN keys ELSE <<>>
             place == IF holding THEN at ELSE <<1, 2>>
             seen == IF holding THEN Steady ELSE {}
             s == InRound(r, n, keys, at)
  <1>1. s = [r EXCEPT !.holding = holding, !.rounds = n, !.keys = ks, !.at = place,
                      !.passed = 0, !.seen = seen]
    BY DEF InRound
  <1> HIDE DEF s, holding, ks, place, seen
  <1>2. s = AllOf(holding, n, ks, place, 0, seen, r.steady, r.before)
    BY <1>1, AllExcept
  <1> QED BY <1>2 DEF s, holding, ks, place, seen

LEMMA SweepExcept ==
    ASSUME NEW h, NEW d, NEW hub, NEW rest, NEW st, NEW bf,
           NEW h2, NEW d2, NEW rest2, NEW r, NEW s,
           r = [kind |-> "sweep", holding |-> h, done |-> d, hub |-> hub, rest |-> rest,
                steady |-> st, before |-> bf],
           s = [r EXCEPT !.holding = h2, !.done = d2, !.rest = rest2]
    PROVE  s = [kind |-> "sweep", holding |-> h2, done |-> d2, hub |-> hub, rest |-> rest2,
                steady |-> st, before |-> bf]
  <1>1. DOMAIN s = {"kind", "holding", "done", "hub", "rest", "steady", "before"}
    <2>1. DOMAIN s = DOMAIN r
      OBVIOUS
    <2> QED BY <2>1
  <1>2. s.kind = "sweep" /\ s.hub = hub /\ s.steady = st /\ s.before = bf
    OBVIOUS
  <1>3. s.holding = h2
    OBVIOUS
  <1>4. s.done = d2
    OBVIOUS
  <1>5. s.rest = rest2
    OBVIOUS
  <1>6. DOMAIN s = DOMAIN r
    OBVIOUS
  <1> QED BY <1>1, <1>2, <1>3, <1>4, <1>5, <1>6

\* The hash map's order of its engines is a sequence of them.
LEMMA KeysOfMap ==
    ASSUME Shape, NEW keys \in SetToSeqs({EngineOf(p) : p \in Mapped})
    PROVE  /\ keys \in Seq(Engine)
           /\ \A i \in 1..Len(keys) : \E p \in Mapped : keys[i] = EngineOf(p)
           /\ \A p \in Mapped : \E i \in 1..Len(keys) : keys[i] = EngineOf(p)
  <1> DEFINE S == {EngineOf(p) : p \in Mapped}
  <1>1. S \subseteq Engine
    BY MappedEngines
  <1>2. IsFiniteSet(Mapped)
    BY BoundsAssumption, FS_Subset DEF Mapped
  <1>3. IsFiniteSet(S)
    <2> DEFINE named == [p \in Mapped |-> EngineOf(p)]
    <2>1. named \in Surjection(Mapped, S)
      BY DEF Surjection
    <2> QED BY <1>2, <2>1, FS_Surjection
  <1>4. Cardinality(S) \in Nat
    BY <1>3, FS_CardinalityType
  <1>5. keys \in [1..Cardinality(S) -> S]
    BY DEF SetToSeqs
  <1>6. keys \in Seq(S) /\ Len(keys) = Cardinality(S)
    BY <1>4, <1>5, FunctionIsSeq
  <1>7. \A e \in S : \E i \in 1..Len(keys) : keys[i] = e
    <2>1. Cardinality(1..Len(keys)) = Cardinality(S)
      BY <1>4, <1>6, FS_Interval
    <2>2. keys \in Injection(1..Len(keys), S)
      BY <1>5, <1>6 DEF SetToSeqs, Injection, IsInjective
    <2>3. keys \in Surjection(1..Len(keys), S)
      BY <1>3, <2>1, <2>2, FS_Injection
    <2> QED BY <2>3 DEF Surjection
  <1>8. \A p \in Mapped : \E i \in 1..Len(keys) : keys[i] = EngineOf(p)
    BY <1>7
  <1>9. /\ keys \in Seq(Engine)
        /\ \A i \in 1..Len(keys) : \E p \in Mapped : keys[i] = EngineOf(p)
    BY <1>1, <1>4, <1>5, <1>6
  <1> QED BY <1>8, <1>9

\* Moving a round on keeps it honest.
LEMMA InRoundHonest ==
    ASSUME NEW r, r.kind = "all", IsAll(r), NEW n, NEW keys \in Seq(Engine),
           NEW i \in Nat, NEW j \in Nat, 1 <= i, i < j,
           \A k, l \in 1..Len(keys) : Kin(keys[k], keys[l])
    PROVE  Honest(InRound(r, n, keys, <<i, j>>))
  <1> DEFINE holding == j <= Len(keys)
             ks == IF holding THEN keys ELSE <<>>
             at == IF holding THEN <<i, j>> ELSE <<1, 2>>
             s == InRound(r, n, keys, <<i, j>>)
  <1>1. s = AllOf(holding, n, ks, at, 0, IF holding THEN Steady ELSE {}, r.steady, r.before)
    BY InRoundIs
  <1>2. ks \in Seq(Engine) /\ \A k, l \in 1..Len(ks) : Kin(ks[k], ks[l])
    OBVIOUS
  <1>3. /\ at = <<at[1], at[2]>> /\ at[1] \in Nat /\ at[2] \in Nat
        /\ 1 <= at[1] /\ at[1] < at[2] /\ (holding => at[2] <= Len(ks))
    OBVIOUS
  <1> HIDE DEF holding, ks, at, s
  <1>4. /\ s.kind = "all" /\ s.holding = holding /\ s.keys = ks /\ s.at = at
        /\ s.rounds = n /\ s.steady = r.steady /\ s.before = r.before
        /\ s.passed = 0 /\ s.seen = (IF holding THEN Steady ELSE {})
    BY <1>1 DEF AllOf
  <1>5. IsAll(s)
    BY <1>1, <1>4 DEF IsAll
  <1>6. AtPair(s)
    BY <1>2, <1>3, <1>4 DEF AtPair
  <1>7. Honest(s)
    BY <1>2, <1>4, <1>5, <1>6 DEF Honest
  <1> QED BY <1>7 DEF s

\* A round leaves the pair it is at as honest, whether it skips it or has
\* passed one more of its flags.
LEMMA SkipHonest ==
    ASSUME NEW r, r.kind = "all", Honest(r), r.holding, Skip(r)
    PROVE  \A s \in pending' : s \in pending \/ Honest(s)
  <1> DEFINE n == Len(r.keys)
             i == r.at[1]
             j == r.at[2]
             next == InRound(r, r.rounds, r.keys, NextPair(n, r.at))
  <1>1. IsAll(r) /\ AtPair(r) /\ \A k, l \in 1..Len(r.keys) : Kin(r.keys[k], r.keys[l])
    BY DEF Honest
  <1>2. n \in Nat /\ i \in Nat /\ j \in Nat /\ 1 <= i /\ i < j /\ j <= n
    BY <1>1 DEF AtPair
  <1>3. NextPair(n, r.at) = IF j < n THEN <<i, j + 1>> ELSE <<i + 1, i + 2>>
    BY <1>2 DEF NextPair
  <1>4. Honest(next)
    <2>1. /\ i + 1 \in Nat /\ i + 2 \in Nat /\ 1 <= i + 1 /\ i + 1 < i + 2
          /\ j + 1 \in Nat /\ i < j + 1
      BY <1>2
    <2>2. r.keys \in Seq(Engine)
      BY <1>1 DEF AtPair
    <2> HIDE DEF i, j
    <2>3. /\ Honest(InRound(r, r.rounds, r.keys, <<i, j + 1>>))
          /\ Honest(InRound(r, r.rounds, r.keys, <<i + 1, i + 2>>))
      BY <1>1, <1>2, <2>1, <2>2, InRoundHonest
    <2> QED BY <1>3, <2>3
  <1>5. pending' = (pending \ {r}) \cup {next}
    BY DEF Skip, Becomes
  <1> QED BY <1>4, <1>5

LEMMA PassIs ==
    ASSUME NEW r, IsAll(r), NEW s, s = [r EXCEPT !.passed = @ + 1]
    PROVE  SamePlace(r, s) /\ s.passed = r.passed + 1 /\ s.seen = r.seen /\ s.steady = r.steady
  <1>1. s = AllOf(r.holding, r.rounds, r.keys, r.at, r.passed + 1, r.seen, r.steady, r.before)
    BY DEF IsAll, AllOf
  <1>2. s.passed = r.passed + 1 /\ s.seen = r.seen /\ s.steady = r.steady
    BY <1>1 DEF AllOf
  <1> QED BY <1>1, <1>2 DEF SamePlace

LEMMA PassHonest ==
    ASSUME NEW r, r.kind = "all", Honest(r), r.passed < 2, Pass(r)
    PROVE  \A s \in pending' : s \in pending \/ Honest(s)
  <1> DEFINE next == [r EXCEPT !.passed = @ + 1]
  <1>1. IsAll(r) /\ r.passed \in 0..2
    BY DEF Honest, AtPair
  <1>2. SamePlace(r, next) /\ next.passed = r.passed + 1
    BY <1>1, PassIs
  <1>3. pending' = (pending \ {r}) \cup {next}
    BY DEF Pass, Becomes
  <1> HIDE DEF next
  <1>4. next.passed \in 0..2
    BY <1>1, <1>2
  <1>5. Honest(next)
    BY <1>2, <1>4, SamePlaceHonest
  <1> QED BY <1>3, <1>5

LEMMA RoundKeeps ==
    ASSUME ClusterInv, NEW r \in pending, RoundBegin(r) \/ RoundLook(r) \/ RoundSync(r)
    PROVE  ClusterInv'
  <1>0. Shape /\ MapCurrent /\ LogsKin /\ Honest(r)
    BY DEF ClusterInv, Requests
  <1>1. /\ r.kind = "all" /\ IsAll(r) /\ AtPair(r)
        /\ \A i, j \in 1..Len(r.keys) : Kin(r.keys[i], r.keys[j])
    BY <1>0 DEF Honest, RoundBegin, RoundLook, RoundSync
  <1>2. CASE RoundBegin(r)
    <2>1. PICK keys \in SetToSeqs({EngineOf(p) : p \in Mapped}) :
              Becomes(r, InRound(r, r.rounds - 1, keys, <<1, 2>>))
      BY <1>2 DEF RoundBegin
    <2>2. /\ keys \in Seq(Engine)
          /\ \A i \in 1..Len(keys) : \E p \in Mapped : keys[i] = EngineOf(p)
      BY <1>0, KeysOfMap
    <2>3. \A i, j \in 1..Len(keys) : Kin(keys[i], keys[j])
      BY <1>0, <2>2, MappedKin
    <2>4. Honest(InRound(r, r.rounds - 1, keys, <<1, 2>>))
      BY <1>1, <2>2, <2>3, InRoundHonest
    <2> QED BY <1>2, <2>1, <2>4, QuietKeeps DEF RoundBegin, Becomes
  <1>3. CASE RoundLook(r)
    <2>1. Skip(r) \/ Pass(r)
      BY <1>3 DEF RoundLook
    <2>2. \A s \in pending' : s \in pending \/ Honest(s)
      BY <1>0, <1>1, <1>3, <2>1, SkipHonest, PassHonest DEF RoundLook
    <2> QED BY <1>3, <2>2, QuietKeeps DEF RoundLook
  <1>4. CASE RoundSync(r)
    <2>1. PICK e \in PairAt(r), f \in PairAt(r) : Exchange(e, f)
      BY <1>4 DEF RoundSync, ExchangePair
    <2>2. Kin(e, f)
      BY <1>1, <1>4, <2>1 DEF PairAt, AtPair, RoundSync
    <2>3. \A s \in pending' : s \in pending \/ Honest(s)
      BY <1>0, <1>1, <1>4, SkipHonest DEF RoundSync
    <2> QED BY <1>4, <2>1, <2>2, <2>3, ExchangingKeeps DEF RoundSync
  <1> QED BY <1>2, <1>3, <1>4

LEMMA InSweepHonest ==
    ASSUME NEW r, r.kind = "sweep", IsSweep(r), NEW rest,
           rest # {} => r.hub \in Mapped /\ r.hub \notin rest,
           \A p \in rest : p \in Mapped /\ Online(p)
    PROVE  Honest(InSweep(r, rest))
  <1> DEFINE holding == rest # {}
             done == rest = {}
             s == InSweep(r, rest)
  <1>1. s = [kind |-> "sweep", holding |-> holding, done |-> done, hub |-> r.hub,
             rest |-> rest, steady |-> r.steady, before |-> r.before]
    <2>1. s = [r EXCEPT !.holding = holding, !.done = done, !.rest = rest]
      BY DEF InSweep
    <2>2. r = [kind |-> "sweep", holding |-> r.holding, done |-> r.done, hub |-> r.hub,
               rest |-> r.rest, steady |-> r.steady, before |-> r.before]
      BY DEF IsSweep
    <2> HIDE DEF s, holding, done
    <2> QED BY <2>1, <2>2, SweepExcept
  <1> HIDE DEF s, done
  <1>2. /\ s.kind = "sweep" /\ s.holding = holding /\ s.hub = r.hub /\ s.rest = rest
        /\ s.done = done /\ s.steady = r.steady /\ s.before = r.before
    BY <1>1
  <1>3. IsSweep(s)
    BY <1>1, <1>2 DEF IsSweep
  <1>4. Honest(s)
    BY <1>2, <1>3 DEF Honest
  <1> QED BY <1>4 DEF s

LEMMA SweepKeeps ==
    ASSUME ClusterInv, NEW r \in pending, SweepBegin(r) \/ SweepStep(r)
    PROVE  ClusterInv'
  <1>0. Shape /\ MapCurrent /\ LogsKin /\ Requests
    BY DEF ClusterInv
  <1>1. /\ r.kind = "sweep" /\ IsSweep(r)
        /\ r.rest # {} => r.holding /\ r.hub \in Mapped /\ r.hub \notin r.rest
        /\ \A p \in r.rest : p \in Mapped /\ Online(p)
    BY <1>0 DEF Requests, Honest, SweepBegin, SweepStep
  <1>2. CASE SweepBegin(r)
    <2> DEFINE rest == {p \in Mapped \ {r.hub} : Online(p)}
    <2>1. r.hub \in Mapped => Honest(InSweep(r, rest))
      BY <1>1, InSweepHonest
    <2> HIDE DEF rest
    <2>2. /\ \/ r.hub \in Mapped /\ pending' = (pending \ {r}) \cup {InSweep(r, rest)}
             \/ pending' = pending \ {r}
          /\ UNCHANGED <<cluster, flag, log>>
      BY <1>2 DEF SweepBegin, Becomes, Reply, rest
    <2> QED BY <2>1, <2>2, QuietKeeps
  <1>3. CASE SweepStep(r)
    <2>1. PICK p \in r.rest : /\ Exchange(EngineOf(r.hub), EngineOf(p))
                              /\ Becomes(r, InSweep(r, r.rest \ {p}))
      BY <1>3 DEF SweepStep
    <2>2. Kin(EngineOf(r.hub), EngineOf(p))
      BY <1>0, <1>1, <2>1, MappedKin
    <2>3. Honest(InSweep(r, r.rest \ {p}))
      BY <1>1, InSweepHonest
    <2>4. /\ pending' = (pending \ {r}) \cup {InSweep(r, r.rest \ {p})}
          /\ UNCHANGED <<cluster, flag>>
      BY <1>3, <2>1 DEF SweepStep, Becomes
    <2> QED BY <2>1, <2>2, <2>3, <2>4, ExchangingKeeps
  <1> QED BY <1>2, <1>3
\* Requests that are served touch the engines they hold, which are kin.
LEMMA ServeKeeps ==
    ASSUME ClusterInv, NEW r \in pending, Serve(r)
    PROVE  ClusterInv'
  <1>0. MapCurrent /\ Honest(r)
    BY DEF ClusterInv, Requests
  <1>1. CASE ExecRun(r)
    <2>1. Opened(r.engine)
      BY <1>0, <1>1 DEF Honest, ExecRun
    <2> QED BY <1>1, <2>1, RunKeeps DEF ExecRun, Reply
  <1>2. CASE SyncPairRun(r)
    <2>1. CASE UNCHANGED log
      BY <1>2, <2>1, QuietKeeps DEF SyncPairRun, Reply
    <2>2. CASE r.peers \subseteq Mapped /\ ExchangePair({EngineOf(p) : p \in r.peers})
      <3>1. PICK p \in r.peers, q \in r.peers : Exchange(EngineOf(p), EngineOf(q))
        BY <2>2 DEF ExchangePair
      <3>2. Kin(EngineOf(p), EngineOf(q))
        BY <1>0, <2>2, MappedKin
      <3> QED BY <1>2, <3>1, <3>2, ExchangingKeeps DEF SyncPairRun, Reply
    <2> QED BY <1>2, <2>1, <2>2 DEF SyncPairRun
  <1>3. CASE BootstrapRun(r)
    <2>1. Kin(r.dst, r.src) /\ UNCHANGED <<cluster, flag>>
      BY <1>0, <1>3 DEF Honest, BootstrapRun
    <2>2. log' = [log EXCEPT ![r.dst] = @ \cup Missing(r.src, r.dst)]
      BY <1>3 DEF BootstrapRun
    <2>3. Shape'
      BY <2>1, <2>2 DEF ClusterInv, Shape, cluster
    <2>4. LogsKin'
      <3>1. \A g, h : Kin(g, h)' <=> Kin(g, h)
        BY <2>1 DEF Kin, Opened, cluster
      <3>2. r.dst \in Engine /\ r.src \in Engine
        BY <2>1 DEF Kin, Opened
      <3> SUFFICES ASSUME NEW g \in Engine, NEW o \in log'[g] PROVE Kin(Maker(o), g)
        BY <3>1 DEF LogsKin, Maker
      <3>3. CASE o \in log[g]
        BY <3>3 DEF ClusterInv, LogsKin
      <3>4. CASE o \notin log[g]
        <4>1. g = r.dst /\ o \in log[r.src]
          BY <3>2, <3>4, <2>2 DEF ClusterInv, Shape, Missing
        <4> QED BY <4>1, <3>2, <2>1 DEF ClusterInv, LogsKin, Kin
      <3> QED BY <3>3, <3>4
    <2>5. MapCurrent' /\ Requests'
      BY <1>3, <2>1, HonestStays DEF ClusterInv, Requests, BootstrapRun, Reply
    <2> QED BY <2>3, <2>4, <2>5 DEF ClusterInv
  <1>4. CASE ScenarioRun(r)
    <2>1. PICK e \in r.engines : Run(e)
      BY <1>4 DEF ScenarioRun
    <2>2. Opened(e)
      BY <1>0, <1>4 DEF Honest, ScenarioRun, Kin
    <2> QED BY <1>4, <2>1, <2>2, RunKeeps DEF ScenarioRun
  <1>5. CASE ScenarioSync(r)
    <2>1. PICK e \in r.engines, f \in r.engines : Exchange(e, f)
      BY <1>5 DEF ScenarioSync, ExchangePair
    <2>2. Kin(e, f)
      BY <1>0, <1>5 DEF Honest, ScenarioSync
    <2> QED BY <1>5, <2>1, <2>2, ExchangingKeeps DEF ScenarioSync, Reply
  <1>6. CASE RoundBegin(r) \/ RoundLook(r) \/ RoundSync(r)
    BY <1>6, RoundKeeps
  <1>7. CASE SweepBegin(r) \/ SweepStep(r)
    BY <1>7, SweepKeeps
  <1>8. CASE Answer(r)
    BY <1>8, QuietKeeps DEF Answer, Reply
  <1> QED BY <1>1, <1>2, <1>3, <1>4, <1>5, <1>6, <1>7, <1>8 DEF Serve

LEMMA NextClusterInv == ClusterInv /\ [Next]_vars => ClusterInv'
  <1> SUFFICES ASSUME ClusterInv, [Next]_vars PROVE ClusterInv'
    OBVIOUS
  <1>1. ASSUME NEW p \in Peer, ExecPeer(p) \/ SyncPeerById(p) PROVE ClusterInv'
    BY <1>1, AcceptKeeps
  <1>2. ASSUME NEW p \in Peer, Disconnect(p) \/ Connect(p) PROVE ClusterInv'
    BY <1>2, FlagKeeps
  <1>3. ASSUME NEW p \in Peer, AddPeer(p) \/ RemovePeer(p) PROVE ClusterInv'
    BY <1>3, MembershipKeeps
  <1>4. ASSUME NEW p \in Peer, NEW q \in Peer,
               SyncPair(p, q) \/ BootstrapPeer(p, q) \/ Scenario(p, q)
        PROVE  ClusterInv'
    BY <1>4, AcceptKeeps
  <1>5. CASE SyncAllPeers \/ ResetCluster
    BY <1>5, AcceptKeeps, MembershipKeeps, BoundsAssumption
  <1>6. ASSUME NEW r \in pending, Serve(r) PROVE ClusterInv'
    BY <1>6, ServeKeeps
  <1>7. CASE UNCHANGED vars
    <2>1. UNCHANGED <<cluster, flag, log, pending>>
      BY <1>7 DEF vars
    <2> QED BY <2>1, QuietKeeps
  <1> QED BY <1>1, <1>2, <1>3, <1>4, <1>5, <1>6, <1>7 DEF Next

\* Nothing executed before a reset of the cluster is in the log of a peer
\* after it, whatever the requests that hold the old engines still do.
THEOREM NothingOutlivesReset == Spec => []ResetIsolates
  <1>1. ClusterInv => ResetIsolates
    <2> SUFFICES ASSUME ClusterInv, NEW p \in Mapped, NEW o \in log[EngineOf(p)]
                 PROVE  birth[Maker(o)].resets = resets
      BY DEF ResetIsolates, Maker
    <2>1. EngineOf(p) \in Engine
      BY MappedEngines DEF ClusterInv
    <2>2. Kin(Maker(o), EngineOf(p)) /\ birth[EngineOf(p)].resets = resets
      BY <2>1 DEF ClusterInv, LogsKin, MapCurrent
    <2> QED BY <2>2 DEF Kin
  <1> QED BY <1>1, InitClusterInv, NextClusterInv, PTL DEF Spec
-----------------------------------------------------------------------------
(* Which peers a request has seen online.                                  *)

\* A request has seen the peers it was let through for, and a round those
\* whose flags it has passed, and has had the chance to see all that are online.
Noticed(r) ==
    /\ r.kind = "pair" => r.peers \subseteq r.seen
    /\ r.kind = "scenario" => \A e \in r.engines : e[1] \in r.seen
    /\ r.kind = "all" => \A i \in 1..r.passed : r.keys[r.at[i]][1] \in r.seen
    /\ r.kind = "all" /\ r.holding =>
            \A k \in 1..Len(r.keys) :
                /\ r.keys[k][1] \in Mapped
                /\ Online(r.keys[k][1]) => r.keys[k][1] \in r.seen

SeenInv == \A r \in pending : Noticed(r)

LEMMA NoticedThrough ==
    ASSUME NEW r, Noticed(r),
           \/ UNCHANGED <<map, flag>>
           \/ r.kind = "all" => ~r.holding
           \/ UNCHANGED map /\ \A p \in Mapped : Online(p)' => Online(p)
    PROVE  Noticed(r)'
  BY DEF Noticed, Mapped, Online

\* A step that leaves the map and the flags alone keeps what was seen if the
\* requests it adds have seen what they ought to.
LEMMA QuietSeen ==
    ASSUME SeenInv, UNCHANGED <<map, flag>>,
           \A r \in pending' : r \in pending \/ Noticed(r)
    PROVE  SeenInv'
  BY NoticedThrough DEF SeenInv

\* Without changes nothing that Noticed speaks of.
LEMMA WithoutNoticed ==
    ASSUME NEW ps, Requests, SeenInv, NEW s \in Without(pending, ps)
    PROVE  /\ Noticed(s)
           /\ s.kind = "all" => \E r \in pending : r.kind = "all" /\ s.holding = r.holding
  <1>1. PICK r \in pending :
            s = IF r.kind \in {"all", "sweep"} THEN [r EXCEPT !.steady = @ \ ps] ELSE r
    BY DEF Without
  <1>2. CASE r.kind = "all"
    <2>1. IsAll(r)
      BY <1>2 DEF Requests, Honest
    <2>2. s = AllOf(r.holding, r.rounds, r.keys, r.at, r.passed, r.seen, r.steady \ ps, r.before)
      BY <2>1, <1>1, <1>2 DEF IsAll, AllOf
    <2>3. /\ s.kind = "all" /\ s.holding = r.holding /\ s.keys = r.keys /\ s.at = r.at
          /\ s.passed = r.passed /\ s.seen = r.seen
      BY <2>2 DEF AllOf
    <2> QED BY <1>2, <2>3 DEF SeenInv, Noticed
  <1>3. CASE r.kind = "sweep"
    <2>1. IsSweep(r)
      BY <1>3 DEF Requests, Honest
    <2>2. s.kind = "sweep"
      BY <2>1, <1>1, <1>3 DEF IsSweep
    <2> QED BY <2>2 DEF Noticed
  <1>4. CASE r.kind \notin {"all", "sweep"}
    BY <1>1, <1>4 DEF SeenInv
  <1> QED BY <1>2, <1>3, <1>4

\* A round that moves on has seen the peers that are online by now.
LEMMA InRoundNoticed ==
    ASSUME NEW r, IsAll(r), NEW n, NEW keys, NEW at,
           \A k \in 1..Len(keys) : keys[k][1] \in Mapped
    PROVE  Noticed(InRound(r, n, keys, at))
  <1> DEFINE holding == at[2] <= Len(keys)
             s == InRound(r, n, keys, at)
  <1>1. s = AllOf(holding, n, IF holding THEN keys ELSE <<>>, IF holding THEN at ELSE <<1, 2>>,
                  0, IF holding THEN Steady ELSE {}, r.steady, r.before)
    BY InRoundIs
  <1> HIDE DEF s, holding
  <1>2. s.kind = "all" /\ s.holding = holding /\ s.passed = 0
    BY <1>1 DEF AllOf
  <1>3. holding => s.keys = keys /\ s.seen = Steady
    BY <1>1 DEF AllOf
  <1>4. Noticed(s)
    BY <1>2, <1>3 DEF Noticed, Steady
  <1> QED BY <1>4 DEF s

LEMMA RoundSeen ==
    ASSUME ClusterInv, SeenInv, NEW r \in pending, RoundBegin(r) \/ RoundLook(r) \/ RoundSync(r)
    PROVE  SeenInv'
  <1>0. Shape /\ Honest(r) /\ Noticed(r)
    BY DEF ClusterInv, Requests, SeenInv
  <1>1. r.kind = "all" /\ IsAll(r) /\ AtPair(r)
    BY <1>0 DEF Honest, RoundBegin, RoundLook, RoundSync
  <1>2. UNCHANGED <<map, flag>>
    BY DEF RoundBegin, RoundLook, RoundSync, cluster
  <1>3. CASE RoundBegin(r)
    <2>1. PICK keys \in SetToSeqs({EngineOf(p) : p \in Mapped}) :
              Becomes(r, InRound(r, r.rounds - 1, keys, <<1, 2>>))
      BY <1>3 DEF RoundBegin
    <2>2. \A k \in 1..Len(keys) : \E p \in Mapped : keys[k] = EngineOf(p)
      BY <1>0, KeysOfMap
    <2>3. \A k \in 1..Len(keys) : keys[k][1] \in Mapped
      BY <2>2 DEF EngineOf
    <2>4. Noticed(InRound(r, r.rounds - 1, keys, <<1, 2>>))
      BY <1>1, <2>3, InRoundNoticed
    <2> QED BY <1>2, <2>1, <2>4, QuietSeen DEF Becomes
  <1>4. CASE r.holding /\ Skip(r)
    <2>1. \A k \in 1..Len(r.keys) : r.keys[k][1] \in Mapped
      BY <1>0, <1>1, <1>4 DEF Noticed
    <2>2. Noticed(InRound(r, r.rounds, r.keys, NextPair(Len(r.keys), r.at)))
      BY <1>1, <2>1, InRoundNoticed
    <2> QED BY <1>2, <1>4, <2>2, QuietSeen DEF Skip, Becomes
  <1>5. CASE RoundLook(r) /\ Pass(r) /\ Online(r.keys[r.at[r.passed + 1]][1])
    <2> DEFINE s == [r EXCEPT !.passed = @ + 1]
    <2>1. SamePlace(r, s) /\ s.passed = r.passed + 1 /\ s.seen = r.seen
      BY <1>1, PassIs
    <2>2. pending' = (pending \ {r}) \cup {s}
      BY <1>5 DEF Pass, Becomes
    <2> HIDE DEF s
    <2>3. s.kind = "all" /\ s.holding = r.holding /\ s.keys = r.keys /\ s.at = r.at
      BY <2>1 DEF SamePlace, AllOf
    <2>4. r.holding /\ r.passed \in 0..1
      BY <1>1, <1>5 DEF RoundLook, AtPair
    <2>5. r.at[r.passed + 1] \in 1..Len(r.keys)
      <3>1. /\ r.at[1] \in Nat /\ r.at[2] \in Nat /\ Len(r.keys) \in Nat
            /\ 1 <= r.at[1] /\ r.at[1] < r.at[2] /\ r.at[2] <= Len(r.keys)
        BY <1>1, <2>4 DEF AtPair
      <3>2. r.passed + 1 = 1 \/ r.passed + 1 = 2
        BY <2>4
      <3> QED BY <3>1, <3>2
    <2>6. r.keys[r.at[r.passed + 1]][1] \in r.seen
      BY <1>0, <1>1, <1>5, <2>4, <2>5 DEF Noticed
    <2>7. \A i \in 1..s.passed : i \in 1..r.passed \/ i = r.passed + 1
      BY <2>1, <2>4
    <2>8. \A i \in 1..s.passed : s.keys[s.at[i]][1] \in s.seen
      BY <1>0, <1>1, <2>1, <2>3, <2>6, <2>7 DEF Noticed
    <2>9. Noticed(s)
      BY <1>0, <1>1, <2>1, <2>3, <2>8 DEF Noticed
    <2> QED BY <1>2, <2>2, <2>9, QuietSeen
  <1> QED BY <1>3, <1>4, <1>5 DEF RoundLook, RoundSync

LEMMA InitSeenInv == Init => SeenInv
  BY DEF Init, SeenInv

LEMMA NextSeenInv == ClusterInv /\ SeenInv /\ [Next]_vars => SeenInv'
  <1> SUFFICES ASSUME ClusterInv, SeenInv, [Next]_vars PROVE SeenInv'
    OBVIOUS
  <1>0. Requests
    BY DEF ClusterInv
  <1>1. ASSUME NEW r \in pending, Serve(r) PROVE SeenInv'
    <2>1. CASE RoundBegin(r) \/ RoundLook(r) \/ RoundSync(r)
      BY <2>1, RoundSeen
    <2>2. CASE SweepBegin(r) \/ SweepStep(r)
      <3>1. r.kind = "sweep" /\ IsSweep(r) /\ UNCHANGED <<map, flag>>
        BY <1>0, <2>2 DEF Requests, Honest, SweepBegin, SweepStep, cluster
      <3>2. \A rest : InSweep(r, rest).kind = "sweep"
        BY <3>1 DEF InSweep, IsSweep
      <3>3. \A rest : Noticed(InSweep(r, rest))
        BY <3>2 DEF Noticed
      <3> QED BY <2>2, <3>1, <3>3, QuietSeen DEF SweepBegin, SweepStep, Becomes, Reply
    <2>3. CASE UNCHANGED <<map, flag>> /\ pending' \subseteq pending
      BY <2>3, QuietSeen
    <2> QED BY <1>1, <2>1, <2>2, <2>3
            DEF Serve, ExecRun, SyncPairRun, BootstrapRun, ScenarioRun, ScenarioSync, Answer,
                Reply, cluster
  <1>2. ASSUME NEW p \in Peer, AddPeer(p) PROVE SeenInv'
    BY <1>2, NoticedThrough DEF AddPeer, PeersFree, SeenInv
  <1>3. ASSUME NEW p \in Peer, RemovePeer(p) PROVE SeenInv'
    <2>1. \A s \in pending' : Noticed(s) /\ (s.kind = "all" => ~s.holding)
      BY <1>0, <1>3, WithoutNoticed DEF RemovePeer, PeersFree
    <2> QED BY <2>1, NoticedThrough DEF SeenInv
  <1>4. CASE ResetCluster
    <2>1. \A s \in pending' : Noticed(s) /\ (s.kind = "all" => ~s.holding)
      BY <1>0, <1>4, WithoutNoticed DEF ResetCluster, PeersFree
    <2> QED BY <2>1, NoticedThrough DEF SeenInv
  <1>5. ASSUME NEW p \in Peer, Disconnect(p) PROVE SeenInv'
    <2>1. \A s \in pending' : Noticed(s)
      BY <1>0, <1>5, WithoutNoticed DEF Disconnect
    <2>2. flag' = [flag EXCEPT ![p] = "offline"] /\ UNCHANGED map
      BY <1>5 DEF Disconnect, cluster
    <2>3. \A q \in Mapped : Online(q)' => Online(q)
      BY <2>2 DEF Online, ClusterInv, Shape, Mapped
    <2> QED BY <2>1, <2>2, <2>3, NoticedThrough DEF SeenInv
  <1>6. ASSUME NEW p \in Peer, Connect(p) PROVE SeenInv'
    <2>1. /\ pending' = Finding(pending, p) \cup {Sweep(p)}
          /\ flag' = [flag EXCEPT ![p] = "online"] /\ UNCHANGED map
      BY <1>6 DEF Connect, cluster
    <2>2. \A q \in Mapped : Online(q)' => Online(q) \/ q = p
      BY <2>1 DEF Online, ClusterInv, Shape, Mapped
    <2>3. ASSUME NEW s, s = Sweep(p) PROVE Noticed(s)'
      BY <2>3 DEF Noticed, Sweep
    <2>4. ASSUME NEW s \in Finding(pending, p) PROVE Noticed(s)'
      <3>1. PICK r \in pending :
              \/ s = r /\ ~(r.kind = "all" /\ r.holding)
              \/ /\ r.kind = "all" /\ r.holding /\ SamePlace(r, s)
                 /\ s.passed = r.passed /\ s.steady = r.steady /\ s.seen = r.seen \cup {p}
        BY <1>0, FindingSame
      <3>2. Noticed(r)
        BY DEF SeenInv
      <3>3. CASE s = r /\ ~(r.kind = "all" /\ r.holding)
        BY <3>2, <3>3, NoticedThrough
      <3>4. CASE /\ r.kind = "all" /\ r.holding /\ SamePlace(r, s)
                 /\ s.passed = r.passed /\ s.seen = r.seen \cup {p}
        <4>1. s.kind = "all" /\ s.keys = r.keys /\ s.at = r.at
          BY <3>4 DEF SamePlace, AllOf
        <4>2. \A q \in Mapped' : q \in Mapped /\ (Online(q)' => Online(q) \/ q = p)
          BY <2>1, <2>2 DEF Mapped
        <4>3. \A i \in 1..s.passed : s.keys[s.at[i]][1] \in s.seen
          BY <3>2, <3>4, <4>1 DEF Noticed
        <4>4. \A k \in 1..Len(s.keys) : /\ s.keys[k][1] \in Mapped'
                                        /\ Online(s.keys[k][1])' => s.keys[k][1] \in s.seen
          BY <2>1, <3>2, <3>4, <4>1, <4>2 DEF Noticed, Mapped
        <4> QED BY <4>1, <4>3, <4>4 DEF Noticed
      <3> QED BY <3>1, <3>3, <3>4
    <2> QED BY <2>1, <2>3, <2>4 DEF SeenInv
  <1>7. ASSUME NEW p \in Peer, NEW q \in Peer,
               ExecPeer(p) \/ BootstrapPeer(p, q) \/ SyncPair(p, q) \/ Scenario(p, q)
        PROVE  SeenInv'
    <2>1. UNCHANGED <<map, flag>>
      BY <1>7 DEF ExecPeer, BootstrapPeer, SyncPair, Scenario, cluster
    <2>2. \A s \in pending' : s \in pending \/ Noticed(s)
      BY <1>7 DEF ExecPeer, BootstrapPeer, SyncPair, Scenario, Accept, Noticed, Steady, EngineOf
    <2> QED BY <2>1, <2>2, QuietSeen
  <1>8. ASSUME NEW p \in Peer, SyncPeerById(p) PROVE SeenInv'
    BY <1>8, QuietSeen DEF SyncPeerById, Accept, Noticed, Sweep, cluster
  <1>9. CASE SyncAllPeers
    <2>1. UNCHANGED <<map, flag>>
      BY <1>9 DEF SyncAllPeers, cluster
    <2>2. \A s \in pending' : s \in pending \/ Noticed(s)
      BY <1>9 DEF SyncAllPeers, Accept, Noticed
    <2> QED BY <2>1, <2>2, QuietSeen
  <1>10. CASE UNCHANGED vars
    BY <1>10, QuietSeen DEF vars, cluster
  <1> QED BY <1>1, <1>2, <1>3, <1>4, <1>5, <1>6, <1>7, <1>8, <1>9, <1>10 DEF Next

-----------------------------------------------------------------------------
(* What an offline peer receives.                                          *)

\* What a step adds to the log of peer p is its own or was let through.
Explained(p) ==
    \A o \in log'[EngineOf(p)] \ log[EngineOf(p)] :
        \/ <<o.hlc.peer, o.by>> = EngineOf(p)
        \/ \E r \in pending : MayReach(r, p)

LEMMA ExchangeReaches ==
    ASSUME Shape, NEW e \in Engine, NEW f \in Engine, Exchange(e, f),
           NEW g \in Engine, log'[g] # log[g]
    PROVE  g = e \/ g = f
  BY DEF Exchange, Shape

LEMMA ServeExplains ==
    ASSUME ClusterInv, SeenInv, NEW r \in pending, Serve(r), NEW p \in Mapped, ~Online(p)
    PROVE  Explained(p)
  <1>0. MapCurrent /\ Honest(r) /\ Shape /\ EngineOf(p) \in Engine
    BY MappedEngines DEF ClusterInv, Requests
  <1>1. CASE UNCHANGED log
    BY <1>1 DEF Explained
  <1>2. CASE ExecRun(r) \/ ScenarioRun(r)
    <2>1. PICK e : Run(e) /\ Opened(e)
      BY <1>0, <1>2 DEF ExecRun, ScenarioRun, Honest, Kin
    <2>2. e \in Engine
      BY <2>1 DEF Opened
    <2>3. CASE e = EngineOf(p)
      BY <1>0, <2>1, <2>2, <2>3, RunLogs DEF Explained, Maker
    <2>4. CASE e # EngineOf(p)
      BY <1>0, <2>1, <2>2, <2>4, RunLogs DEF Explained
    <2> QED BY <2>3, <2>4
  <1>3. CASE MayReach(r, p)
    BY <1>3 DEF Explained
  <1>4. CASE SyncPairRun(r) /\ log' # log
    <2>1. r.kind = "pair" /\ r.peers \subseteq Mapped
      BY <1>4 DEF SyncPairRun
    <2>2. PICK q \in r.peers, s \in r.peers : Exchange(EngineOf(q), EngineOf(s))
      BY <1>4 DEF SyncPairRun, ExchangePair
    <2>3. EngineOf(q) \in Engine /\ EngineOf(s) \in Engine
      BY <1>0, <2>1, MappedEngines
    <2>4. CASE p \notin r.peers
      <3>1. EngineOf(p) # EngineOf(q) /\ EngineOf(p) # EngineOf(s)
        BY <2>4 DEF EngineOf
      <3> QED BY <1>0, <2>2, <2>3, <3>1, ExchangeReaches DEF Explained
    <2>5. CASE p \in r.peers
      BY <1>3, <2>1, <2>5 DEF MayReach, SeenInv, Noticed
    <2> QED BY <2>4, <2>5
  <1>5. CASE BootstrapRun(r)
    <2>1. Kin(r.dst, r.src) /\ r.kind = "bootstrap"
      BY <1>0, <1>5 DEF Honest, BootstrapRun
    <2>2. log' = [log EXCEPT ![r.dst] = @ \cup Missing(r.src, r.dst)]
      BY <1>5 DEF BootstrapRun
    <2>3. CASE r.dst = EngineOf(p)
      BY <1>3, <2>1, <2>3 DEF MayReach, EngineOf
    <2>4. CASE r.dst # EngineOf(p)
      BY <1>0, <2>2, <2>4 DEF Explained, Shape
    <2> QED BY <2>3, <2>4
  <1>6. CASE ScenarioSync(r)
    <2>1. PICK e \in r.engines, f \in r.engines : Exchange(e, f)
      BY <1>6 DEF ScenarioSync, ExchangePair
    <2>2. Kin(e, f) /\ r.kind = "scenario"
      BY <1>0, <1>6 DEF Honest, ScenarioSync
    <2>3. CASE EngineOf(p) \in r.engines
      BY <1>3, <2>2, <2>3 DEF MayReach, EngineOf, SeenInv, Noticed
    <2>4. CASE EngineOf(p) \notin r.engines
      BY <1>0, <2>1, <2>2, <2>4, ExchangeReaches DEF Explained, Kin, Opened
    <2> QED BY <2>3, <2>4
  <1>7. CASE RoundSync(r)
    <2>1. r.kind = "all" /\ \A e \in PairAt(r) : e \in Engine /\ e[1] \in r.seen
      BY <1>0, <1>7 DEF RoundSync, PairAt, Honest, AtPair, SeenInv, Noticed
    <2>2. PICK e \in PairAt(r), f \in PairAt(r) : Exchange(e, f)
      BY <1>7 DEF RoundSync, ExchangePair
    <2>3. CASE EngineOf(p) \in PairAt(r)
      BY <1>3, <2>1, <2>3 DEF MayReach, EngineOf
    <2>4. CASE EngineOf(p) \notin PairAt(r)
      BY <1>0, <2>1, <2>2, <2>4, ExchangeReaches DEF Explained
    <2> QED BY <2>3, <2>4
  <1>8. CASE SweepStep(r)
    <2>1. PICK q \in r.rest : Exchange(EngineOf(r.hub), EngineOf(q))
      BY <1>8 DEF SweepStep
    <2>2. r.kind = "sweep" /\ r.hub \in Mapped /\ q \in Mapped /\ Online(q)
      BY <1>0, <1>8, <2>1 DEF Honest, SweepStep
    <2>3. CASE r.hub = p
      BY <1>3, <2>2, <2>3 DEF MayReach
    <2>4. CASE r.hub # p
      <3>1. EngineOf(p) # EngineOf(r.hub) /\ EngineOf(p) # EngineOf(q)
        BY <2>2, <2>4 DEF EngineOf
      <3>2. EngineOf(r.hub) \in Engine /\ EngineOf(q) \in Engine
        BY <1>0, <2>2, MappedEngines
      <3> QED BY <1>0, <2>1, <3>1, <3>2, ExchangeReaches DEF Explained
    <2> QED BY <2>3, <2>4
  <1> QED BY <1>1, <1>2, <1>4, <1>5, <1>6, <1>7, <1>8
          DEF Serve, RoundBegin, RoundLook, SweepBegin, Answer

\* A peer that is offline receives operations of others only from requests
\* that could see it online, bootstraps, and sweeps of its own.
THEOREM OfflineReceivesWhatWasLetThrough == Spec => OfflineReceives
  <1>1. ASSUME ClusterInv, SeenInv, [Next]_vars
        PROVE  \A p \in Mapped : ~Online(p) /\ map'[p] = map[p] => Explained(p)
    <2> SUFFICES ASSUME NEW p \in Mapped, ~Online(p) PROVE Explained(p)
      OBVIOUS
    <2>1. CASE \E r \in pending : Serve(r)
      BY <1>1, <2>1, ServeExplains
    <2>2. CASE UNCHANGED log
      BY <2>2 DEF Explained
    <2> QED
      BY <1>1, <2>1, <2>2
         DEF Next, ExecPeer, Disconnect, Connect, SyncPeerById, AddPeer, RemovePeer,
             SyncPair, BootstrapPeer, Scenario, SyncAllPeers, ResetCluster, vars
  <1> QED BY <1>1, InitClusterInv, NextClusterInv, InitSeenInv, NextSeenInv, PTL
          DEF Spec, OfflineReceives, Explained

-----------------------------------------------------------------------------
(* When two operations may share a timestamp.                              *)

IsClock(c) == c.wall \in Nat /\ c.logical \in Nat

\* The operations some engine has in its log.
Executed == UNION {log[e] : e \in Engine}

\* Operation o was stamped no later than where the clock of its engine is, and
\* than where that was when a later engine of the name was opened, unless the
\* operation is later than that.
Dated(o) ==
    /\ IsClock(o.hlc) /\ ~Earlier(clock[Maker(o)], o.hlc)
    /\ \A f : Opened(f) /\ f[1] = o.hlc.peer /\ o.by < f[2] =>
            o.late \/ o.hlc.wall <= birth[f].past[o.by]

DatesInv ==
    /\ birth = [e \in Engine |-> birth[e]]
    /\ clock = [e \in Engine |-> clock[e]]
    /\ \A e \in Engine : IsClock(clock[e])
    /\ \A o \in Executed : Dated(o)
    /\ \A o, u \in Executed : Maker(o) = Maker(u) /\ o.hlc = u.hlc => o = u

LEMMA TickAdvances ==
    ASSUME NEW c, IsClock(c), NEW w \in Nat
    PROVE  /\ IsClock(TickClock(c, w)) /\ c.wall <= TickClock(c, w).wall
           /\ Earlier(c, TickClock(c, w))
  BY DEF IsClock, TickClock, Earlier

LEMMA ObserveAdvances ==
    ASSUME NEW c, IsClock(c), NEW w \in Nat, NEW p
    PROVE  LET d == ObserveClock(c, Stamp(c, p), w)
           IN  IsClock(d) /\ c.wall <= d.wall /\ Earlier(c, d)
  BY DEF IsClock, ObserveClock, Larger, Stamp, Earlier

\* Earlier is transitive, and no clock is earlier than itself.
LEMMA EarlierOrders ==
    ASSUME NEW c, NEW d, NEW e, IsClock(c), IsClock(d), IsClock(e), Earlier(c, d)
    PROVE  /\ Earlier(d, e) => Earlier(c, e)
           /\ ~Earlier(c, e) => ~Earlier(d, e)
           /\ ~Earlier(d, c) /\ ~Earlier(c, c)
  BY DEF IsClock, Earlier

\* What a statement does: its operation is stamped past all others of the
\* engine, and the clock goes past it.
LEMMA RunStamps ==
    ASSUME Shape, DatesInv, NEW e \in Engine, Run(e)
    PROVE  \E c, op :
                  /\ IsClock(c) /\ Earlier(clock[e], c) /\ op = OpOf(e, c)
                  /\ log' = [log EXCEPT ![e] = @ \cup {op}]
                  /\ IsClock(clock'[e]) /\ Earlier(c, clock'[e])
                  /\ clock' = [g \in Engine |-> clock'[g]]
                  /\ \A g \in Engine : g # e => clock'[g] = clock[g]
  <1>1. PICK s \in Time, t \in Time :
            LET c == TickClock(clock[e], s)
            IN  /\ clock' = [clock EXCEPT ![e] = ObserveClock(c, OpOf(e, c).hlc, t)]
                /\ log' = [log EXCEPT ![e] = @ \cup {OpOf(e, c)}]
    BY DEF Run
  <1> DEFINE c == TickClock(clock[e], s)
  <1>2. s \in Nat /\ t \in Nat
    BY BoundsAssumption DEF Time
  <1>3. IsClock(clock[e])
    BY DEF DatesInv
  <1>4. IsClock(c) /\ Earlier(clock[e], c)
    BY <1>2, <1>3, TickAdvances
  <1>5. OpOf(e, c).hlc = Stamp(c, e[1])
    BY DEF OpOf
  <1> DEFINE d == ObserveClock(c, Stamp(c, e[1]), t)
  <1>6. clock' = [clock EXCEPT ![e] = d] /\ log' = [log EXCEPT ![e] = @ \cup {OpOf(e, c)}]
    BY <1>1, <1>5
  <1> HIDE DEF c
  <1>7. IsClock(d) /\ Earlier(c, d)
    BY <1>2, <1>4, ObserveAdvances
  <1> HIDE DEF d
  <1>8. clock'[e] = d /\ clock' = [g \in Engine |-> clock'[g]]
        /\ \A g \in Engine : g # e => clock'[g] = clock[g]
    BY <1>6 DEF DatesInv
  <1> QED BY <1>4, <1>6, <1>7, <1>8

LEMMA RunKeepsDates ==
    ASSUME ClusterInv, DatesInv, NEW e, Opened(e), Run(e), UNCHANGED cluster
    PROVE  DatesInv'
  <1>0. e \in Engine /\ Shape
    BY DEF Opened, ClusterInv
  <1>1. PICK c, op :
                 /\ IsClock(c) /\ Earlier(clock[e], c) /\ op = OpOf(e, c)
                 /\ log' = [log EXCEPT ![e] = @ \cup {op}]
                 /\ IsClock(clock'[e]) /\ Earlier(c, clock'[e])
                 /\ clock' = [g \in Engine |-> clock'[g]]
                 /\ \A g \in Engine : g # e => clock'[g] = clock[g]
    BY <1>0, RunStamps
  <1>2. op.hlc = Stamp(c, e[1]) /\ op.by = e[2] /\ op.late = (e[2] < made[e[1]])
    BY <1>1 DEF OpOf
  <1>3. op.hlc.wall = c.wall /\ op.hlc.logical = c.logical /\ op.hlc.peer = e[1]
    BY <1>2 DEF Stamp
  <1>4. Maker(op) = e
    BY <1>0, <1>2, <1>3 DEF Maker, Engine
  <1>5. \A o \in Executed' : o \in Executed \/ o = op
    BY <1>0, <1>1 DEF Executed, Shape
  <1>6. \A g \in Engine : IsClock(clock'[g])
    BY <1>1 DEF DatesInv
  <1>7. \A o \in Executed : Maker(o) \in Engine /\ Opened(Maker(o))
    BY DEF Executed, ClusterInv, LogsKin, Kin, Opened
  <1>8. IsClock(clock[e]) /\ Earlier(clock[e], clock'[e])
    <2>1. IsClock(clock[e])
      BY <1>0 DEF DatesInv
    <2> QED BY <1>1, <2>1, EarlierOrders
  <1>9. ASSUME NEW o \in Executed PROVE Dated(o)'
    <2>1. Dated(o) /\ Maker(o) \in Engine
      BY <1>7 DEF DatesInv
    <2>2. ~Earlier(clock'[Maker(o)], o.hlc)
      <3>1. CASE Maker(o) = e
        BY <3>1, <1>1, <1>8, <2>1, EarlierOrders DEF Dated
      <3>2. CASE Maker(o) # e
        BY <3>2, <1>1, <2>1 DEF Dated
      <3> QED BY <3>1, <3>2
    <2>3. birth' = birth /\ \A f : Opened(f)' <=> Opened(f)
      BY DEF cluster, Opened
    <2> QED BY <2>1, <2>2, <2>3 DEF Dated, Maker
  <1>10. Dated(op)'
    <2>1. IsClock(op.hlc)
      BY <1>1, <1>3 DEF IsClock
    <2>2. ~Earlier(clock'[e], op.hlc)
      <3>1. ~Earlier(clock'[e], c)
        BY <1>1, EarlierOrders
      <3> QED BY <1>3, <3>1 DEF Earlier
    <2>3. ASSUME NEW f, Opened(f)', f[1] = op.hlc.peer, op.by < f[2] PROVE op.late
      <3>1. f[2] <= made[e[1]] /\ f[2] \in Nat /\ e[2] \in Nat /\ made[e[1]] \in Nat
        BY <1>0, <1>3, <2>3, BoundsAssumption DEF Opened, cluster, Engine, Shape
      <3>2. e[2] < made[e[1]]
        BY <1>2, <2>3, <3>1
      <3> QED BY <1>2, <3>2, Zenon
    <2> QED BY <1>4, <2>1, <2>2, <2>3 DEF Dated, Maker
  <1>11. ASSUME NEW o \in Executed, Maker(o) = e PROVE o.hlc # op.hlc
    <2>1. ~Earlier(clock[e], o.hlc) /\ IsClock(o.hlc)
      BY <1>11 DEF DatesInv, Dated
    <2>2. Earlier(clock[e], op.hlc)
      BY <1>1, <1>3 DEF Earlier
    <2> QED BY <2>1, <2>2
  <1>12. \A o, u \in Executed' : Maker(o) = Maker(u) /\ o.hlc = u.hlc => o = u
    BY <1>4, <1>5, <1>11 DEF DatesInv
  <1>13. birth' = [g \in Engine |-> birth'[g]]
    BY DEF DatesInv, cluster
  <1>14. \A o \in Executed' : Dated(o)'
    BY <1>5, <1>9, <1>10
  <1> QED BY <1>1, <1>6, <1>12, <1>13, <1>14 DEF DatesInv, Maker

\* A step that executes nothing leaves no operation in a log that was in none.
OnlySpreads == Executed' \subseteq Executed

LEMMA SpreadingKeepsDates ==
    ASSUME ClusterInv, DatesInv, OnlySpreads, UNCHANGED clock,
           \/ UNCHANGED <<birth, made>>
           \/ \E ps \in SUBSET Peer : \E n : Open(ps, n)
    PROVE  DatesInv'
  <1>0. Shape
    BY DEF ClusterInv
  <1>1. birth' = [e \in Engine |-> birth'[e]]
    BY DEF DatesInv, Open
  <1>2. \A o \in Executed : Opened(Maker(o))
    BY DEF Executed, ClusterInv, LogsKin, Kin
  <1>3. ASSUME NEW o \in Executed PROVE Dated(o)'
    <2>1. Dated(o) /\ Opened(Maker(o))
      BY <1>2 DEF DatesInv
    <2>2. ASSUME NEW f, Opened(f)', f[1] = o.hlc.peer, o.by < f[2], ~o.late
          PROVE  o.hlc.wall <= birth'[f].past[o.by]
      <3>1. CASE Opened(f) /\ birth'[f] = birth[f]
        BY <2>1, <2>2, <3>1 DEF Dated
      <3>2. CASE ~(Opened(f) /\ birth'[f] = birth[f])
        <4>1. PICK ps \in SUBSET Peer : \E n : Open(ps, n)
          BY <2>2, <3>2 DEF Opened
        <4>2. /\ f \in Engine /\ f[1] \in Peer /\ f[2] \in Nat /\ made[f[1]] \in Nat
              /\ f[2] <= made'[f[1]]
          BY <1>0, <2>2, BoundsAssumption DEF Opened, Engine, Shape
        <4>3. made'[f[1]] = IF f[1] \in ps THEN made[f[1]] + 1 ELSE made[f[1]]
          BY <4>1, <4>2 DEF Open
        <4>4. f[1] \in ps /\ f[2] = made[f[1]] + 1
          <5>1. f[2] <= made[f[1]] \/ (f[1] \in ps /\ f[2] = made[f[1]] + 1)
            BY <4>2, <4>3
          <5>2. CASE f[2] <= made[f[1]]
            <6>1. ~(f[2] = made[f[1]] + 1)
              BY <4>2, <5>2
            <6>2. birth'[f] = birth[f]
              BY <4>1, <4>2, <6>1 DEF Open
            <6> QED BY <3>2, <4>2, <5>2, <6>2 DEF Opened
          <5> QED BY <5>1, <5>2
        <4>5. birth'[f].past = [g \in 1..made[f[1]] |-> clock[<<f[1], g>>].wall]
          BY <4>1, <4>2, <4>4 DEF Open
        <4>6. o.by \in 1..made[f[1]]
          BY <1>0, <2>1, <2>2, BoundsAssumption DEF Opened, Maker, Engine, Shape
        <4>7. birth'[f].past[o.by] = clock[Maker(o)].wall
          BY <2>2, <4>5, <4>6 DEF Maker
        <4>8. IsClock(clock[Maker(o)]) /\ IsClock(o.hlc) /\ ~Earlier(clock[Maker(o)], o.hlc)
          BY <2>1 DEF DatesInv, Dated, Opened
        <4>9. o.hlc.wall <= clock[Maker(o)].wall
          BY <4>8 DEF IsClock, Earlier
        <4> QED BY <4>7, <4>9
      <3> QED BY <3>1, <3>2
    <2> QED BY <2>1, <2>2 DEF Dated, Maker
  <1>4. Executed' \subseteq Executed
    BY DEF OnlySpreads
  <1>5. \A o \in Executed' : Dated(o)'
    BY <1>3, <1>4
  <1> QED BY <1>1, <1>4, <1>5 DEF DatesInv, Maker

LEMMA ServeSpreads ==
    ASSUME ClusterInv, NEW r \in pending, Serve(r)
    PROVE  /\ UNCHANGED cluster
           /\ \/ \E e : Opened(e) /\ Run(e)
              \/ UNCHANGED clock /\ OnlySpreads
  <1>0. MapCurrent /\ Honest(r) /\ Shape
    BY DEF ClusterInv, Requests
  <1>1. CASE UNCHANGED <<log, clock, cluster>>
    BY <1>1 DEF OnlySpreads, Executed
  <1>2. CASE ExecRun(r) \/ ScenarioRun(r)
    BY <1>0, <1>2 DEF ExecRun, ScenarioRun, Honest, Kin
  <1>3. ASSUME NEW e \in Engine, NEW f \in Engine, Exchange(e, f) PROVE OnlySpreads
    <2>1. \A g \in Engine : log'[g] \subseteq log[g] \cup log[e] \cup log[f]
      BY <1>0, <1>3 DEF Exchange, Missing, Shape
    <2> QED BY <2>1 DEF OnlySpreads, Executed
  <1>4. CASE SyncPairRun(r)
    <2>1. UNCHANGED <<cluster, clock>>
      BY <1>4 DEF SyncPairRun
    <2>2. CASE ExchangePair({EngineOf(p) : p \in r.peers}) /\ r.peers \subseteq Mapped
      <3>1. PICK e \in {EngineOf(p) : p \in r.peers}, f \in {EngineOf(p) : p \in r.peers} :
                Exchange(e, f)
        BY <2>2 DEF ExchangePair
      <3>2. e \in Engine /\ f \in Engine
        BY <1>0, <2>2, MappedEngines
      <3> QED BY <1>3, <2>1, <3>1, <3>2
    <2> QED BY <1>1, <1>4, <2>1, <2>2 DEF SyncPairRun
  <1>5. CASE BootstrapRun(r)
    <2>1. r.dst \in Engine /\ r.src \in Engine
      BY <1>0, <1>5 DEF Honest, BootstrapRun, Kin, Opened
    <2>2. log' = [log EXCEPT ![r.dst] = @ \cup Missing(r.src, r.dst)]
      BY <1>5 DEF BootstrapRun
    <2>3. \A g \in Engine : log'[g] \subseteq log[g] \cup log[r.src]
      BY <1>0, <2>1, <2>2 DEF Missing, Shape
    <2>4. OnlySpreads
      BY <2>1, <2>3 DEF OnlySpreads, Executed
    <2> QED BY <1>5, <2>4 DEF BootstrapRun
  <1>6. CASE ScenarioSync(r)
    <2>1. PICK e \in r.engines, f \in r.engines : Exchange(e, f)
      BY <1>6 DEF ScenarioSync, ExchangePair
    <2>2. e \in Engine /\ f \in Engine
      BY <1>0, <1>6 DEF Honest, ScenarioSync, Kin, Opened
    <2> QED BY <1>3, <1>6, <2>1, <2>2 DEF ScenarioSync
  <1>7. CASE RoundSync(r)
    <2>1. PICK e \in PairAt(r), f \in PairAt(r) : Exchange(e, f)
      BY <1>7 DEF RoundSync, ExchangePair
    <2>2. e \in Engine /\ f \in Engine
      BY <1>0, <1>7 DEF RoundSync, PairAt, Honest, AtPair
    <2> QED BY <1>3, <1>7, <2>1, <2>2 DEF RoundSync
  <1>8. CASE SweepStep(r)
    <2>1. PICK q \in r.rest : Exchange(EngineOf(r.hub), EngineOf(q))
      BY <1>8 DEF SweepStep
    <2>2. r.hub \in Mapped /\ q \in Mapped
      BY <1>0, <1>8, <2>1 DEF Honest, SweepStep
    <2>3. EngineOf(r.hub) \in Engine /\ EngineOf(q) \in Engine
      BY <1>0, <2>2, MappedEngines
    <2> QED BY <1>3, <1>8, <2>1, <2>3 DEF SweepStep
  <1> QED BY <1>1, <1>2, <1>4, <1>5, <1>6, <1>7, <1>8
          DEF Serve, RoundBegin, RoundLook, SweepBegin, Answer

LEMMA InitDatesInv == Init => DatesInv
  BY DEF Init, DatesInv, Executed, IsClock

LEMMA NextDatesInv == ClusterInv /\ DatesInv /\ [Next]_vars => DatesInv'
  <1> SUFFICES ASSUME ClusterInv, DatesInv, [Next]_vars PROVE DatesInv'
    OBVIOUS
  <1>0. UNCHANGED log => OnlySpreads
    BY DEF OnlySpreads, Executed
  <1>1. ASSUME NEW r \in pending, Serve(r) PROVE DatesInv'
    <2>1. CASE \E e : Opened(e) /\ Run(e)
      BY <1>1, <2>1, ServeSpreads, RunKeepsDates
    <2>2. CASE UNCHANGED clock /\ OnlySpreads
      <3>1. UNCHANGED <<birth, made>>
        BY <1>1, ServeSpreads DEF cluster
      <3> QED BY <2>2, <3>1, SpreadingKeepsDates
    <2> QED BY <1>1, <2>1, <2>2, ServeSpreads
  <1>2. ASSUME NEW p \in Peer, AddPeer(p) PROVE DatesInv'
    <2>1. UNCHANGED <<clock, log>> /\ Open({p}, resets)
      BY <1>2 DEF AddPeer
    <2> QED BY <1>0, <2>1, SpreadingKeepsDates
  <1>3. CASE ResetCluster
    <2>1. UNCHANGED <<clock, log>> /\ Open(Peer, resets + 1)
      BY <1>3 DEF ResetCluster
    <2> QED BY <1>0, <2>1, SpreadingKeepsDates
  <1>4. CASE UNCHANGED <<log, clock, birth, made>>
    BY <1>0, <1>4, SpreadingKeepsDates
  <1> QED BY <1>1, <1>2, <1>3, <1>4
          DEF Next, ExecPeer, Disconnect, Connect, SyncPeerById, RemovePeer,
              SyncPair, BootstrapPeer, Scenario, SyncAllPeers, vars, cluster

\* Two operations share a timestamp only if the older of two engines of one
\* name outlived the opening of the other, or the physical clock was not past it
\* when the other executed: however the clock advances, stalls or steps back.
THEOREM StampsReusedOnlyOnReplacement == Spec => []StampsReusedOnReplacement
  <1>1. ClusterInv /\ DatesInv => StampsReusedOnReplacement
    <2> SUFFICES ASSUME ClusterInv, DatesInv, NEW e \in Engine, NEW f \in Engine,
                        NEW o \in log[e], NEW u \in log[f], o # u, o.hlc = u.hlc
                 PROVE  \/ o.by < u.by /\ Outlives(o, u)
                        \/ u.by < o.by /\ Outlives(u, o)
      BY DEF StampsReusedOnReplacement
    <2>1. o \in Executed /\ u \in Executed
      BY DEF Executed
    <2>2. Dated(o) /\ Dated(u) /\ Maker(o) # Maker(u)
      BY <2>1 DEF DatesInv
    <2>3. Opened(Maker(o)) /\ Opened(Maker(u))
      BY DEF ClusterInv, LogsKin, Kin
    <2>4. o.by \in Nat /\ u.by \in Nat /\ o.by # u.by
      BY <2>2, <2>3, BoundsAssumption DEF Opened, Maker, Engine
    <2>5. ASSUME o.by < u.by PROVE Outlives(o, u)
      BY <2>2, <2>3, <2>5 DEF Dated, Outlives, Maker
    <2>6. ASSUME u.by < o.by PROVE Outlives(u, o)
      BY <2>2, <2>3, <2>6 DEF Dated, Outlives, Maker
    <2> QED BY <2>4, <2>5, <2>6
  <1> QED BY <1>1, InitClusterInv, NextClusterInv, InitDatesInv, NextDatesInv, PTL DEF Spec

-----------------------------------------------------------------------------
(* What a synchronisation has reached when it is done.                     *)

\* The timestamps in the log of every peer.
Held == [p \in Peer |-> Stamps(EngineOf(p))]

\* With the logs h, each of p and q holds what the other had before r.
Met(r, p, q, h) == r.before[p] \subseteq h[q] /\ r.before[q] \subseteq h[p]

\* The steady peers of r are where they were, and have what they had.
Steadfast(r, h) ==
    \A p \in r.steady :
        /\ p \in Mapped
        /\ r.before[p] \subseteq h[p]
        /\ Online(p) \/ (r.kind = "sweep" /\ p = r.hub)

\* Every steady peer has a turn in the round over keys.
Placed(r, keys) ==
    \A p \in r.steady : \E i \in 1..Len(keys) : keys[i] = EngineOf(p)

\* The pairs before at have met.
Visited(r, keys, at, h) ==
    \A p, q \in r.steady : \A i, j \in 1..Len(keys) :
        /\ i < j /\ (i < at[1] \/ (i = at[1] /\ j < at[2]))
        /\ keys[i] = EngineOf(p) /\ keys[j] = EngineOf(q)
        => Met(r, p, q, h)

AllReaching(r, h) ==
    /\ r.rounds \in 0..Rounds
    /\ r.holding => r.rounds < Rounds /\ Placed(r, r.keys) /\ Visited(r, r.keys, r.at, h)
    /\ ~r.holding /\ r.rounds < Rounds => \A p, q \in r.steady : Met(r, p, q, h)

SweepReaching(r, h) ==
    /\ r.done => r.rest = {}
    /\ r.hub \in r.steady /\ (r.rest # {} \/ r.done) =>
            \A p \in r.steady \ r.rest : Met(r, p, r.hub, h)

\* How far a synchronisation has come, with the logs h.
Reaching(r, h) ==
    /\ r.kind \in {"all", "sweep"} => Steadfast(r, h)
    /\ r.kind = "all" => AllReaching(r, h)
    /\ r.kind = "sweep" => SweepReaching(r, h)

ReachInv == \A r \in pending : Reaching(r, Held)

\* What has been reached stays reached, since logs only grow.
LEMMA ReachedStays ==
    ASSUME NEW r, NEW h, NEW g, Reaching(r, h), \A p \in Mapped : h[p] \subseteq g[p]
    PROVE  Reaching(r, g)
  <1>1. CASE r.kind \notin {"all", "sweep"}
    BY <1>1 DEF Reaching
  <1>2. CASE r.kind \in {"all", "sweep"}
    <2>1. Steadfast(r, h) /\ r.steady \subseteq Mapped
      BY <1>2 DEF Reaching, Steadfast
    <2>2. Steadfast(r, g)
      BY <2>1 DEF Steadfast
    <2>3. \A p, q \in r.steady : Met(r, p, q, h) => Met(r, p, q, g)
      BY <2>1 DEF Met
    <2>4. r.kind = "all" => AllReaching(r, g)
      BY <2>3 DEF Reaching, AllReaching, Visited
    <2>5. r.kind = "sweep" => SweepReaching(r, g)
      BY <2>3 DEF Reaching, SweepReaching
    <2> QED BY <2>2, <2>4, <2>5 DEF Reaching
  <1> QED BY <1>1, <1>2

\* A request with fewer steady peers, all of them still where they were, has
\* come as far.
LEMMA FewerReached ==
    ASSUME UNCHANGED log, NEW r, Reaching(r, Held), NEW s,
           s.kind = r.kind,
           r.kind \in {"all", "sweep"} =>
              /\ s.holding = r.holding /\ s.before = r.before /\ s.steady \subseteq r.steady
              /\ \A p \in s.steady : /\ p \in Mapped' /\ map'[p] = map[p]
                                     /\ Online(p) => Online(p)',
           r.kind = "all" => s.rounds = r.rounds /\ s.keys = r.keys /\ s.at = r.at,
           r.kind = "sweep" => s.done = r.done /\ s.hub = r.hub /\ s.rest = r.rest
    PROVE  Reaching(s, Held)'
  <1>1. CASE r.kind \notin {"all", "sweep"}
    BY <1>1 DEF Reaching
  <1>2. CASE r.kind \in {"all", "sweep"}
    <2>1. Steadfast(r, Held) /\ r.steady \subseteq Mapped
      BY <1>2 DEF Reaching, Steadfast
    <2>2. \A p \in s.steady : EngineOf(p)' = EngineOf(p) /\ Held'[p] = Held[p]
      <3>1. \A p \in s.steady : p \in Peer /\ EngineOf(p)' = EngineOf(p)
        BY <1>2, <2>1 DEF EngineOf, Mapped
      <3>2. \A e : Stamps(e)' = Stamps(e)
        BY DEF Stamps
      <3> QED BY <3>1, <3>2 DEF Held
    <2>3. Steadfast(s, Held)'
      BY <1>2, <2>1, <2>2 DEF Steadfast
    <2>4. \A p, q \in s.steady : Met(r, p, q, Held) => Met(s, p, q, Held)'
      BY <1>2, <2>2 DEF Met
    <2>5. ASSUME r.kind = "all" PROVE AllReaching(s, Held)'
      <3>1. AllReaching(r, Held) /\ s.steady \subseteq r.steady
        BY <1>2, <2>5 DEF Reaching
      <3>2. Placed(r, r.keys) => Placed(s, s.keys)'
        BY <2>2, <2>5, <3>1 DEF Placed
      <3>3. Visited(r, r.keys, r.at, Held) => Visited(s, s.keys, s.at, Held)'
        BY <2>2, <2>4, <2>5, <3>1 DEF Visited
      <3> QED BY <1>2, <2>4, <2>5, <3>1, <3>2, <3>3 DEF AllReaching
    <2>6. ASSUME r.kind = "sweep" PROVE SweepReaching(s, Held)'
      BY <1>2, <2>4, <2>6 DEF Reaching, SweepReaching
    <2> QED BY <2>3, <2>5, <2>6 DEF Reaching
  <1> QED BY <1>1, <1>2

-----------------------------------------------------------------------------
(* Logs only grow.                                                         *)

Grown == \A e \in Engine : log[e] \subseteq log'[e]

LEMMA ExchangeMeets ==
    ASSUME Shape, NEW e \in Engine, NEW f \in Engine, Exchange(e, f)
    PROVE  /\ Grown
           /\ Stamps(e) \subseteq Stamps(f)' /\ Stamps(f) \subseteq Stamps(e)'
  <1>1. /\ log'[e] = log[e] \cup Missing(f, e) \/ e = f
        /\ log'[f] = log[f] \cup Missing(e, f)
    BY DEF Exchange, Shape
  <1>2. Grown
    BY DEF Exchange, Shape, Grown
  <1>3. Stamps(e) \subseteq Stamps(f)'
    <2> SUFFICES ASSUME NEW o \in log[e] PROVE \E u \in log'[f] : u.hlc = o.hlc
      BY DEF Stamps
    <2>1. CASE o.hlc \in Stamps(f)
      BY <1>1, <2>1 DEF Stamps
    <2>2. CASE o.hlc \notin Stamps(f)
      BY <1>1, <2>2 DEF Missing
    <2> QED BY <2>1, <2>2
  <1>4. Stamps(f) \subseteq Stamps(e)'
    <2> SUFFICES ASSUME NEW o \in log[f] PROVE \E u \in log'[e] : u.hlc = o.hlc
      BY DEF Stamps
    <2>1. CASE o.hlc \in Stamps(e)
      BY <1>2, <2>1 DEF Stamps, Grown
    <2>2. CASE o.hlc \notin Stamps(e)
      BY <1>1, <2>2 DEF Missing, Stamps
    <2> QED BY <2>1, <2>2
  <1> QED BY <1>2, <1>3, <1>4

LEMMA ServeGrows ==
    ASSUME ClusterInv, NEW r \in pending, Serve(r)
    PROVE  Grown /\ UNCHANGED <<cluster, flag>>
  <1>0. MapCurrent /\ Honest(r) /\ Shape
    BY DEF ClusterInv, Requests
  <1>1. CASE UNCHANGED <<log, cluster, flag>>
    BY <1>1 DEF Grown
  <1>2. CASE ExecRun(r) \/ ScenarioRun(r)
    <2>1. PICK e : Run(e) /\ Opened(e)
      BY <1>0, <1>2 DEF ExecRun, ScenarioRun, Honest, Kin
    <2>2. Grown
      BY <1>0, <2>1 DEF Opened, Run, Shape, Grown
    <2> QED BY <1>2, <2>2 DEF ExecRun, ScenarioRun, cluster
  <1>3. CASE SyncPairRun(r)
    <2>1. UNCHANGED <<cluster, flag>>
      BY <1>3 DEF SyncPairRun
    <2>2. CASE ExchangePair({EngineOf(p) : p \in r.peers}) /\ r.peers \subseteq Mapped
      <3>1. PICK e \in {EngineOf(p) : p \in r.peers}, f \in {EngineOf(p) : p \in r.peers} :
                Exchange(e, f)
        BY <2>2 DEF ExchangePair
      <3>2. e \in Engine /\ f \in Engine
        BY <1>0, <2>2, MappedEngines
      <3> QED BY <1>0, <2>1, <3>1, <3>2, ExchangeMeets
    <2> QED BY <1>1, <1>3, <2>1, <2>2 DEF SyncPairRun
  <1>4. CASE BootstrapRun(r)
    <2>1. log' = [log EXCEPT ![r.dst] = @ \cup Missing(r.src, r.dst)]
      BY <1>4 DEF BootstrapRun
    <2>2. Grown
      BY <1>0, <2>1 DEF Shape, Grown
    <2> QED BY <1>4, <2>2 DEF BootstrapRun
  <1>5. CASE ScenarioSync(r)
    <2>1. PICK e \in r.engines, f \in r.engines : Exchange(e, f)
      BY <1>5 DEF ScenarioSync, ExchangePair
    <2>2. e \in Engine /\ f \in Engine
      BY <1>0, <1>5 DEF Honest, ScenarioSync, Kin, Opened
    <2> QED BY <1>0, <1>5, <2>1, <2>2, ExchangeMeets DEF ScenarioSync
  <1>6. CASE RoundSync(r)
    <2>1. PICK e \in PairAt(r), f \in PairAt(r) : Exchange(e, f)
      BY <1>6 DEF RoundSync, ExchangePair
    <2>2. e \in Engine /\ f \in Engine
      BY <1>0, <1>6 DEF RoundSync, PairAt, Honest, AtPair
    <2> QED BY <1>0, <1>6, <2>1, <2>2, ExchangeMeets DEF RoundSync
  <1>7. CASE SweepStep(r)
    <2>1. PICK q \in r.rest : Exchange(EngineOf(r.hub), EngineOf(q))
      BY <1>7 DEF SweepStep
    <2>2. r.hub \in Mapped /\ q \in Mapped
      BY <1>0, <1>7, <2>1 DEF Honest, SweepStep
    <2>3. EngineOf(r.hub) \in Engine /\ EngineOf(q) \in Engine
      BY <1>0, <2>2, MappedEngines
    <2> QED BY <1>0, <1>7, <2>1, <2>3, ExchangeMeets DEF SweepStep
  <1> QED BY <1>1, <1>2, <1>3, <1>4, <1>5, <1>6, <1>7
          DEF Serve, RoundBegin, RoundLook, SweepBegin, Answer, cluster

LEMMA HeldGrows ==
    ASSUME Shape, UNCHANGED cluster, Grown, NEW p \in Mapped
    PROVE  Held[p] \subseteq Held'[p]
  <1>1. EngineOf(p) \in Engine /\ p \in Peer /\ EngineOf(p)' = EngineOf(p)
    BY MappedEngines DEF EngineOf, cluster
  <1>2. Stamps(EngineOf(p)) \subseteq Stamps(EngineOf(p))'
    BY <1>1 DEF Stamps, Grown
  <1> QED BY <1>1, <1>2 DEF Held

\* A step that leaves the map and the flags alone keeps what was reached.
LEMMA GrowingReaches ==
    ASSUME Shape, ReachInv, UNCHANGED <<cluster, flag>>, Grown,
           \A s \in pending' : s \in pending \/ Reaching(s, Held')
    PROVE  ReachInv'
  <1>1. \A p \in Mapped : Held[p] \subseteq Held'[p]
    BY HeldGrows
  <1>2. \A s \in pending' : Reaching(s, Held')
    BY <1>1, ReachedStays DEF ReachInv
  <1>3. ASSUME NEW s, Reaching(s, Held') PROVE Reaching(s, Held)'
    <2> DEFINE h == Held'
    <2>1. Mapped' = Mapped
      BY DEF Mapped, cluster
    <2>2. \A p : Online(p)' = Online(p)
      BY DEF Online
    <2>3. \A p : EngineOf(p)' = EngineOf(p)
      BY DEF EngineOf, cluster
    <2>4. Steadfast(s, Held') => Steadfast(s, Held)'
      BY <2>1, <2>2 DEF Steadfast
    <2>5. AllReaching(s, Held') => AllReaching(s, Held)'
      BY <2>3 DEF AllReaching, Placed, Visited, Met
    <2>6. SweepReaching(s, Held') => SweepReaching(s, Held)'
      BY DEF SweepReaching, Met
    <2> QED BY <1>3, <2>4, <2>5, <2>6 DEF Reaching
  <1> QED BY <1>2, <1>3 DEF ReachInv

-----------------------------------------------------------------------------
(* Steps that change the map or the flags.                                 *)

\* What Without leaves of a request.
LEMMA WithoutFewer ==
    ASSUME NEW ps, Requests, NEW s \in Without(pending, ps)
    PROVE  \E r \in pending :
              /\ s.kind = r.kind
              /\ r.kind \in {"all", "sweep"} =>
                    s.holding = r.holding /\ s.before = r.before /\ s.steady = r.steady \ ps
              /\ r.kind = "all" => s.rounds = r.rounds /\ s.keys = r.keys /\ s.at = r.at
              /\ r.kind = "sweep" => s.done = r.done /\ s.hub = r.hub /\ s.rest = r.rest
  <1>1. PICK r \in pending :
            s = IF r.kind \in {"all", "sweep"} THEN [r EXCEPT !.steady = @ \ ps] ELSE r
    BY DEF Without
  <1>2. CASE r.kind = "all"
    <2>1. IsAll(r)
      BY <1>2 DEF Requests, Honest
    <2>2. s = AllOf(r.holding, r.rounds, r.keys, r.at, r.passed, r.seen, r.steady \ ps, r.before)
      BY <2>1, <1>1, <1>2 DEF IsAll, AllOf
    <2> QED BY <1>2, <2>2 DEF AllOf
  <1>3. CASE r.kind = "sweep"
    <2>1. IsSweep(r)
      BY <1>3 DEF Requests, Honest
    <2>2. s = [kind |-> "sweep", holding |-> r.holding, done |-> r.done, hub |-> r.hub,
               rest |-> r.rest, steady |-> r.steady \ ps, before |-> r.before]
      BY <2>1, <1>1, <1>3 DEF IsSweep
    <2> QED BY <1>3, <2>2
  <1>4. CASE r.kind \notin {"all", "sweep"}
    BY <1>1, <1>4
  <1> QED BY <1>2, <1>3, <1>4

\* Requests keep what they reached when they give up the peers in ps and the
\* others are left alone.
LEMMA GivingUpReaches ==
    ASSUME ClusterInv, ReachInv, UNCHANGED log, NEW ps, pending' = Without(pending, ps),
           \A p \in Mapped \ ps : /\ p \in Mapped' /\ map'[p] = map[p]
                                  /\ Online(p) => Online(p)'
    PROVE  ReachInv'
  <1> SUFFICES ASSUME NEW s \in pending' PROVE Reaching(s, Held)'
    BY DEF ReachInv
  <1>1. PICK r \in pending :
              /\ s.kind = r.kind
              /\ r.kind \in {"all", "sweep"} =>
                    s.holding = r.holding /\ s.before = r.before /\ s.steady = r.steady \ ps
              /\ r.kind = "all" => s.rounds = r.rounds /\ s.keys = r.keys /\ s.at = r.at
              /\ r.kind = "sweep" => s.done = r.done /\ s.hub = r.hub /\ s.rest = r.rest
    BY WithoutFewer DEF ClusterInv
  <1>2. Reaching(r, Held)
    BY DEF ReachInv
  <1>3. r.kind \in {"all", "sweep"} => r.steady \subseteq Mapped
    BY <1>2 DEF Reaching, Steadfast
  <1> QED BY <1>1, <1>2, <1>3, FewerReached

\* So they do when the peers in the map are left alone, or come online.
LEMMA OnlineReaches ==
    ASSUME ReachInv, UNCHANGED log,
           \A p \in Mapped : p \in Mapped' /\ map'[p] = map[p] /\ (Online(p) => Online(p)'),
           \A s \in pending' : s \in pending \/ Reaching(s, Held)
    PROVE  ReachInv'
  <1> SUFFICES ASSUME NEW s \in pending' PROVE Reaching(s, Held)'
    BY DEF ReachInv
  <1>1. Reaching(s, Held)
    BY DEF ReachInv
  <1>2. s.kind \in {"all", "sweep"} => s.steady \subseteq Mapped
    BY <1>1 DEF Reaching, Steadfast
  <1> QED BY <1>1, <1>2, FewerReached

\* A request that has just been accepted has reached nothing yet.
LEMMA NewReaches ==
    ASSUME NEW p \in Peer
    PROVE  /\ Reaching(Sweep(p), Held)
           /\ Reaching([kind |-> "all", holding |-> FALSE, rounds |-> Rounds, keys |-> <<>>,
                        at |-> <<1, 2>>, passed |-> 0, seen |-> {}, steady |-> Steady, before |-> StampsNow], Held)
  <1>1. \A q \in Mapped : q \in Peer /\ StampsNow[q] = Held[q]
    BY DEF StampsNow, Held, Mapped
  <1>2. \A q \in Steady : q \in Mapped /\ Online(q)
    BY DEF Steady
  <1>3. Reaching(Sweep(p), Held)
    <2>1. /\ Sweep(p).kind = "sweep" /\ Sweep(p).hub = p /\ Sweep(p).rest = {}
          /\ Sweep(p).done = FALSE /\ Sweep(p).before = StampsNow
          /\ Sweep(p).steady = Steady \cup ({p} \cap Mapped)
      BY DEF Sweep
    <2> QED BY <1>1, <1>2, <2>1 DEF Reaching, Steadfast, SweepReaching
  <1>4. ASSUME NEW r, r = [kind |-> "all", holding |-> FALSE, rounds |-> Rounds, keys |-> <<>>,
                           at |-> <<1, 2>>, passed |-> 0, seen |-> {}, steady |-> Steady, before |-> StampsNow]
        PROVE  Reaching(r, Held)
    <2>1. /\ r.kind = "all" /\ r.holding = FALSE /\ r.rounds = Rounds
          /\ r.before = StampsNow /\ r.steady = Steady
      BY <1>4
    <2> QED BY <1>1, <1>2, <2>1 DEF Reaching, Steadfast, AllReaching, Rounds
  <1> QED BY <1>3, <1>4

-----------------------------------------------------------------------------
(* Rounds and sweeps.                                                      *)

\* When the last pair of a round has met, all have.
LEMMA RoundOver ==
    ASSUME NEW r, NEW h, NEW keys, NEW i \in Nat, NEW j \in Nat,
           Len(keys) \in Nat, 1 <= i, j = i + 1, ~(j <= Len(keys)),
           Steadfast(r, h), Placed(r, keys), Visited(r, keys, <<i, j>>, h)
    PROVE  \A p, q \in r.steady : Met(r, p, q, h)
  <1> SUFFICES ASSUME NEW p \in r.steady, NEW q \in r.steady PROVE Met(r, p, q, h)
    OBVIOUS
  <1>1. PICK k \in 1..Len(keys) : keys[k] = EngineOf(p)
    BY DEF Placed
  <1>2. PICK l \in 1..Len(keys) : keys[l] = EngineOf(q)
    BY DEF Placed
  <1>3. CASE k = l
    <2>1. p = q
      BY <1>1, <1>2, <1>3 DEF EngineOf
    <2> QED BY <2>1 DEF Steadfast, Met
  <1>4. CASE k < l
    <2>1. k < <<i, j>>[1]
      BY <1>4
    <2> QED BY <1>1, <1>2, <1>4, <2>1 DEF Visited
  <1>5. CASE l < k
    <2>1. l < <<i, j>>[1]
      BY <1>5
    <2>2. Met(r, q, p, h)
      BY <1>1, <1>2, <1>5, <2>1 DEF Visited
    <2> QED BY <2>2 DEF Met
  <1> QED BY <1>3, <1>4, <1>5

\* A synchronisation at the place of another has come as far.
LEMMA SamePlaceReaching ==
    ASSUME NEW r, r.kind = "all", NEW h, Reaching(r, h), NEW s, SamePlace(r, s), s.steady = r.steady
    PROVE  Reaching(s, h)
  <1>1. /\ s.kind = "all" /\ s.holding = r.holding /\ s.rounds = r.rounds
        /\ s.keys = r.keys /\ s.at = r.at /\ s.before = r.before
    BY DEF SamePlace, AllOf
  <1>2. Steadfast(s, h)
    BY <1>1 DEF Reaching, Steadfast
  <1>3. AllReaching(s, h)
    <2>1. AllReaching(r, h)
      BY DEF Reaching
    <2>2. \A p, q \in s.steady : Met(r, p, q, h) => Met(s, p, q, h)
      BY <1>1 DEF Met
    <2>3. Placed(r, r.keys) => Placed(s, s.keys)
      BY <1>1 DEF Placed
    <2>4. Visited(r, r.keys, r.at, h) => Visited(s, s.keys, s.at, h)
      BY <1>1, <2>2 DEF Visited
    <2> QED BY <1>1, <2>1, <2>2, <2>3, <2>4 DEF AllReaching
  <1> QED BY <1>1, <1>2, <1>3 DEF Reaching

LEMMA InRoundReaching ==
    ASSUME NEW r, r.kind = "all", IsAll(r), NEW h, NEW n \in 0..Rounds, n < Rounds,
           NEW keys \in Seq(Engine), NEW i \in Nat, NEW j \in Nat, 1 <= i,
           j <= Len(keys) \/ j = i + 1,
           Steadfast(r, h), Placed(r, keys), Visited(r, keys, <<i, j>>, h)
    PROVE  Reaching(InRound(r, n, keys, <<i, j>>), h)
  <1> DEFINE holding == j <= Len(keys)
             ks == IF holding THEN keys ELSE <<>>
             at == IF holding THEN <<i, j>> ELSE <<1, 2>>
             s == InRound(r, n, keys, <<i, j>>)
  <1>1. s = AllOf(holding, n, ks, at, 0, IF holding THEN Steady ELSE {}, r.steady, r.before)
    BY InRoundIs
  <1>2. holding \/ \A p, q \in r.steady : Met(r, p, q, h)
    <2>1. CASE holding
      BY <2>1
    <2>2. CASE ~holding
      <3>1. Len(keys) \in Nat /\ j = i + 1 /\ ~(j <= Len(keys))
        BY <2>2
      <3> QED BY <3>1, RoundOver
    <2> QED BY <2>1, <2>2
  <1>3. holding => ks = keys /\ at = <<i, j>>
    OBVIOUS
  <1> HIDE DEF holding, ks, at, s
  <1>4. /\ s.kind = "all" /\ s.holding = holding /\ s.keys = ks /\ s.at = at
        /\ s.rounds = n /\ s.steady = r.steady /\ s.before = r.before
    BY <1>1 DEF AllOf
  <1>5. Steadfast(s, h)
    BY <1>4 DEF Steadfast
  <1>6. holding => Placed(s, s.keys)
    BY <1>3, <1>4 DEF Placed
  <1>7. holding => Visited(s, s.keys, s.at, h)
    BY <1>3, <1>4 DEF Visited, Met
  <1>8. ~holding => \A p, q \in s.steady : Met(s, p, q, h)
    BY <1>2, <1>4 DEF Met
  <1>9. AllReaching(s, h)
    BY <1>4, <1>6, <1>7, <1>8 DEF AllReaching
  <1>10. Reaching(s, h)
    BY <1>4, <1>5, <1>9 DEF Reaching
  <1> QED BY <1>10 DEF s

\* A round that leaves a pair has come further if the two have met, unless one
\* of them is not among those that stayed.
LEMMA SkipReaching ==
    ASSUME NEW r, r.kind = "all", IsAll(r), AtPair(r), r.holding, NEW h, Reaching(r, h),
           \A p, q \in r.steady :
              r.keys[r.at[1]] = EngineOf(p) /\ r.keys[r.at[2]] = EngineOf(q) => Met(r, p, q, h)
    PROVE  Reaching(InRound(r, r.rounds, r.keys, NextPair(Len(r.keys), r.at)), h)
  <1> DEFINE n == Len(r.keys)
             a == r.at[1]
             b == r.at[2]
             at == NextPair(n, r.at)
  <1>1. n \in Nat /\ a \in Nat /\ b \in Nat /\ 1 <= a /\ a < b /\ b <= n /\ r.keys \in Seq(Engine)
    BY DEF AtPair
  <1>2. at = IF b < n THEN <<a, b + 1>> ELSE <<a + 1, a + 2>>
    BY <1>1 DEF NextPair
  <1>3. /\ Steadfast(r, h) /\ r.rounds \in 0..Rounds
        /\ r.rounds < Rounds /\ Placed(r, r.keys) /\ Visited(r, r.keys, r.at, h)
    BY DEF Reaching, AllReaching
  <1>4. Visited(r, r.keys, at, h)
    <2> SUFFICES ASSUME NEW p \in r.steady, NEW q \in r.steady,
                        NEW i \in 1..n, NEW j \in 1..n,
                        i < j, i < at[1] \/ (i = at[1] /\ j < at[2]),
                        r.keys[i] = EngineOf(p), r.keys[j] = EngineOf(q)
                 PROVE  Met(r, p, q, h)
      BY DEF Visited
    <2>0. i \in Nat /\ j \in Nat /\ j <= n
      BY <1>1
    <2>1. (i < a \/ (i = a /\ j < b)) \/ (i = a /\ j = b)
      <3>1. CASE b < n
        <4>1. at[1] = a /\ at[2] = b + 1
          BY <1>2, <3>1
        <4> HIDE DEF at, a, b, n
        <4> QED BY <1>1, <2>0, <4>1
      <3>2. CASE ~(b < n)
        <4>1. at[1] = a + 1 /\ at[2] = a + 2
          BY <1>2, <3>2
        <4> HIDE DEF at, a, b, n
        <4> QED BY <1>1, <2>0, <3>2, <4>1
      <3> QED BY <3>1, <3>2
    <2> QED BY <1>3, <2>1 DEF Visited
  <1>5. CASE b < n
    BY <1>1, <1>2, <1>3, <1>4, <1>5, InRoundReaching
  <1>6. CASE ~(b < n)
    BY <1>1, <1>2, <1>3, <1>4, <1>6, InRoundReaching
  <1> QED BY <1>5, <1>6

LEMMA RoundReaches ==
    ASSUME ClusterInv, ReachInv, NEW r \in pending, RoundBegin(r) \/ RoundLook(r) \/ RoundSync(r)
    PROVE  ReachInv'
  <1>0. Shape /\ Honest(r) /\ Reaching(r, Held)
    BY DEF ClusterInv, Requests, ReachInv
  <1>1. Grown /\ UNCHANGED <<cluster, flag>>
    BY ServeGrows DEF Serve
  <1>2. r.kind = "all" /\ IsAll(r) /\ AtPair(r)
    BY <1>0 DEF Honest, RoundBegin, RoundLook, RoundSync
  <1> DEFINE h == Held'
             next == InRound(r, r.rounds, r.keys, NextPair(Len(r.keys), r.at))
  <1>3. \A p \in Mapped : Held[p] \subseteq h[p]
    BY <1>0, <1>1, HeldGrows
  <1>4. Reaching(r, h)
    BY <1>0, <1>3, ReachedStays
  <1> HIDE DEF h, next
  <1>5. Steadfast(r, h) /\ AllReaching(r, h)
    BY <1>2, <1>4 DEF Reaching
  <1>6. CASE RoundBegin(r)
    <2>1. PICK keys \in SetToSeqs({EngineOf(p) : p \in Mapped}) :
              Becomes(r, InRound(r, r.rounds - 1, keys, <<1, 2>>))
      BY <1>6 DEF RoundBegin
    <2>2. keys \in Seq(Engine) /\ \A p \in Mapped : \E i \in 1..Len(keys) : keys[i] = EngineOf(p)
      BY <1>0, KeysOfMap
    <2>3. Placed(r, keys)
      BY <1>5, <2>2 DEF Placed, Steadfast
    <2>4. Visited(r, keys, <<1, 2>>, h)
      BY <2>2 DEF Visited
    <2>5. r.rounds - 1 \in 0..Rounds /\ r.rounds - 1 < Rounds
      BY <1>5, <1>6 DEF AllReaching, RoundBegin, Rounds
    <2>6. Reaching(InRound(r, r.rounds - 1, keys, <<1, 2>>), h)
      <3>1. 1 \in Nat /\ 2 \in Nat /\ 1 <= 1 /\ 2 = 1 + 1
        OBVIOUS
      <3>2. r.rounds - 1 \in 0..Rounds /\ keys \in Seq(Engine)
        BY <2>2, <2>5
      <3> QED BY <1>2, <1>5, <2>3, <2>4, <2>5, <3>1, <3>2, InRoundReaching
    <2>7. pending' = (pending \ {r}) \cup {InRound(r, r.rounds - 1, keys, <<1, 2>>)}
      BY <2>1 DEF Becomes
    <2> QED BY <1>0, <1>1, <2>6, <2>7, GrowingReaches DEF h
  <1>7. CASE RoundLook(r) /\ Pass(r)
    <2> DEFINE s == [r EXCEPT !.passed = @ + 1]
    <2>1. SamePlace(r, s) /\ s.steady = r.steady
      BY <1>2, PassIs
    <2>2. pending' = (pending \ {r}) \cup {s}
      BY <1>7 DEF Pass, Becomes
    <2> HIDE DEF s
    <2>3. Reaching(s, h)
      BY <1>2, <1>4, <2>1, SamePlaceReaching
    <2> QED BY <1>0, <1>1, <2>2, <2>3, GrowingReaches DEF h
  <1>8. CASE RoundLook(r) /\ Skip(r) /\ ~Online(r.keys[r.at[r.passed + 1]][1])
    <2>1. r.holding /\ r.passed \in 0..1
      BY <1>2, <1>8 DEF RoundLook, AtPair
    <2>2. ASSUME NEW p \in r.steady, NEW q \in r.steady,
                 r.keys[r.at[1]] = EngineOf(p), r.keys[r.at[2]] = EngineOf(q)
          PROVE  Met(r, p, q, h)
      <3>1. Online(p) /\ Online(q)
        BY <1>2, <1>5 DEF Steadfast
      <3>2. r.passed + 1 = 1 \/ r.passed + 1 = 2
        BY <2>1
      <3>3. r.keys[r.at[r.passed + 1]][1] \in {p, q}
        BY <2>2, <3>2 DEF EngineOf
      <3> QED BY <1>8, <3>1, <3>3
    <2>3. Reaching(next, h)
      BY <1>2, <1>4, <2>1, <2>2, SkipReaching DEF next
    <2>4. pending' = (pending \ {r}) \cup {next}
      BY <1>8 DEF Skip, Becomes, next
    <2> QED BY <1>0, <1>1, <2>3, <2>4, GrowingReaches DEF h
  <1>9. CASE RoundSync(r)
    <2>1. r.holding
      BY <1>9 DEF RoundSync
    <2>2. ASSUME NEW p \in r.steady, NEW q \in r.steady,
                 r.keys[r.at[1]] = EngineOf(p), r.keys[r.at[2]] = EngineOf(q)
          PROVE  Met(r, p, q, h)
      <3>1. p \in Mapped /\ q \in Mapped
        BY <1>5 DEF Steadfast
      <3>2. EngineOf(p) \in Engine /\ EngineOf(q) \in Engine /\ p \in Peer /\ q \in Peer
        BY <1>0, <3>1, MappedEngines
      <3>3. PairAt(r) = {EngineOf(p), EngineOf(q)}
        BY <2>2 DEF PairAt
      <3>4. PICK e \in PairAt(r), f \in PairAt(r) : e # f /\ Exchange(e, f)
        BY <1>9 DEF RoundSync, ExchangePair
      <3>5. \/ e = EngineOf(p) /\ f = EngineOf(q)
            \/ e = EngineOf(q) /\ f = EngineOf(p)
        BY <3>3, <3>4
      <3>6. Stamps(e) \subseteq Stamps(f)' /\ Stamps(f) \subseteq Stamps(e)'
        BY <1>0, <3>2, <3>4, <3>5, ExchangeMeets
      <3>7. /\ Held[p] = Stamps(EngineOf(p)) /\ Held[q] = Stamps(EngineOf(q))
            /\ EngineOf(p)' = EngineOf(p) /\ EngineOf(q)' = EngineOf(q)
            /\ h[p] = Stamps(EngineOf(p))' /\ h[q] = Stamps(EngineOf(q))'
        BY <1>1, <3>2 DEF Held, h, EngineOf, cluster
      <3>8. Held[p] \subseteq h[q] /\ Held[q] \subseteq h[p]
        BY <3>5, <3>6, <3>7 DEF Stamps
      <3>9. r.before[p] \subseteq Held[p] /\ r.before[q] \subseteq Held[q]
        BY <1>0, <1>2 DEF Reaching, Steadfast
      <3> QED BY <3>8, <3>9 DEF Met
    <2>3. Reaching(next, h)
      BY <1>2, <1>4, <2>1, <2>2, SkipReaching DEF next
    <2>4. pending' = (pending \ {r}) \cup {next}
      BY <1>9 DEF RoundSync, Skip, Becomes, next
    <2> QED BY <1>0, <1>1, <2>3, <2>4, GrowingReaches DEF h
  <1> QED BY <1>6, <1>7, <1>8, <1>9 DEF RoundLook

LEMMA SweepReaches ==
    ASSUME ClusterInv, ReachInv, NEW r \in pending, SweepBegin(r) \/ SweepStep(r)
    PROVE  ReachInv'
  <1>0. Shape /\ Honest(r) /\ Reaching(r, Held)
    BY DEF ClusterInv, Requests, ReachInv
  <1>1. Grown /\ UNCHANGED <<cluster, flag>>
    BY ServeGrows DEF Serve
  <1>2. /\ r.kind = "sweep" /\ IsSweep(r)
        /\ r.rest # {} => r.holding /\ r.hub \in Mapped
        /\ \A p \in r.rest : p \in Mapped /\ Online(p)
    BY <1>0 DEF Honest, SweepBegin, SweepStep
  <1> DEFINE h == Held'
  <1>3. \A p \in Mapped : Held[p] \subseteq h[p]
    BY <1>0, <1>1, HeldGrows
  <1>4. Reaching(r, h)
    BY <1>0, <1>3, ReachedStays
  <1> HIDE DEF h
  <1>5. Steadfast(r, h) /\ SweepReaching(r, h)
    BY <1>2, <1>4 DEF Reaching
  <1>6. ASSUME NEW rest, r.hub \in r.steady => \A p \in r.steady \ rest : Met(r, p, r.hub, h)
        PROVE  Reaching(InSweep(r, rest), h)
    <2> DEFINE s == InSweep(r, rest)
    <2>1. /\ s.kind = "sweep" /\ s.hub = r.hub /\ s.rest = rest /\ s.done = (rest = {})
          /\ s.steady = r.steady /\ s.before = r.before
      BY <1>2 DEF InSweep, IsSweep
    <2> HIDE DEF s
    <2>2. Steadfast(s, h)
      BY <1>2, <1>5, <2>1 DEF Steadfast
    <2>3. SweepReaching(s, h)
      BY <1>6, <2>1 DEF SweepReaching, Met
    <2>4. Reaching(s, h)
      BY <2>1, <2>2, <2>3 DEF Reaching
    <2> QED BY <2>4 DEF s
  <1>7. CASE SweepBegin(r)
    <2> DEFINE rest == {p \in Mapped \ {r.hub} : Online(p)}
    <2>1. Reaching(InSweep(r, rest), h)
      BY <1>2, <1>5, <1>6 DEF Steadfast, Met
    <2>2. pending' = (pending \ {r}) \cup {InSweep(r, rest)} \/ pending' = pending \ {r}
      BY <1>7 DEF SweepBegin, Becomes, Reply
    <2> HIDE DEF rest
    <2> QED BY <1>0, <1>1, <2>1, <2>2, GrowingReaches DEF h
  <1>8. CASE SweepStep(r)
    <2>1. PICK p \in r.rest : /\ Exchange(EngineOf(r.hub), EngineOf(p))
                              /\ Becomes(r, InSweep(r, r.rest \ {p}))
      BY <1>8 DEF SweepStep
    <2>2. p \in Mapped /\ r.hub \in Mapped
      BY <1>2, <2>1
    <2>3. /\ EngineOf(p) \in Engine /\ EngineOf(r.hub) \in Engine
          /\ p \in Peer /\ r.hub \in Peer
      BY <1>0, <2>2, MappedEngines
    <2>4. /\ Stamps(EngineOf(r.hub)) \subseteq Stamps(EngineOf(p))'
          /\ Stamps(EngineOf(p)) \subseteq Stamps(EngineOf(r.hub))'
      <3>1. \A e, f \in Engine : Exchange(e, f) =>
                Stamps(e) \subseteq Stamps(f)' /\ Stamps(f) \subseteq Stamps(e)'
        BY <1>0, ExchangeMeets
      <3>2. EngineOf(p)' = EngineOf(p) /\ EngineOf(r.hub)' = EngineOf(r.hub)
        BY <1>1 DEF EngineOf, cluster
      <3> QED BY <2>1, <2>3, <3>1, <3>2 DEF Stamps
    <2>5. Held[p] \subseteq h[r.hub] /\ Held[r.hub] \subseteq h[p]
      BY <2>3, <2>4 DEF Held, h
    <2>6. \A q \in r.steady : r.before[q] \subseteq Held[q]
      BY <1>0, <1>2 DEF Reaching, Steadfast
    <2>7. r.hub \in r.steady => \A q \in r.steady \ (r.rest \ {p}) : Met(r, q, r.hub, h)
      <3>1. r.hub \in r.steady => \A q \in r.steady \ r.rest : Met(r, q, r.hub, h)
        BY <1>5, <2>1 DEF SweepReaching
      <3>2. r.hub \in r.steady /\ p \in r.steady => Met(r, p, r.hub, h)
        BY <2>5, <2>6 DEF Met
      <3> QED BY <3>1, <3>2
    <2>8. Reaching(InSweep(r, r.rest \ {p}), h)
      BY <1>6, <2>7
    <2>9. pending' = (pending \ {r}) \cup {InSweep(r, r.rest \ {p})}
      BY <2>1 DEF Becomes
    <2> QED BY <1>0, <1>1, <2>8, <2>9, GrowingReaches DEF h
  <1> QED BY <1>7, <1>8

LEMMA NextReachInv == ClusterInv /\ ReachInv /\ [Next]_vars => ReachInv'
  <1> SUFFICES ASSUME ClusterInv, ReachInv, [Next]_vars PROVE ReachInv'
    OBVIOUS
  <1>0. Shape
    BY DEF ClusterInv
  <1>1. ASSUME NEW r \in pending, Serve(r) PROVE ReachInv'
    <2>1. CASE RoundBegin(r) \/ RoundLook(r) \/ RoundSync(r)
      BY <2>1, RoundReaches
    <2>2. CASE SweepBegin(r) \/ SweepStep(r)
      BY <2>2, SweepReaches
    <2>3. CASE pending' \subseteq pending
      BY <1>0, <1>1, <2>3, ServeGrows, GrowingReaches
    <2> QED BY <1>1, <2>1, <2>2, <2>3
            DEF Serve, ExecRun, SyncPairRun, BootstrapRun, ScenarioRun, ScenarioSync, Answer, Reply
  <1>2. ASSUME NEW p \in Peer, AddPeer(p) PROVE ReachInv'
    <2>1. UNCHANGED <<log, pending>> /\ Open({p}, resets) /\ p \notin Mapped
      BY <1>2 DEF AddPeer
    <2>2. \A q \in Mapped : q \in Mapped' /\ map'[q] = map[q] /\ (Online(q) => Online(q)')
      BY <2>1 DEF Open, Mapped, Online
    <2> QED BY <2>1, <2>2, OnlineReaches
  <1>3. ASSUME NEW p \in Peer, RemovePeer(p) PROVE ReachInv'
    <2>1. /\ UNCHANGED log /\ pending' = Without(pending, {p})
          /\ map' = [map EXCEPT ![p] = 0] /\ flag' = [flag EXCEPT ![p] = "none"]
      BY <1>3 DEF RemovePeer
    <2>2. \A q \in Mapped \ {p} : /\ q \in Mapped' /\ map'[q] = map[q]
                                  /\ Online(q) => Online(q)'
      BY <1>0, <2>1 DEF Shape, Mapped, Online
    <2> QED BY <2>1, <2>2, GivingUpReaches
  <1>4. CASE ResetCluster
    <2>1. UNCHANGED log /\ pending' = Without(pending, Peer) /\ Mapped \ Peer = {}
      BY <1>4 DEF ResetCluster, Mapped
    <2> QED BY <2>1, GivingUpReaches
  <1>5. ASSUME NEW p \in Peer, Disconnect(p) PROVE ReachInv'
    <2>1. /\ UNCHANGED <<log, map>> /\ pending' = Without(pending, {p})
          /\ flag' = [flag EXCEPT ![p] = "offline"]
      BY <1>5 DEF Disconnect, cluster
    <2>2. \A q \in Mapped \ {p} : /\ q \in Mapped' /\ map'[q] = map[q]
                                  /\ Online(q) => Online(q)'
      BY <1>0, <2>1 DEF Shape, Mapped, Online
    <2> QED BY <2>1, <2>2, GivingUpReaches
  <1>6. ASSUME NEW p \in Peer, Connect(p) PROVE ReachInv'
    <2>1. /\ UNCHANGED <<log, map>> /\ pending' = Finding(pending, p) \cup {Sweep(p)}
          /\ flag' = [flag EXCEPT ![p] = "online"]
      BY <1>6 DEF Connect, cluster
    <2>2. \A q \in Mapped : q \in Mapped' /\ map'[q] = map[q] /\ (Online(q) => Online(q)')
      BY <1>0, <2>1 DEF Shape, Mapped, Online
    <2>3. \A s \in Finding(pending, p) : Reaching(s, Held)
      BY FindingSame, SamePlaceReaching DEF ClusterInv, ReachInv
    <2> QED BY <2>1, <2>2, <2>3, NewReaches, OnlineReaches
  <1>7. ASSUME UNCHANGED <<log, map, flag>>, \A s \in pending' : s \in pending \/ Reaching(s, Held)
        PROVE  ReachInv'
    <2>1. \A q \in Mapped : q \in Mapped' /\ map'[q] = map[q] /\ (Online(q) => Online(q)')
      BY <1>7 DEF Mapped, Online
    <2> QED BY <1>7, <2>1, OnlineReaches
  <1>8. ASSUME NEW p \in Peer, SyncPeerById(p) PROVE ReachInv'
    BY <1>7, <1>8, NewReaches DEF SyncPeerById, Accept, cluster
  <1>9. CASE SyncAllPeers
    BY <1>7, <1>9, NewReaches, BoundsAssumption DEF SyncAllPeers, Accept, cluster
  <1>10. ASSUME NEW p \in Peer, NEW q \in Peer,
                ExecPeer(p) \/ SyncPair(p, q) \/ BootstrapPeer(p, q) \/ Scenario(p, q)
         PROVE  ReachInv'
    <2>1. UNCHANGED <<log, map, flag>>
      BY <1>10 DEF ExecPeer, SyncPair, BootstrapPeer, Scenario, cluster
    <2>2. \A s \in pending' : s \in pending \/ s.kind \notin {"all", "sweep"}
      BY <1>10 DEF ExecPeer, SyncPair, BootstrapPeer, Scenario, Accept
    <2> QED BY <1>7, <2>1, <2>2 DEF Reaching
  <1>11. CASE UNCHANGED vars
    BY <1>7, <1>11 DEF vars, cluster
  <1> QED BY <1>1, <1>2, <1>3, <1>4, <1>5, <1>6, <1>8, <1>9, <1>10, <1>11 DEF Next

LEMMA InitReachInv == Init => ReachInv
  BY DEF Init, ReachInv

\* When a synchronisation of all peers is answered, everything a peer had when
\* it was asked for is at every other one that stayed in the map and online,
\* for any number of peers and whatever else is served meanwhile: sync_all_peers.
THEOREM SyncAllReachesAll == Spec => []SyncAllReaches
  <1>1. ReachInv => SyncAllReaches
    <2> SUFFICES ASSUME ReachInv, NEW r \in pending, SyncAllDone(r),
                        NEW p \in r.steady, NEW q \in r.steady
                 PROVE  r.before[p] \subseteq Stamps(EngineOf(q))
      BY DEF SyncAllReaches
    <2>1. Steadfast(r, Held) /\ Met(r, p, q, Held)
      BY DEF ReachInv, Reaching, AllReaching, SyncAllDone, Rounds
    <2>2. Held[q] = Stamps(EngineOf(q))
      BY <2>1 DEF Steadfast, Held, Mapped
    <2> QED BY <2>1, <2>2 DEF Met
  <1> QED BY <1>1, InitClusterInv, NextClusterInv, InitReachInv, NextReachInv, PTL DEF Spec

\* When the sweep that follows a reconnection is done, the peer and the others
\* that stayed online have what each had when it came back: toggle_partition,
\* connect_peer and sync_peer_by_id.
THEOREM SweepReachesAll == Spec => []ReconnectReaches
  <1>1. ClusterInv /\ ReachInv => ReconnectReaches
    <2> SUFFICES ASSUME ClusterInv, ReachInv, NEW r \in pending, r.kind = "sweep", r.done,
                        r.hub \in r.steady, NEW p \in r.steady
                 PROVE  /\ r.before[p] \subseteq Stamps(EngineOf(r.hub))
                        /\ r.before[r.hub] \subseteq Stamps(EngineOf(p))
      BY DEF ReconnectReaches
    <2>1. Steadfast(r, Held) /\ Met(r, p, r.hub, Held)
      BY DEF ReachInv, Reaching, SweepReaching
    <2>2. Held[p] = Stamps(EngineOf(p)) /\ Held[r.hub] = Stamps(EngineOf(r.hub))
      BY <2>1 DEF Steadfast, Held, Mapped
    <2> QED BY <2>1, <2>2 DEF Met
  <1> QED BY <1>1, InitClusterInv, NextClusterInv, InitReachInv, NextReachInv, PTL DEF Spec
=============================================================================
