--------------------------- MODULE DeltaSyncProofs ---------------------------
(***************************************************************************)
(* The cursors, acknowledgements and digests of DeltaSync for any number   *)
(* of peers, statements, deltas and buckets.                               *)
(*                                                                         *)
(* A cursor is honest only because the logs are: an operation of p enters  *)
(* other logs from p's (Origin), under a timestamp nothing else has        *)
(* (Floor), and an exchange by timestamps, which advances cursors without  *)
(* looking at sequence numbers, takes a group for received as soon as one  *)
(* of it is there (SplitAtZero).  And a delta in flight stays honest       *)
(* because logs only grow (DeltaInv).                                      *)
(***************************************************************************)
EXTENDS DeltaSync, OpLogProofs

\* The operations a statement logs.
Op == [hlc  : [wall : Nat, logical : Nat, peer : Peer],
       body : {"write", "reserve"}]

Typed ==
    /\ clock \in [Peer -> [wall : Nat, logical : Nat]]
    /\ log \in [Peer -> Seq(Op)]
    /\ cursor \in [Peer -> [Peer -> Nat]]
    /\ acks \in [Peer -> [Peer -> Nat \cup {NoAck}]]
    /\ deltas \subseteq [from : Peer, to : Peer, ops : Seq(Op), upto : Nat]

NoDuplicates == \A p \in Peer : Distinct(log[p])

\* A peer's clock has reached every timestamp under its own name.
Floor ==
    \A p \in Peer : \A o \in ToSet(log[p]) :
        o.hlc.peer = p => ~Earlier(clock[p], o.hlc)

\* Every operation in some log is in the log of the peer that made it.
Origin ==
    \A p \in Peer : \A o \in ToSet(log[p]) : o \in ToSet(log[o.hlc.peer])

\* A group is split at p only by the lack of entry zero of its origin.
SplitAtZero ==
    \A p, q \in Peer : \A a \in ToSet(log[p]), o \in ToSet(log[q]) :
        a.hlc = o.hlc => o \in ToSet(log[p]) \/ o = log[o.hlc.peer][1]

\* The own operations of p in its log l up to sequence number u, entry zero
\* excepted, are in S.
Covered(l, p, u, S) ==
    \A i \in DOMAIN l \ {1} : l[i].hlc.peer = p /\ i - 1 <= u => l[i] \in S

\* A cursor stays within the log it follows and covers what was received.
CursorInv ==
    \A p, q \in Peer :
        /\ cursor[q][p] <= MaxSeq(log[p])
        /\ p # q => Covered(log[p], p, cursor[q][p], ToSet(log[q]))

AcksBehind == \A p, q \in Peer : acks[p][q] <= cursor[q][p]

\* A delta takes own operations of the sender, in whole groups, and the
\* receiver lacks no others up to the new cursor.
DeltaInv ==
    \A m \in deltas :
        /\ m.from # m.to
        /\ m.upto <= MaxSeq(log[m.from])
        /\ \A o \in ToSet(m.ops) : o.hlc.peer = m.from /\ o \in ToSet(log[m.from])
        /\ Covered(log[m.from], m.from, m.upto, ToSet(m.ops) \cup ToSet(log[m.to]))
        /\ \A i \in DOMAIN log[m.from] : \A o \in ToSet(m.ops) :
              log[m.from][i].hlc = o.hlc => i - 1 <= m.upto

IInv ==
    /\ Typed
    /\ NoDuplicates
    /\ Floor
    /\ Origin
    /\ SplitAtZero
    /\ CursorInv
    /\ AcksBehind
    /\ DeltaInv

-----------------------------------------------------------------------------
(* Logs, sequence numbers and cursors.                                     *)

LEMMA LogFacts ==
    ASSUME Typed, NEW p \in Peer
    PROVE  /\ log[p] \in Seq(Op)
           /\ Len(log[p]) \in Nat
           /\ DOMAIN log[p] = 1..Len(log[p])
           /\ \A i \in 1..Len(log[p]) : log[p][i] \in Op
           /\ \A o \in ToSet(log[p]) : o \in Op /\ o.hlc.peer \in Peer
<1>1. log[p] \in Seq(Op)
  BY DEF Typed
<1>2. /\ Len(log[p]) \in Nat
      /\ DOMAIN log[p] = 1..Len(log[p])
      /\ \A i \in 1..Len(log[p]) : log[p][i] \in Op
  BY <1>1
<1>3. \A o \in ToSet(log[p]) : o \in Op
  BY <1>2 DEF ToSet
<1> QED BY <1>1, <1>2, <1>3 DEF Op

LEMMA MaxSeqFacts ==
    ASSUME NEW l \in Seq(Op), NEW m \in Seq(Op), Extends(m, l)
    PROVE  MaxSeq(l) \in Nat /\ MaxSeq(m) \in Nat /\ MaxSeq(l) <= MaxSeq(m)
<1>1. /\ Len(l) \in Nat /\ Len(m) \in Nat /\ Len(l) <= Len(m)
      /\ l = <<>> <=> Len(l) = 0
      /\ m = <<>> <=> Len(m) = 0
  BY DEF Extends
<1> QED BY <1>1 DEF MaxSeq

\* What is covered stays covered while the log grows: new entries lie beyond.
LEMMA CoveredGrows ==
    ASSUME NEW l \in Seq(Op), NEW m \in Seq(Op), Extends(m, l),
           NEW p, NEW u \in Nat, u <= MaxSeq(l),
           NEW S, NEW T, S \subseteq T, Covered(l, p, u, S)
    PROVE  Covered(m, p, u, T)
<1>1. /\ Len(l) \in Nat /\ Len(m) \in Nat /\ Len(l) <= Len(m)
      /\ DOMAIN l = 1..Len(l) /\ DOMAIN m = 1..Len(m)
      /\ \A i \in 1..Len(l) : m[i] = l[i]
      /\ l = <<>> <=> Len(l) = 0
  BY DEF Extends
<1>2. SUFFICES ASSUME NEW i \in 1..Len(m), i # 1, m[i].hlc.peer = p, i - 1 <= u
               PROVE  m[i] \in T
  BY <1>1 DEF Covered
<1>3. i \in 1..Len(l)
  BY <1>1, <1>2 DEF MaxSeq
<1> QED BY <1>1, <1>2, <1>3 DEF Covered

LEMMA CoveredLarger ==
    ASSUME NEW l, NEW p, NEW u \in Nat, NEW v \in Nat, NEW S,
           Covered(l, p, u, S), Covered(l, p, v, S)
    PROVE  Covered(l, p, Larger(u, v), S)
BY DEF Larger

LEMMA LargerFacts ==
    ASSUME NEW u \in Nat, NEW v \in Nat
    PROVE  Larger(u, v) \in Nat /\ u <= Larger(u, v) /\ v <= Larger(u, v)
           /\ (Larger(u, v) = u \/ Larger(u, v) = v)
BY DEF Larger

\* Since leaves out the entries up to a sequence number.
LEMMA SinceFacts ==
    ASSUME NEW l \in Seq(Op), NEW s \in Nat
    PROVE  /\ Since(l, s) \in Seq(Op)
           /\ ToSet(Since(l, s)) = {l[i] : i \in {j \in DOMAIN l : j - 1 > s}}
<1>. DEFINE y == SubSeq(l, s + 2, Len(l))
            n == Len(l)
<1>1. /\ n \in Nat /\ DOMAIN l = 1..n /\ y \in Seq(Op)
      /\ Len(y) = IF s + 2 <= n THEN n - (s + 1) ELSE 0
      /\ \A i \in 1..(n - (s + 1)) : y[i] = l[i + (s + 1)]
  OBVIOUS
<1>2. DOMAIN y = 1..Len(y)
  BY <1>1
<1>. HIDE DEF y, n
<1>3. ASSUME NEW i \in DOMAIN y PROVE \E j \in DOMAIN l : j - 1 > s /\ y[i] = l[j]
  <2>1. i \in 1..(n - (s + 1)) /\ i + (s + 1) \in 1..n /\ (i + (s + 1)) - 1 > s
    BY <1>1, <1>2
  <2> QED BY <1>1, <2>1
<1>4. ASSUME NEW j \in DOMAIN l, j - 1 > s PROVE \E i \in DOMAIN y : y[i] = l[j]
  <2>1. j - (s + 1) \in 1..(n - (s + 1)) /\ (j - (s + 1)) + (s + 1) = j /\ s + 2 <= n
    BY <1>1, <1>4
  <2> QED BY <1>1, <1>2, <2>1
<1>5. ToSet(y) = {l[i] : i \in {j \in DOMAIN l : j - 1 > s}}
  BY <1>3, <1>4 DEF ToSet
<1> QED BY <1>1, <1>5 DEF Since, y, n

\* A delta takes every own operation the cursor does not cover, and the new
\* cursor covers every own operation.
LEMMA DeltaFacts ==
    ASSUME NEW p \in Peer, NEW l \in Seq(Op), NEW s \in Nat, s <= MaxSeq(l)
    PROVE  LET d == ComputeDelta(p, l, s)
           IN  /\ d.ops \in Seq(Op)
               /\ d.upto \in Nat /\ d.upto <= MaxSeq(l)
               /\ \A o \in ToSet(d.ops) : o.hlc.peer = p /\ o \in ToSet(l)
               /\ \A i \in DOMAIN l : l[i].hlc.peer = p =>
                    i - 1 <= d.upto /\ (i - 1 > s => l[i] \in ToSet(d.ops))
<1>. DEFINE new == Since(l, s)
            at == {i \in DOMAIN new : new[i].hlc.peer = p}
            ops == OwnSince(p, l, s)
            upto == Covering(p, l, s)
            own == OwnSeqs(p, l)
<1>1. Len(l) \in Nat /\ DOMAIN l = 1..Len(l) /\ (l = <<>> <=> Len(l) = 0)
  OBVIOUS
<1>2. new \in Seq(Op) /\ ToSet(new) = {l[i] : i \in {j \in DOMAIN l : j - 1 > s}}
  BY SinceFacts
<1>3. ops \in Seq(Op) /\ ToSet(ops) = {o \in ToSet(new) : o.hlc.peer = p}
  <2>1. ops = Picked(new, at)
    BY DEF OwnSince
  <2>2. Picked(new, at) \in Seq(Op) /\ ToSet(Picked(new, at)) = {new[i] : i \in at \cap DOMAIN new}
    <3> HIDE DEF at, new
    <3> QED BY <1>2, PickedFacts
  <2>3. {new[i] : i \in at \cap DOMAIN new} = {o \in ToSet(new) : o.hlc.peer = p}
    BY DEF ToSet
  <2> QED BY <2>1, <2>2, <2>3
<1>4. \A i \in DOMAIN l : l[i].hlc.peer = p => i - 1 \in own
  BY DEF OwnSeqs
<1>5. own \subseteq 0..MaxSeq(l) /\ MaxSeq(l) \in Nat
  BY <1>1 DEF OwnSeqs, MaxSeq
<1>6. /\ upto \in Nat /\ upto <= MaxSeq(l)
      /\ \A u \in own : u <= upto
  <2>1. CASE own = {}
    <3>1. upto = s
      BY <2>1 DEF Covering
    <3> QED BY <2>1, <3>1
  <2>2. CASE own # {}
    <3>1. Max(own) \in own /\ \A u \in own : u <= Max(own)
      <4> HIDE DEF own
      <4> QED BY <1>5, <2>2, MaxOfSubset
    <3>2. upto = Larger(s, Max(own))
      BY <2>2 DEF Covering, Advance
    <3>. HIDE DEF own, upto
    <3>. DEFINE x == Max(own)
                M == MaxSeq(l)
    <3>3. x \in Nat /\ x <= M
      <4>1. x \in own /\ own \subseteq 0..M /\ M \in Nat
        BY <1>5, <3>1
      <4> HIDE DEF x, M
      <4> QED BY <4>1
    <3>. HIDE DEF x
    <3>4. x \in Nat /\ x <= MaxSeq(l) /\ upto = Larger(s, x) /\ \A u \in own : u <= x
      BY <3>1, <3>2, <3>3 DEF x
    <3>5. Larger(s, x) \in Nat /\ Larger(s, x) <= MaxSeq(l) /\ x <= Larger(s, x)
      BY <1>5, <3>4, LargerFacts
    <3> QED BY <1>5, <3>4, <3>5
  <2> QED BY <2>1, <2>2
<1>7. \A o \in ToSet(ops) : o.hlc.peer = p /\ o \in ToSet(l)
  BY <1>2, <1>3 DEF ToSet
<1>8. ASSUME NEW i \in DOMAIN l, l[i].hlc.peer = p
      PROVE  i - 1 <= upto /\ (i - 1 > s => l[i] \in ToSet(ops))
  BY <1>2, <1>3, <1>4, <1>6, <1>8
<1>. DEFINE d == ComputeDelta(p, l, s)
<1>9. d.ops = ops /\ d.upto = upto
  BY DEF ComputeDelta
<1>. HIDE DEF d, ops, upto, own, new
<1>10. /\ d.ops \in Seq(Op)
       /\ d.upto \in Nat /\ d.upto <= MaxSeq(l)
       /\ \A o \in ToSet(d.ops) : o.hlc.peer = p /\ o \in ToSet(l)
       /\ \A i \in DOMAIN l : l[i].hlc.peer = p =>
            i - 1 <= d.upto /\ (i - 1 > s => l[i] \in ToSet(d.ops))
  BY <1>3, <1>6, <1>7, <1>8, <1>9
<1> QED BY <1>10 DEF d

-----------------------------------------------------------------------------
(* The invariant is inductive.                                             *)

LEMMA InitInv == Init => IInv
<1>. SUFFICES ASSUME Init PROVE IInv
  OBVIOUS
<1>1. Typed
  BY DEF Init, Typed
<1>2. \A p \in Peer : log[p] = <<>> /\ ToSet(log[p]) = {} /\ DOMAIN log[p] = {}
  BY DEF Init, ToSet
<1>3. NoDuplicates /\ Floor /\ Origin /\ SplitAtZero
  BY <1>2 DEF NoDuplicates, Distinct, Floor, Origin, SplitAtZero
<1>4. CursorInv
  BY <1>2 DEF Init, CursorInv, Covered, MaxSeq
<1>5. AcksBehind
  BY DEF Init, AcksBehind, NoAck
<1>6. DeltaInv
  BY DEF Init, DeltaInv
<1> QED BY <1>1, <1>3, <1>4, <1>5, <1>6 DEF IInv

\* Logs that only grow, where a peer gets no own operations from others.
Grows ==
    /\ log' \in [Peer -> Seq(Op)]
    /\ \A p \in Peer :
          /\ Extends(log'[p], log[p])
          /\ Distinct(log'[p])
          /\ ToSet(log[p]) \subseteq ToSet(log'[p])

LEMMA ExtendsContains ==
    ASSUME NEW l \in Seq(Op), NEW m \in Seq(Op), Extends(m, l)
    PROVE  ToSet(l) \subseteq ToSet(m)
<1>1. Len(l) \in Nat /\ Len(m) \in Nat /\ DOMAIN l = 1..Len(l) /\ DOMAIN m = 1..Len(m)
  OBVIOUS
<1> QED BY <1>1 DEF Extends, ToSet

\* An own operation that was in the log stands where it was.
LEMMA StaysAtIndex ==
    ASSUME NEW l \in Seq(Op), NEW m \in Seq(Op), Extends(m, l), Distinct(m),
           NEW i \in DOMAIN m, m[i] \in ToSet(l)
    PROVE  i \in DOMAIN l /\ m[i] = l[i]
<1>1. Len(l) \in Nat /\ Len(m) \in Nat /\ DOMAIN l = 1..Len(l) /\ DOMAIN m = 1..Len(m)
  OBVIOUS
<1>2. PICK j \in DOMAIN l : l[j] = m[i]
  BY DEF ToSet
<1>3. j \in DOMAIN m /\ m[j] = l[j]
  BY <1>1 DEF Extends
<1>4. j = i
  BY <1>2, <1>3 DEF Distinct
<1> QED BY <1>2, <1>3, <1>4

\* The first operation a peer logs stays the first.
LEMMA FirstStays ==
    ASSUME Typed, Grows, NEW p \in Peer, NEW o \in ToSet(log[p])
    PROVE  log'[p][1] = log[p][1]
<1>1. Len(log[p]) \in Nat /\ DOMAIN log[p] = 1..Len(log[p])
  BY LogFacts
<1>2. 1 \in DOMAIN log[p]
  BY <1>1 DEF ToSet
<1> QED BY <1>2 DEF Grows, Extends

\* What remains of the invariant after steps that only move operations: all
\* that is in some log after the step was in some log before.
Moves ==
    /\ Grows
    /\ UNCHANGED clock
    /\ \A p \in Peer : \A o \in ToSet(log'[p]) :
          \E q \in Peer : o \in ToSet(log[q])

LEMMA MovesKeep ==
    ASSUME IInv, Moves
    PROVE  /\ NoDuplicates' /\ Floor' /\ Origin'
           /\ \A p \in Peer : \A o \in ToSet(log'[p]) :
                /\ o.hlc.peer \in Peer
                /\ o \in ToSet(log[o.hlc.peer])
                /\ log'[o.hlc.peer][1] = log[o.hlc.peer][1]
<1>0. Typed /\ Grows
  BY DEF IInv, Moves
<1>1. ASSUME NEW p \in Peer, NEW o \in ToSet(log'[p])
      PROVE  /\ o.hlc.peer \in Peer
             /\ o \in ToSet(log[o.hlc.peer])
             /\ log'[o.hlc.peer][1] = log[o.hlc.peer][1]
             /\ o \in ToSet(log'[o.hlc.peer])
  <2>1. PICK q \in Peer : o \in ToSet(log[q])
    BY <1>1 DEF Moves
  <2>2. o.hlc.peer \in Peer /\ o \in ToSet(log[o.hlc.peer])
    BY <1>0, <2>1, LogFacts DEF IInv, Origin
  <2>3. log'[o.hlc.peer][1] = log[o.hlc.peer][1]
    BY <1>0, <2>2, FirstStays
  <2> QED BY <1>0, <2>2, <2>3 DEF Grows
<1>2. NoDuplicates'
  BY <1>0 DEF NoDuplicates, Grows
<1>3. Origin'
  BY <1>1 DEF Origin
<1>4. Floor'
  BY <1>1 DEF Floor, IInv, Moves
<1> QED BY <1>1, <1>2, <1>3, <1>4

\* Cursors that stay are as honest as before.
LEMMA CursorsKeep ==
    ASSUME IInv, Grows, cursor' = cursor
    PROVE  CursorInv'
<1>. SUFFICES ASSUME NEW p \in Peer, NEW q \in Peer
              PROVE  /\ cursor[q][p] <= MaxSeq(log'[p])
                     /\ p # q => Covered(log'[p], p, cursor[q][p], ToSet(log'[q]))
  BY DEF CursorInv
<1>1. log[p] \in Seq(Op) /\ log'[p] \in Seq(Op) /\ Extends(log'[p], log[p])
  BY DEF IInv, Typed, Grows
<1>2. MaxSeq(log[p]) \in Nat /\ MaxSeq(log'[p]) \in Nat /\ MaxSeq(log[p]) <= MaxSeq(log'[p])
  BY <1>1, MaxSeqFacts
<1>3. cursor[q][p] \in Nat /\ cursor[q][p] <= MaxSeq(log[p])
  BY DEF IInv, Typed, CursorInv
<1>4. p # q => Covered(log[p], p, cursor[q][p], ToSet(log[q]))
  BY DEF IInv, CursorInv
<1>5. ToSet(log[q]) \subseteq ToSet(log'[q])
  BY DEF Grows
<1>6. p # q => Covered(log'[p], p, cursor[q][p], ToSet(log'[q]))
  BY <1>1, <1>3, <1>4, <1>5, CoveredGrows
<1> QED BY <1>2, <1>3, <1>6

\* What a peer logs for the first time of its own has a new timestamp.
NewOwnFresh ==
    \A p \in Peer : \A o \in ToSet(log'[p]) \ ToSet(log[p]) :
        o.hlc.peer = p => \A q \in Peer : \A u \in ToSet(log[q]) : u.hlc # o.hlc

\* The deltas on their way stay honest.
LEMMA DeltasKeep ==
    ASSUME IInv, Grows, NewOwnFresh, deltas' = deltas
    PROVE  DeltaInv'
<1>. SUFFICES ASSUME NEW m \in deltas
              PROVE  /\ m.from # m.to
                     /\ m.upto <= MaxSeq(log'[m.from])
                     /\ \A o \in ToSet(m.ops) :
                          o.hlc.peer = m.from /\ o \in ToSet(log'[m.from])
                     /\ Covered(log'[m.from], m.from, m.upto,
                                ToSet(m.ops) \cup ToSet(log'[m.to]))
                     /\ \A i \in DOMAIN log'[m.from] : \A o \in ToSet(m.ops) :
                          log'[m.from][i].hlc = o.hlc => i - 1 <= m.upto
  BY DEF DeltaInv
<1>0. Typed /\ Grows /\ m.from \in Peer /\ m.to \in Peer /\ m.upto \in Nat
  BY DEF IInv, Typed
<1>. DEFINE p == m.from
<1>1. log[p] \in Seq(Op) /\ log'[p] \in Seq(Op) /\ Extends(log'[p], log[p]) /\ Distinct(log'[p])
  BY <1>0, LogFacts DEF Grows
<1>2. MaxSeq(log[p]) \in Nat /\ MaxSeq(log'[p]) \in Nat /\ MaxSeq(log[p]) <= MaxSeq(log'[p])
  BY <1>1, MaxSeqFacts
<1>3. /\ m.from # m.to
      /\ m.upto <= MaxSeq(log[p])
      /\ \A o \in ToSet(m.ops) : o.hlc.peer = p /\ o \in ToSet(log[p])
      /\ Covered(log[p], p, m.upto, ToSet(m.ops) \cup ToSet(log[m.to]))
      /\ \A i \in DOMAIN log[p] : \A o \in ToSet(m.ops) :
            log[p][i].hlc = o.hlc => i - 1 <= m.upto
  BY DEF IInv, DeltaInv
<1>4. ToSet(m.ops) \cup ToSet(log[m.to]) \subseteq ToSet(m.ops) \cup ToSet(log'[m.to])
  BY <1>0 DEF Grows
<1>5. Covered(log'[p], p, m.upto, ToSet(m.ops) \cup ToSet(log'[m.to]))
  BY <1>0, <1>1, <1>3, <1>4, CoveredGrows
<1>6. ToSet(log[p]) \subseteq ToSet(log'[p])
  BY <1>0 DEF Grows
<1>7. ASSUME NEW i \in DOMAIN log'[p], NEW o \in ToSet(m.ops), log'[p][i].hlc = o.hlc
      PROVE  i - 1 <= m.upto
  <2>1. log'[p][i] \in ToSet(log'[p])
    BY <1>7 DEF ToSet
  <2>2. log'[p][i].hlc.peer = p
    BY <1>3, <1>7
  <2>3. log'[p][i] \in ToSet(log[p])
    BY <1>0, <1>3, <1>7, <2>1, <2>2 DEF NewOwnFresh
  <2>4. i \in DOMAIN log[p] /\ log'[p][i] = log[p][i]
    BY <1>1, <2>3, StaysAtIndex
  <2> QED BY <1>3, <1>7, <2>4
<1>8. m.upto <= MaxSeq(log'[p])
  BY <1>0, <1>2, <1>3
<1> QED BY <1>3, <1>5, <1>6, <1>7, <1>8

-----------------------------------------------------------------------------
(* Statements.                                                             *)

Clock == [wall : Nat, logical : Nat]

\* Clocks that have reached the timestamp h.
Reached(h) == {c \in Clock : ~Earlier(c, h)}

\* Observing its own timestamps leaves a clock at or beyond them.
LEMMA ObserveReached ==
    ASSUME NEW p, NEW h \in [wall : Nat, logical : Nat, peer : Peer],
           NEW c \in Reached(h), NEW bodies \in Seq({"write", "reserve"})
    PROVE  FoldLeft(LAMBDA x, b : ObserveClock(x, h, 0), c, bodies) \in Reached(h)
<1>. DEFINE n == Len(bodies)
            T == Reached(h)
            H == [i \in 1..n |-> [x \in T |-> ObserveClock(x, h, 0)]]
            Eq(it) == it = [s \in SUBSET DOMAIN bodies |->
                              IF s = {} THEN c ELSE ObserveClock(it[s \ {Max(s)}], h, 0)]
            f == CHOOSE it : Eq(it)
<1>1. FoldLeft(LAMBDA x, b : ObserveClock(x, h, 0), c, bodies) = f[DOMAIN bodies]
  BY DEF FoldLeft, MapThenFoldSet
<1>2. n \in Nat /\ DOMAIN bodies = 1..n
  OBVIOUS
<1>3. \A x \in T : ObserveClock(x, h, 0) \in T
  BY DEF Reached, Clock, Earlier, ObserveClock, Larger
<1>4. H \in [1..n -> [T -> T]]
  BY <1>3
<1>5. PICK it : IsFold(it, n, T, c, H)
  <2> HIDE DEF H, T, n
  <2> QED BY <1>2, <1>4, FoldExists DEF T
<1>6. Eq(it)
  <2>1. ASSUME NEW s \in SUBSET (1..n), s # {}
        PROVE  H[Max(s)][it[s \ {Max(s)}]] = ObserveClock(it[s \ {Max(s)}], h, 0)
    <3>1. Max(s) \in 1..n /\ it[s \ {Max(s)}] \in T
      <4> HIDE DEF H, T
      <4> QED BY <1>2, <1>5, <2>1, MaxOfIndices DEF IsFold
    <3> QED BY <3>1
  <2> QED BY <1>2, <1>5, <2>1 DEF IsFold
<1>7. Eq(f)
  BY <1>6
<1>. HIDE DEF f
<1>8. Iterates(f, n, T, c, H)
  <2>1. \A s \in SUBSET (1..n) : s # {} => Max(s) \in 1..n
    BY <1>2, MaxOfIndices
  <2>2. f[{}] = c
    BY <1>7
  <2>3. \A s \in SUBSET (1..n) : s # {} => f[s] = ObserveClock(f[s \ {Max(s)}], h, 0)
    BY <1>2, <1>7
  <2> HIDE DEF T, n
  <2> QED BY <2>1, <2>2, <2>3 DEF Iterates
<1>9. EndsRun(f[1..n], n, T, c, H)
  <2> HIDE DEF H, T, n
  <2> QED BY <1>2, <1>4, <1>8, FoldIsRun DEF T
<1>10. f[1..n] \in T
  <2>1. n \in 0..n
    BY <1>2
  <2> HIDE DEF H, T, n
  <2> QED BY <1>9, <2>1 DEF EndsRun, IsRun
<1> QED BY <1>1, <1>2, <1>10

LEMMA ExecuteKeeps ==
    ASSUME IInv, NEW p \in Peer, Execute(p)
    PROVE  IInv'
<1>. DEFINE c == TickClock(clock[p], 0)
            h == Stamp(c, p)
<1>1. PICK bodies \in Groups :
        /\ log' = [log EXCEPT ![p] =
                    AppendAll(@, [i \in DOMAIN bodies |-> [hlc |-> h, body |-> bodies[i]]])]
        /\ clock' = [clock EXCEPT ![p] =
                        FoldLeft(LAMBDA x, b : ObserveClock(x, h, 0), c, bodies)]
        /\ UNCHANGED <<cursor, acks, deltas>>
  BY DEF Execute
<1>. DEFINE ops == [i \in DOMAIN bodies |-> [hlc |-> h, body |-> bodies[i]]]
<1>2. Typed /\ clock[p] \in Clock /\ log[p] \in Seq(Op)
  BY DEF IInv, Typed, Clock
<1>3. c \in Clock /\ Earlier(clock[p], h) /\ ~Earlier(c, h)
      /\ h \in [wall : Nat, logical : Nat, peer : Peer] /\ h.peer = p
  BY <1>2 DEF TickClock, Stamp, Earlier, Clock
<1>4. bodies \in Seq({"write", "reserve"})
  <2>1. <<"write">> \in Seq({"write", "reserve"})
    OBVIOUS
  <2>2. <<"write", "reserve">> \in Seq({"write", "reserve"})
    OBVIOUS
  <2> QED BY <2>1, <2>2 DEF Groups
<1>5. clock'[p] \in Clock /\ ~Earlier(clock'[p], h)
      /\ \A q \in Peer : q # p => clock'[q] = clock[q]
  <2>1. c \in Reached(h)
    BY <1>3 DEF Reached
  <2>. HIDE DEF c, h
  <2>2. FoldLeft(LAMBDA x, b : ObserveClock(x, h, 0), c, bodies) \in Reached(h)
    BY <1>3, <1>4, <2>1, ObserveReached
  <2>3. clock'[p] = FoldLeft(LAMBDA x, b : ObserveClock(x, h, 0), c, bodies)
    BY <1>1, <1>2 DEF Typed
  <2>4. clock'[p] \in Reached(h)
    BY <2>2, <2>3
  <2>5. \A q \in Peer : q # p => clock'[q] = clock[q]
    BY <1>1, <1>2 DEF Typed
  <2> QED BY <2>4, <2>5 DEF Reached
<1>6. ops \in Seq(Op) /\ \A o \in ToSet(ops) : o.hlc = h
  <2>1. ops \in Seq(Op)
    <3>1. /\ Len(bodies) \in Nat /\ DOMAIN bodies = 1..Len(bodies)
          /\ \A i \in 1..Len(bodies) : bodies[i] \in {"write", "reserve"}
      BY <1>4
    <3>2. \A i \in 1..Len(bodies) : [hlc |-> h, body |-> bodies[i]] \in Op
      BY <1>3, <3>1 DEF Op
    <3>3. ops \in [1..Len(bodies) -> Op]
      BY <3>1, <3>2
    <3>. DEFINE n == Len(bodies)
    <3>4. n \in Nat /\ ops \in [1..n -> Op]
      BY <3>1, <3>3
    <3> HIDE DEF ops, n
    <3> QED BY <3>4
  <2>2. \A o \in ToSet(ops) : o.hlc = h
    BY DEF ToSet
  <2> QED BY <2>1, <2>2
<1>. HIDE DEF ops, c, h
<1>7. /\ log'[p] \in Seq(Op)
      /\ Extends(log'[p], log[p])
      /\ ToSet(log'[p]) = ToSet(log[p]) \cup ToSet(ops)
      /\ Distinct(log'[p])
  <2>1. log'[p] = AppendAll(log[p], ops)
    BY <1>1, <1>2 DEF Typed, ops
  <2>2. Distinct(log[p])
    BY DEF IInv, NoDuplicates
  <2> QED BY <1>2, <1>6, <2>1, <2>2, AppendAllFacts
<1>8. \A q \in Peer : q # p => log'[q] = log[q]
  BY <1>1, <1>2 DEF Typed
<1>9. Typed'
  <2>1. log' \in [Peer -> Seq(Op)]
    <3>1. log' = [q \in Peer |-> log'[q]]
      BY <1>1, <1>2 DEF Typed
    <3>2. \A q \in Peer : log'[q] \in Seq(Op)
      BY <1>2, <1>7, <1>8 DEF Typed
    <3> QED BY <3>1, <3>2
  <2>2. clock' \in [Peer -> Clock]
    <3>1. clock' = [q \in Peer |-> clock'[q]]
      BY <1>1, <1>2 DEF Typed
    <3>2. \A q \in Peer : clock'[q] \in Clock
      BY <1>2, <1>5 DEF Typed, Clock
    <3> QED BY <3>1, <3>2
  <2> QED BY <1>1, <1>2, <2>1, <2>2 DEF Typed, Clock
<1>10. Grows
  <2>1. \A q \in Peer : Extends(log[q], log[q]) /\ Distinct(log[q])
    BY <1>2, LogFacts DEF Extends, IInv, NoDuplicates
  <2> QED BY <1>7, <1>8, <1>9, <2>1 DEF Grows, Typed
\* Nothing has the timestamp of the statement yet.
<1>11. \A q \in Peer : \A o \in ToSet(log[q]) : o.hlc # h
  <2>1. SUFFICES ASSUME NEW q \in Peer, NEW o \in ToSet(log[q]), o.hlc = h PROVE FALSE
    OBVIOUS
  <2>2. o.hlc.peer = p
    BY <1>3, <2>1
  <2>3. o \in ToSet(log[p])
    BY <2>2 DEF IInv, Origin
  <2>4. ~Earlier(clock[p], o.hlc)
    BY <2>2, <2>3 DEF IInv, Floor
  <2> QED BY <1>3, <2>1, <2>4
<1>12. NoDuplicates'
  BY <1>10 DEF NoDuplicates, Grows
<1>13. Floor'
  <2>1. SUFFICES ASSUME NEW q \in Peer, NEW o \in ToSet(log'[q]), o.hlc.peer = q
                 PROVE  ~Earlier(clock'[q], o.hlc)
    BY DEF Floor
  <2>2. CASE q # p
    BY <1>5, <1>8, <2>1, <2>2 DEF IInv, Floor
  <2>3. CASE q = p /\ o \in ToSet(ops)
    BY <1>5, <1>6, <2>3
  <2>4. CASE q = p /\ o \in ToSet(log[p])
    <3>1. ~Earlier(clock[p], o.hlc)
      BY <2>1, <2>4 DEF IInv, Floor
    <3>2. o.hlc \in [wall : Nat, logical : Nat, peer : Peer]
      BY <1>2, <2>4, LogFacts DEF Op
    <3> QED BY <1>2, <1>3, <1>5, <2>4, <3>1, <3>2 DEF Earlier, Clock
  <2> QED BY <1>7, <2>2, <2>3, <2>4
<1>14. Origin'
  <2>1. SUFFICES ASSUME NEW q \in Peer, NEW o \in ToSet(log'[q])
                 PROVE  o \in ToSet(log'[o.hlc.peer])
    BY DEF Origin
  <2>2. CASE o \in ToSet(log[q])
    <3>1. o.hlc.peer \in Peer /\ o \in ToSet(log[o.hlc.peer])
      BY <1>2, <2>2, LogFacts DEF IInv, Origin
    <3> QED BY <1>10, <3>1 DEF Grows
  <2>3. CASE q = p /\ o \in ToSet(ops)
    BY <1>3, <1>6, <1>7, <2>3
  <2> QED BY <1>7, <1>8, <2>1, <2>2, <2>3
<1>15. SplitAtZero'
  <2>1. SUFFICES ASSUME NEW q \in Peer, NEW r \in Peer,
                        NEW a \in ToSet(log'[q]), NEW o \in ToSet(log'[r]), a.hlc = o.hlc
                 PROVE  o \in ToSet(log'[q]) \/ o = log'[o.hlc.peer][1]
    BY DEF SplitAtZero
  <2>2. CASE o.hlc = h
    <3>1. a \notin ToSet(log[q]) /\ o \notin ToSet(log[r])
      BY <1>11, <2>1, <2>2
    <3>2. q = p /\ r = p
      BY <1>8, <2>1, <3>1
    <3> QED BY <2>1, <3>2
  <2>3. CASE o.hlc # h
    <3>1. a \in ToSet(log[q]) /\ o \in ToSet(log[r])
      BY <1>6, <1>7, <1>8, <2>1, <2>3
    <3>2. o \in ToSet(log[q]) \/ o = log[o.hlc.peer][1]
      BY <2>1, <3>1 DEF IInv, SplitAtZero
    <3>3. o.hlc.peer \in Peer /\ o \in ToSet(log[o.hlc.peer])
      BY <1>2, <3>1, LogFacts DEF IInv, Origin
    <3>4. log'[o.hlc.peer][1] = log[o.hlc.peer][1]
      BY <1>2, <1>10, <3>3, FirstStays
    <3> QED BY <1>10, <3>2, <3>4 DEF Grows
  <2> QED BY <2>2, <2>3
<1>16. CursorInv'
  BY <1>1, <1>10, CursorsKeep
<1>17. AcksBehind'
  BY <1>1 DEF IInv, AcksBehind
<1>18. DeltaInv'
  <2>1. NewOwnFresh
    BY <1>6, <1>7, <1>8, <1>11 DEF NewOwnFresh
  <2> QED BY <1>1, <1>10, <2>1, DeltasKeep
<1> QED BY <1>9, <1>12, <1>13, <1>14, <1>15, <1>16, <1>17, <1>18 DEF IInv

-----------------------------------------------------------------------------
(* Deltas, exchanges and acknowledgements.                                 *)

\* A step that leaves the logs and the clocks alone.
LEMMA LogsStay ==
    ASSUME IInv, UNCHANGED <<clock, log>>
    PROVE  Moves /\ SplitAtZero'
<1>1. \A q \in Peer : Extends(log[q], log[q]) /\ Distinct(log[q])
  BY LogFacts DEF Extends, IInv, NoDuplicates
<1>2. Grows
  BY <1>1 DEF Grows, IInv, Typed
<1>3. SplitAtZero'
  BY DEF IInv, SplitAtZero
<1> QED BY <1>2, <1>3 DEF Moves

LEMMA SendDeltaKeeps ==
    ASSUME IInv, NEW p \in Peer, NEW q \in Peer \ {p}, SendDelta(p, q)
    PROVE  IInv'
<1>. DEFINE d == ComputeDelta(p, log[p], cursor[q][p])
            m == [from |-> p, to |-> q, ops |-> d.ops, upto |-> d.upto]
<1>1. deltas' = deltas \cup {m} /\ UNCHANGED <<executed, clock, log, cursor, acks>>
  BY DEF SendDelta
<1>2. Moves /\ SplitAtZero'
  BY <1>1, LogsStay
<1>3. NoDuplicates' /\ Floor' /\ Origin'
  BY <1>2, MovesKeep
<1>4. /\ d.ops \in Seq(Op)
      /\ d.upto \in Nat /\ d.upto <= MaxSeq(log[p])
      /\ \A o \in ToSet(d.ops) : o.hlc.peer = p /\ o \in ToSet(log[p])
      /\ \A i \in DOMAIN log[p] : log[p][i].hlc.peer = p =>
           i - 1 <= d.upto /\ (i - 1 > cursor[q][p] => log[p][i] \in ToSet(d.ops))
  <2>1. log[p] \in Seq(Op) /\ cursor[q][p] \in Nat /\ cursor[q][p] <= MaxSeq(log[p])
    BY DEF IInv, Typed, CursorInv
  <2> QED BY <2>1, DeltaFacts
<1>. HIDE DEF d
<1>5. Typed'
  <2>1. m \in [from : Peer, to : Peer, ops : Seq(Op), upto : Nat]
    BY <1>4
  <2> QED BY <1>1, <2>1 DEF IInv, Typed
<1>6. CursorInv' /\ AcksBehind'
  BY <1>1 DEF IInv, CursorInv, AcksBehind
<1>7. /\ p # q
      /\ d.upto <= MaxSeq(log[p])
      /\ \A o \in ToSet(d.ops) : o.hlc.peer = p /\ o \in ToSet(log[p])
      /\ Covered(log[p], p, d.upto, ToSet(d.ops) \cup ToSet(log[q]))
      /\ \A i \in DOMAIN log[p] : \A o \in ToSet(d.ops) :
            log[p][i].hlc = o.hlc => i - 1 <= d.upto
  <2>1. Covered(log[p], p, cursor[q][p], ToSet(log[q]))
    BY DEF IInv, CursorInv
  <2>2. cursor[q][p] \in Nat /\ DOMAIN log[p] \subseteq Nat
    <3>0. Typed
      BY DEF IInv
    <3>1. Typed /\ cursor[q][p] \in Nat
      BY <3>0 DEF Typed
    <3>2. DOMAIN log[p] = 1..Len(log[p])
      BY <3>1, LogFacts
    <3> QED BY <3>1, <3>2
  <2>3. Covered(log[p], p, d.upto, ToSet(d.ops) \cup ToSet(log[q]))
    BY <1>4, <2>1, <2>2 DEF Covered
  <2> QED BY <1>4, <2>3
<1>8. DeltaInv'
  <2>1. m.from = p /\ m.to = q /\ m.ops = d.ops /\ m.upto = d.upto
    OBVIOUS
  <2>. HIDE DEF m
  <2> QED BY <1>1, <1>7, <2>1 DEF IInv, DeltaInv
<1> QED BY <1>2, <1>3, <1>5, <1>6, <1>8 DEF IInv

LEMMA AckKeeps ==
    ASSUME IInv, NEW p \in Peer, NEW q \in Peer, Ack(p, q)
    PROVE  IInv'
<1>1. acks' = [acks EXCEPT ![p][q] = Larger(@, cursor[q][p])]
      /\ UNCHANGED <<executed, clock, log, cursor, deltas>>
  BY DEF Ack, Advance
<1>2. Moves /\ SplitAtZero'
  BY <1>1, LogsStay
<1>3. NoDuplicates' /\ Floor' /\ Origin'
  BY <1>2, MovesKeep
<1>4. /\ acks[p][q] \in Nat \cup {NoAck} /\ cursor[q][p] \in Nat
      /\ acks[p][q] <= cursor[q][p]
  BY DEF IInv, Typed, AcksBehind
<1>5. Larger(acks[p][q], cursor[q][p]) = cursor[q][p]
  BY <1>4 DEF Larger, NoAck
<1>6. Typed'
  BY <1>1, <1>4, <1>5 DEF IInv, Typed
<1>7. CursorInv' /\ DeltaInv'
  BY <1>1 DEF IInv, CursorInv, DeltaInv
<1>8. AcksBehind'
  <2>1. SUFFICES ASSUME NEW a \in Peer, NEW b \in Peer PROVE acks'[a][b] <= cursor[b][a]
    BY <1>1 DEF AcksBehind
  <2>2. acks'[a][b] = IF a = p /\ b = q THEN cursor[q][p] ELSE acks[a][b]
    BY <1>1, <1>5 DEF IInv, Typed
  <2> QED BY <1>4, <2>2 DEF IInv, AcksBehind
<1> QED BY <1>2, <1>3, <1>6, <1>7, <1>8 DEF IInv

\* Cursors only advance, and acknowledgements stay behind them.
LEMMA AcksKeep ==
    ASSUME IInv, acks' = acks, cursor' \in [Peer -> [Peer -> Nat]],
           \A p, q \in Peer : cursor[q][p] <= cursor'[q][p]
    PROVE  AcksBehind'
<1>. SUFFICES ASSUME NEW p \in Peer, NEW q \in Peer PROVE acks[p][q] <= cursor'[q][p]
  BY DEF AcksBehind
<1>1. acks[p][q] \in Nat \cup {NoAck} /\ acks[p][q] <= cursor[q][p] /\ cursor[q][p] \in Nat
      /\ cursor'[q][p] \in Nat /\ cursor[q][p] <= cursor'[q][p]
  BY DEF IInv, Typed, AcksBehind
<1> QED BY <1>1 DEF NoAck

LEMMA DeliverKeeps ==
    ASSUME IInv, NEW m \in deltas, Deliver(m)
    PROVE  IInv'
<1>. DEFINE p == m.from
            q == m.to
<1>0. /\ Typed /\ p \in Peer /\ q \in Peer /\ m.ops \in Seq(Op) /\ m.upto \in Nat
      /\ log[q] \in Seq(Op) /\ cursor[q][p] \in Nat
  BY DEF IInv, Typed
<1>1. /\ log' = [log EXCEPT ![q] = AppendAll(@, m.ops)]
      /\ cursor' = [cursor EXCEPT ![q][p] = Larger(@, m.upto)]
      /\ UNCHANGED <<executed, clock, acks, deltas>>
  BY DEF Deliver, Advance
<1>2. /\ p # q
      /\ m.upto <= MaxSeq(log[p])
      /\ \A o \in ToSet(m.ops) : o.hlc.peer = p /\ o \in ToSet(log[p])
      /\ Covered(log[p], p, m.upto, ToSet(m.ops) \cup ToSet(log[q]))
      /\ \A i \in DOMAIN log[p] : \A o \in ToSet(m.ops) :
            log[p][i].hlc = o.hlc => i - 1 <= m.upto
  BY DEF IInv, DeltaInv
<1>3. /\ log'[q] \in Seq(Op)
      /\ Extends(log'[q], log[q])
      /\ ToSet(log'[q]) = ToSet(log[q]) \cup ToSet(m.ops)
      /\ Distinct(log'[q])
  <2>1. log'[q] = AppendAll(log[q], m.ops)
    BY <1>0, <1>1 DEF Typed
  <2>2. Distinct(log[q])
    BY <1>0 DEF IInv, NoDuplicates
  <2> HIDE DEF p, q
  <2> QED BY <1>0, <2>1, <2>2, AppendAllFacts
<1>4. \A r \in Peer : r # q => log'[r] = log[r]
  BY <1>0, <1>1 DEF Typed
<1>5. cursor'[q][p] = Larger(cursor[q][p], m.upto)
      /\ \A r, s \in Peer : r # q \/ s # p => cursor'[r][s] = cursor[r][s]
  BY <1>0, <1>1 DEF Typed
<1>6. Larger(cursor[q][p], m.upto) \in Nat /\ cursor[q][p] <= Larger(cursor[q][p], m.upto)
  BY <1>0, LargerFacts
<1>. HIDE DEF p, q
<1>7. Typed'
  <2>1. log' \in [Peer -> Seq(Op)]
    <3>1. log' = [r \in Peer |-> log'[r]]
      BY <1>0, <1>1 DEF Typed
    <3>2. \A r \in Peer : log'[r] \in Seq(Op)
      BY <1>0, <1>3, <1>4 DEF Typed
    <3> QED BY <3>1, <3>2
  <2>2. cursor' \in [Peer -> [Peer -> Nat]]
    BY <1>0, <1>1, <1>6 DEF Typed
  <2> QED BY <1>0, <1>1, <2>1, <2>2 DEF Typed
<1>8. Grows
  <2>1. \A r \in Peer : Extends(log[r], log[r]) /\ Distinct(log[r])
    BY <1>0, LogFacts DEF Extends, IInv, NoDuplicates
  <2> QED BY <1>3, <1>4, <1>7, <2>1 DEF Grows, Typed
<1>9. Moves
  <2>1. \A r \in Peer : \A o \in ToSet(log'[r]) : \E s \in Peer : o \in ToSet(log[s])
    BY <1>0, <1>2, <1>3, <1>4
  <2> QED BY <1>1, <1>8, <2>1 DEF Moves
<1>10. NoDuplicates' /\ Floor' /\ Origin'
  BY <1>9, MovesKeep
<1>11. SplitAtZero'
  <2>1. SUFFICES ASSUME NEW r \in Peer, NEW s \in Peer,
                        NEW a \in ToSet(log'[r]), NEW o \in ToSet(log'[s]), a.hlc = o.hlc
                 PROVE  o \in ToSet(log'[r]) \/ o = log'[o.hlc.peer][1]
    BY DEF SplitAtZero
  <2>2. /\ o.hlc.peer \in Peer /\ o \in ToSet(log[o.hlc.peer])
        /\ log'[o.hlc.peer][1] = log[o.hlc.peer][1]
    BY <1>9, MovesKeep
  <2>3. CASE a \in ToSet(log[r])
    <3>1. o \in ToSet(log[r]) \/ o = log[o.hlc.peer][1]
      BY <2>1, <2>2, <2>3 DEF IInv, SplitAtZero
    <3> QED BY <1>8, <2>2, <3>1 DEF Grows
  \* The delta took the whole group.
  <2>4. CASE r = q /\ a \in ToSet(m.ops)
    <3>1. o.hlc.peer = p
      BY <1>2, <2>1, <2>4
    <3>2. PICK i \in DOMAIN log[p] : log[p][i] = o
      BY <2>2, <3>1 DEF ToSet
    <3>3. i - 1 <= m.upto
      BY <1>2, <2>1, <2>4, <3>2
    <3>4. i = 1 \/ o \in ToSet(m.ops) \cup ToSet(log[q])
      BY <1>2, <3>1, <3>2, <3>3 DEF Covered
    <3> QED BY <1>3, <2>2, <2>4, <3>1, <3>2, <3>4
  <2> QED BY <1>3, <1>4, <2>1, <2>3, <2>4
<1>12. CursorInv'
  <2>1. SUFFICES ASSUME NEW r \in Peer, NEW s \in Peer
                 PROVE  /\ cursor'[s][r] <= MaxSeq(log'[r])
                        /\ r # s => Covered(log'[r], r, cursor'[s][r], ToSet(log'[s]))
    BY DEF CursorInv
  <2>2. /\ log[r] \in Seq(Op) /\ log'[r] \in Seq(Op) /\ Extends(log'[r], log[r])
        /\ ToSet(log[s]) \subseteq ToSet(log'[s])
        /\ cursor[s][r] \in Nat
    BY <1>0, <1>8 DEF Grows, Typed
  <2>3. MaxSeq(log[r]) \in Nat /\ MaxSeq(log'[r]) \in Nat /\ MaxSeq(log[r]) <= MaxSeq(log'[r])
    BY <2>2, MaxSeqFacts
  <2>4. /\ cursor[s][r] <= MaxSeq(log[r])
        /\ r # s => Covered(log[r], r, cursor[s][r], ToSet(log[s]))
    BY DEF IInv, CursorInv
  <2>5. r # s => Covered(log'[r], r, cursor[s][r], ToSet(log'[s]))
    BY <2>2, <2>4, CoveredGrows
  <2>6. CASE ~(s = q /\ r = p)
    BY <1>5, <2>2, <2>3, <2>4, <2>5, <2>6
  <2>7. CASE s = q /\ r = p
    <3>1. Covered(log[p], p, m.upto, ToSet(log'[q]))
      BY <1>2, <1>3
    <3>2. Covered(log'[p], p, m.upto, ToSet(log'[q]))
      BY <1>0, <1>2, <2>2, <2>7, <3>1, CoveredGrows
    <3>3. Covered(log'[p], p, Larger(cursor[q][p], m.upto), ToSet(log'[q]))
      BY <1>0, <1>2, <2>5, <2>7, <3>2, CoveredLarger
    <3>4. Larger(cursor[q][p], m.upto) <= MaxSeq(log[p])
      BY <1>0, <1>2, <2>4, <2>7 DEF Larger
    <3>5. Larger(cursor[q][p], m.upto) <= MaxSeq(log'[p])
      BY <1>6, <2>3, <2>7, <3>4
    <3> QED BY <1>5, <2>7, <3>3, <3>5
  <2> QED BY <2>6, <2>7
<1>13. AcksBehind'
  <2>1. \A r, s \in Peer : cursor[s][r] <= cursor'[s][r]
    <3>1. \A r, s \in Peer : cursor[s][r] \in Nat
      BY <1>0 DEF Typed
    <3> QED BY <1>5, <1>6, <3>1
  <2> QED BY <1>1, <1>7, <2>1, AcksKeep DEF Typed
<1>14. DeltaInv'
  <2>1. NewOwnFresh
    <3>1. \A r \in Peer : \A o \in ToSet(log'[r]) : o.hlc.peer = r => o \in ToSet(log[r])
      BY <1>9, MovesKeep
    <3> QED BY <3>1 DEF NewOwnFresh
  <2> QED BY <1>1, <1>8, <2>1, DeltasKeep
<1> QED BY <1>7, <1>10, <1>11, <1>12, <1>13, <1>14 DEF IInv

\* One direction of an exchange: what the log of r is afterwards.
Received(r, s) ==
    /\ log'[r] \in Seq(Op)
    /\ Extends(log'[r], log[r])
    /\ ToSet(log'[r]) =
          ToSet(log[r]) \cup {o \in ToSet(log[s]) : o.hlc \notin Fingerprints(log[r])}
    /\ Distinct(log'[r])

LEMMA ReceivedFacts ==
    ASSUME IInv, NEW r \in Peer, NEW s \in Peer,
           log'[r] = AppendAll(log[r], MissingOps(log[s], log[r]))
    PROVE  Received(r, s)
<1>1. log[r] \in Seq(Op) /\ log[s] \in Seq(Op) /\ Distinct(log[r])
  BY DEF IInv, Typed, NoDuplicates
<1>. DEFINE ops == MissingOps(log[s], log[r])
<1>2. ops \in Seq(Op) /\ ToSet(ops) = {o \in ToSet(log[s]) : o.hlc \notin Fingerprints(log[r])}
  BY <1>1, MissingOpsFacts
<1>. HIDE DEF ops
<1>3. /\ AppendAll(log[r], ops) \in Seq(Op)
      /\ Extends(AppendAll(log[r], ops), log[r])
      /\ ToSet(AppendAll(log[r], ops)) = ToSet(log[r]) \cup ToSet(ops)
      /\ Distinct(log[r]) => Distinct(AppendAll(log[r], ops))
  BY <1>1, <1>2, AppendAllFacts
<1>4. log'[r] = AppendAll(log[r], ops)
  BY DEF ops
<1> QED BY <1>1, <1>2, <1>3, <1>4 DEF Received

\* After an exchange the other peer has all own operations but, perhaps, entry
\* zero.
LEMMA ExchangeCovers ==
    ASSUME IInv, Moves, NEW p \in Peer, NEW q \in Peer, Received(q, p),
           NEW u
    PROVE  Covered(log'[p], p, u, ToSet(log'[q]))
<1>. SUFFICES ASSUME NEW i \in DOMAIN log'[p], i # 1, log'[p][i].hlc.peer = p
              PROVE  log'[p][i] \in ToSet(log'[q])
  BY DEF Covered
<1>. DEFINE o == log'[p][i]
<1>1. o \in ToSet(log'[p]) /\ o.hlc.peer = p
  BY DEF ToSet
<1>2. o \in ToSet(log[p])
  BY <1>1, MovesKeep
<1>3. /\ log[p] \in Seq(Op) /\ log'[p] \in Seq(Op)
      /\ Extends(log'[p], log[p]) /\ Distinct(log'[p])
  BY DEF IInv, Typed, Moves, Grows
<1>4. i \in DOMAIN log[p] /\ o = log[p][i]
  BY <1>2, <1>3, StaysAtIndex
<1>5. CASE o.hlc \notin Fingerprints(log[q])
  BY <1>2, <1>5 DEF Received
<1>6. CASE o.hlc \in Fingerprints(log[q])
  <2>1. PICK a \in ToSet(log[q]) : a.hlc = o.hlc
    BY <1>6 DEF Fingerprints, ToSet
  <2>2. o \in ToSet(log[q]) \/ o = log[p][1]
    BY <1>1, <1>2, <2>1 DEF IInv, SplitAtZero
  <2>3. o # log[p][1]
    <3>1. 1 \in DOMAIN log[p] /\ Distinct(log[p])
      <4>1. DOMAIN log[p] = 1..Len(log[p]) /\ Len(log[p]) \in Nat
        BY <1>3
      <4> QED BY <1>4, <4>1 DEF IInv, NoDuplicates
    <3> QED BY <1>4, <3>1 DEF Distinct
  <2> QED BY <2>2, <2>3 DEF Received
<1> QED BY <1>5, <1>6

LEMMA SyncPeersKeeps ==
    ASSUME IInv, NEW p \in Peer, NEW q \in Peer, p # q, SyncPeers(p, q)
    PROVE  IInv'
<1>0. Typed /\ log[p] \in Seq(Op) /\ log[q] \in Seq(Op)
      /\ cursor[p][q] \in Nat /\ cursor[q][p] \in Nat
  BY DEF IInv, Typed
<1>1. /\ log' = [log EXCEPT ![p] = AppendAll(@, MissingOps(log[q], log[p])),
                            ![q] = AppendAll(@, MissingOps(log[p], log[q]))]
      /\ cursor' = [cursor EXCEPT ![q][p] = Larger(@, MaxSeq(log'[p])),
                                  ![p][q] = Larger(@, MaxSeq(log'[q]))]
      /\ UNCHANGED <<executed, clock, acks, deltas>>
  BY DEF SyncPeers, Advance
<1>2. Received(p, q)
  <2>1. log'[p] = AppendAll(log[p], MissingOps(log[q], log[p]))
    BY <1>0, <1>1 DEF Typed
  <2> QED BY <2>1, ReceivedFacts
<1>3. Received(q, p)
  <2>1. log'[q] = AppendAll(log[q], MissingOps(log[p], log[q]))
    BY <1>0, <1>1 DEF Typed
  <2> QED BY <2>1, ReceivedFacts
<1>4. \A r \in Peer : r # p /\ r # q => log'[r] = log[r]
  BY <1>0, <1>1 DEF Typed
<1>5. log' \in [Peer -> Seq(Op)]
  <2>1. log' = [r \in Peer |-> log'[r]]
    BY <1>0, <1>1 DEF Typed
  <2>2. \A r \in Peer : log'[r] \in Seq(Op)
    BY <1>0, <1>2, <1>3, <1>4 DEF Typed, Received
  <2> QED BY <2>1, <2>2
<1>6. Grows
  <2>1. \A r \in Peer : Extends(log[r], log[r]) /\ Distinct(log[r])
    BY <1>0, LogFacts DEF Extends, IInv, NoDuplicates
  <2>2. \A r \in Peer : ToSet(log[r]) \subseteq ToSet(log'[r])
    BY <1>2, <1>3, <1>4 DEF Received
  <2> QED BY <1>2, <1>3, <1>4, <1>5, <2>1, <2>2 DEF Grows, Received
<1>7. Moves
  <2>1. \A r \in Peer : \A o \in ToSet(log'[r]) : \E s \in Peer : o \in ToSet(log[s])
    BY <1>2, <1>3, <1>4 DEF Received
  <2> QED BY <1>1, <1>6, <2>1 DEF Moves
<1>8. NoDuplicates' /\ Floor' /\ Origin'
  BY <1>7, MovesKeep
<1>9. /\ MaxSeq(log'[p]) \in Nat /\ MaxSeq(log'[q]) \in Nat
      /\ cursor'[q][p] = Larger(cursor[q][p], MaxSeq(log'[p]))
      /\ cursor'[p][q] = Larger(cursor[p][q], MaxSeq(log'[q]))
      /\ \A r, s \in Peer : ~(r = q /\ s = p) /\ ~(r = p /\ s = q)
            => cursor'[r][s] = cursor[r][s]
  <2>1. MaxSeq(log'[p]) \in Nat /\ MaxSeq(log'[q]) \in Nat
    BY <1>0, <1>2, <1>3, MaxSeqFacts DEF Received
  <2>2. cursor'[q][p] = Larger(cursor[q][p], MaxSeq(log'[p]))
    BY <1>0, <1>1 DEF Typed
  <2>3. cursor'[p][q] = Larger(cursor[p][q], MaxSeq(log'[q]))
    BY <1>0, <1>1 DEF Typed
  <2>4. \A r, s \in Peer : ~(r = q /\ s = p) /\ ~(r = p /\ s = q)
            => cursor'[r][s] = cursor[r][s]
    BY <1>0, <1>1 DEF Typed
  <2> QED BY <2>1, <2>2, <2>3, <2>4
<1>10. \A r, s \in Peer : cursor'[r][s] \in Nat /\ cursor[r][s] <= cursor'[r][s]
  <2>1. \A r, s \in Peer : cursor[r][s] \in Nat
    BY <1>0 DEF Typed
  <2>2. /\ Larger(cursor[q][p], MaxSeq(log'[p])) \in Nat
        /\ cursor[q][p] <= Larger(cursor[q][p], MaxSeq(log'[p]))
    BY <1>0, <1>9, LargerFacts
  <2>3. /\ Larger(cursor[p][q], MaxSeq(log'[q])) \in Nat
        /\ cursor[p][q] <= Larger(cursor[p][q], MaxSeq(log'[q]))
    BY <1>0, <1>9, LargerFacts
  <2> QED BY <1>9, <2>1, <2>2, <2>3
<1>11. Typed'
  <2>1. cursor' \in [Peer -> [Peer -> Nat]]
    <3>1. cursor' = [r \in Peer |-> cursor'[r]]
      BY <1>0, <1>1 DEF Typed
    <3>2. \A r \in Peer : cursor'[r] = [s \in Peer |-> cursor'[r][s]]
      BY <1>0, <1>1 DEF Typed
    <3> QED BY <1>10, <3>1, <3>2
  <2> QED BY <1>0, <1>1, <1>5, <2>1 DEF Typed
<1>12. SplitAtZero'
  <2>1. SUFFICES ASSUME NEW r \in Peer, NEW s \in Peer,
                        NEW a \in ToSet(log'[r]), NEW o \in ToSet(log'[s]), a.hlc = o.hlc
                 PROVE  o \in ToSet(log'[r]) \/ o = log'[o.hlc.peer][1]
    BY DEF SplitAtZero
  <2>2. /\ o.hlc.peer \in Peer /\ o \in ToSet(log[o.hlc.peer])
        /\ log'[o.hlc.peer][1] = log[o.hlc.peer][1]
    BY <1>7, MovesKeep
  <2>3. CASE a \in ToSet(log[r])
    <3>1. o \in ToSet(log[r]) \/ o = log[o.hlc.peer][1]
      BY <2>1, <2>2, <2>3 DEF IInv, SplitAtZero
    <3> QED BY <1>6, <2>2, <3>1 DEF Grows
  \* The exchange brought what the sender has of the group.
  <2>4. ASSUME NEW x \in Peer, Received(r, x), a \in ToSet(log[x]),
               a.hlc \notin Fingerprints(log[r])
        PROVE  o \in ToSet(log'[r]) \/ o = log'[o.hlc.peer][1]
    <3>1. o \in ToSet(log[x]) \/ o = log[o.hlc.peer][1]
      BY <2>1, <2>2, <2>4 DEF IInv, SplitAtZero
    <3>2. o \in ToSet(log[x]) => o \in ToSet(log'[r])
      BY <2>1, <2>4 DEF Received
    <3> QED BY <2>2, <3>1, <3>2
  <2>5. CASE a \notin ToSet(log[r])
    <3>1. r = p \/ r = q
      BY <1>4, <2>1, <2>5
    <3>2. CASE r = p
      BY <1>2, <2>1, <2>4, <2>5, <3>2 DEF Received
    <3>3. CASE r = q
      BY <1>3, <2>1, <2>4, <2>5, <3>3 DEF Received
    <3> QED BY <3>1, <3>2, <3>3
  <2> QED BY <2>3, <2>5
<1>13. CursorInv'
  <2>1. SUFFICES ASSUME NEW r \in Peer, NEW s \in Peer
                 PROVE  /\ cursor'[s][r] <= MaxSeq(log'[r])
                        /\ r # s => Covered(log'[r], r, cursor'[s][r], ToSet(log'[s]))
    BY DEF CursorInv
  <2>2. /\ log[r] \in Seq(Op) /\ log'[r] \in Seq(Op) /\ Extends(log'[r], log[r])
        /\ ToSet(log[s]) \subseteq ToSet(log'[s])
        /\ cursor[s][r] \in Nat
    BY <1>0, <1>6 DEF Grows, Typed
  <2>3. MaxSeq(log[r]) \in Nat /\ MaxSeq(log'[r]) \in Nat /\ MaxSeq(log[r]) <= MaxSeq(log'[r])
    BY <2>2, MaxSeqFacts
  <2>4. /\ cursor[s][r] <= MaxSeq(log[r])
        /\ r # s => Covered(log[r], r, cursor[s][r], ToSet(log[s]))
    BY DEF IInv, CursorInv
  <2>5. CASE cursor'[s][r] = cursor[s][r]
    <3>1. r # s => Covered(log'[r], r, cursor[s][r], ToSet(log'[s]))
      BY <2>2, <2>4, CoveredGrows
    <3> QED BY <2>2, <2>3, <2>4, <2>5, <3>1
  <2>6. CASE cursor'[s][r] = Larger(cursor[s][r], MaxSeq(log'[r])) /\ Received(s, r)
    <3>1. Larger(cursor[s][r], MaxSeq(log'[r])) <= MaxSeq(log'[r])
      BY <2>2, <2>3, <2>4 DEF Larger
    <3>2. Covered(log'[r], r, cursor'[s][r], ToSet(log'[s]))
      BY <1>7, <2>6, ExchangeCovers
    <3> QED BY <2>6, <3>1, <3>2
  <2> QED BY <1>2, <1>3, <1>9, <2>5, <2>6
<1>14. AcksBehind'
  BY <1>1, <1>10, <1>11, AcksKeep DEF Typed
<1>15. DeltaInv'
  <2>1. NewOwnFresh
    <3>1. \A r \in Peer : \A o \in ToSet(log'[r]) : o.hlc.peer = r => o \in ToSet(log[r])
      BY <1>7, MovesKeep
    <3> QED BY <3>1 DEF NewOwnFresh
  <2> QED BY <1>1, <1>6, <2>1, DeltasKeep
<1> QED BY <1>8, <1>11, <1>12, <1>13, <1>14, <1>15 DEF IInv

LEMMA NextInv == IInv /\ [Next]_vars => IInv'
<1>. SUFFICES ASSUME IInv, [Next]_vars PROVE IInv'
  OBVIOUS
<1>1. ASSUME NEW p \in Peer, Execute(p) PROVE IInv'
  BY <1>1, ExecuteKeeps
<1>2. ASSUME NEW l \in Link, SendDelta(l[1], l[2]) \/ Ack(l[1], l[2]) PROVE IInv'
  <2>1. l[1] \in Peer /\ l[2] \in Peer \ {l[1]}
    BY LinkAssumption
  <2> QED BY <1>2, <2>1, SendDeltaKeeps, AckKeeps
<1>3. ASSUME NEW p \in Peer, NEW q \in Peer, p # q, SyncPeers(p, q) PROVE IInv'
  BY <1>3, SyncPeersKeeps
<1>4. ASSUME NEW m \in deltas, Deliver(m) PROVE IInv'
  BY <1>4, DeliverKeeps
<1>5. CASE UNCHANGED vars
  <2>1. UNCHANGED <<executed, clock, log, cursor, acks, deltas>>
    BY <1>5 DEF vars
  <2>2. Moves /\ SplitAtZero'
    BY <2>1, LogsStay
  <2>3. NoDuplicates' /\ Floor' /\ Origin'
    BY <2>2, MovesKeep
  <2> QED BY <2>1, <2>2, <2>3 DEF IInv, Typed, CursorInv, AcksBehind, DeltaInv
<1> QED BY <1>1, <1>2, <1>3, <1>4, <1>5 DEF Next

\* The invariant holds of every reachable state.
THEOREM Invariance == Spec => []IInv
BY InitInv, NextInv, PTL DEF Spec

-----------------------------------------------------------------------------
(* What it says of cursors, garbage collection and digests.                *)

LEMMA HasFacts ==
    ASSUME NEW l \in Seq(Op), NEW o
    PROVE  Contains(l, o) <=> o \in ToSet(l)
BY DEF Contains, ToSet

LEMMA OwnSeqsFacts ==
    ASSUME NEW p, NEW l \in Seq(Op), NEW s \in OwnSeqs(p, l)
    PROVE  s \in Nat /\ s + 1 \in DOMAIN l /\ (s + 1) - 1 = s /\ l[s + 1].hlc.peer = p
<1>1. PICK i \in DOMAIN l : l[i].hlc.peer = p /\ s = i - 1
  BY DEF OwnSeqs
<1>2. DOMAIN l = 1..Len(l)
  OBVIOUS
<1>3. i \in Nat \ {0} /\ s + 1 = i
  BY <1>1, <1>2
<1> QED BY <1>1, <1>3

LEMMA CursorHonestHolds ==
    ASSUME IInv PROVE CursorHonest
<1>. SUFFICES ASSUME NEW p \in Peer, NEW q \in Peer \ {p},
                     NEW s \in OwnSeqs(p, log[p]) \ {0}, s <= cursor[q][p]
              PROVE  Has(q, log[p][s + 1])
  BY DEF CursorHonest
<1>1. log[p] \in Seq(Op) /\ log[q] \in Seq(Op)
  BY DEF IInv, Typed
<1>2. s \in Nat /\ s + 1 \in DOMAIN log[p] /\ (s + 1) - 1 = s /\ log[p][s + 1].hlc.peer = p
  BY <1>1, OwnSeqsFacts
<1>3. Covered(log[p], p, cursor[q][p], ToSet(log[q]))
  BY DEF IInv, CursorInv
<1>4. log[p][s + 1] \in ToSet(log[q])
  BY <1>2, <1>3 DEF Covered
<1> QED BY <1>1, <1>4, HasFacts DEF Has

\* Whatever is lost, repeated or reordered, a cursor covers only operations
\* that were received, entry zero excepted (SyncCursor::observe, apply_delta,
\* sync_peers).
THEOREM CursorsHonest == Spec => []CursorHonest
<1>1. IInv => CursorHonest
  BY CursorHonestHolds
<1> QED BY <1>1, Invariance, PTL

LEMMA GroupsSplitHolds ==
    ASSUME IInv PROVE GroupsSplitAtZero
<1>. SUFFICES ASSUME NEW p \in Peer, NEW q \in Peer,
                     NEW i \in DOMAIN log[p], NEW j \in DOMAIN log[q],
                     log[p][i].hlc = log[q][j].hlc
              PROVE  Has(p, log[q][j]) \/ log[q][j] = log[log[q][j].hlc.peer][1]
  BY DEF GroupsSplitAtZero
<1>1. log[p][i] \in ToSet(log[p]) /\ log[q][j] \in ToSet(log[q])
  BY DEF ToSet
<1>2. log[q][j] \in ToSet(log[p]) \/ log[q][j] = log[log[q][j].hlc.peer][1]
  BY <1>1 DEF IInv, SplitAtZero
<1>3. log[p] \in Seq(Op)
  BY DEF IInv, Typed
<1> QED BY <1>2, <1>3, HasFacts DEF Has

\* A row write and its reservation are apart at a peer only where entry zero
\* of their origin's log is the one it lacks (compute_delta, sync_peers).
THEOREM GroupsSplit == Spec => []GroupsSplitAtZero
<1>1. IInv => GroupsSplitAtZero
  BY GroupsSplitHolds
<1> QED BY <1>1, Invariance, PTL

LEMMA SafeToCollectHolds ==
    ASSUME IInv PROVE SafeToCollect
<1>. SUFFICES ASSUME NEW p \in Peer, NEW q \in Peer \ {p}, acks[p][q] # NoAck,
                     NEW s \in OwnSeqs(p, log[p]) \ {0}, s <= SafeSeq(p)
              PROVE  Has(q, log[p][s + 1])
  BY DEF SafeToCollect
<1>. DEFINE acked == {acks[p][r] : r \in {x \in Peer \ {p} : acks[p][x] # NoAck}}
<1>1. acked \subseteq Nat /\ acks[p][q] \in acked
  BY DEF IInv, Typed
<1>2. SafeSeq(p) \in Nat /\ SafeSeq(p) <= acks[p][q]
  <2>1. \E u \in acked : \A v \in acked : u <= v
    <3> HIDE DEF acked
    <3> QED BY <1>1, LeastNat
  <2>2. SafeSeq(p) = CHOOSE u \in acked : \A v \in acked : u <= v
    BY <1>1 DEF SafeSeq
  <2> HIDE DEF acked
  <2> QED BY <1>1, <2>1, <2>2
<1>3. acks[p][q] \in Nat /\ acks[p][q] <= cursor[q][p] /\ cursor[q][p] \in Nat
  BY <1>1 DEF IInv, Typed, AcksBehind
<1>4. s \in Nat
  BY OwnSeqsFacts DEF IInv, Typed
<1>5. s <= cursor[q][p]
  BY <1>2, <1>3, <1>4
<1> QED BY <1>5, CursorHonestHolds DEF CursorHonest

\* What a peer made itself and may collect was received by everyone who
\* acknowledged anything, entry zero excepted (GcTracker::safe_seq).
THEOREM SafeToCollectAlways == Spec => []SafeToCollect
<1>1. IInv => SafeToCollect
  BY SafeToCollectHolds
<1> QED BY <1>1, Invariance, PTL

LEMMA DiffCoversHolds ==
    ASSUME IInv PROVE DiffCoversMissing
<1>. SUFFICES ASSUME NEW p \in Peer, NEW q \in Peer, NEW i \in DOMAIN log[p],
                     ~Has(q, log[p][i])
              PROVE  /\ BucketOf(i - 1) \in DiffBuckets(Digest(log[p]), Digest(log[q]))
                     /\ BucketOf(i - 1) \in DiffBuckets(Digest(log[q]), Digest(log[p]))
  BY DEF DiffCoversMissing
<1>. DEFINE b == BucketOf(i - 1)
            d == Digest(log[p])
            e == Digest(log[q])
<1>1. log[p] \in Seq(Op) /\ log[q] \in Seq(Op)
  BY DEF IInv, Typed
<1>2. b \in DOMAIN d /\ <<i, log[p][i]>> \in d[b]
  BY DEF Digest
<1>3. ~(b \in DOMAIN e /\ d[b] = e[b])
  <2>1. SUFFICES ASSUME b \in DOMAIN e, d[b] = e[b] PROVE FALSE
    OBVIOUS
  <2>2. e[b] = {<<k, log[q][k]>> : k \in {j \in DOMAIN log[q] : BucketOf(j - 1) = b}}
    BY <2>1 DEF Digest
  <2>3. PICK k \in DOMAIN log[q] : <<i, log[p][i]>> = <<k, log[q][k]>>
    <3> HIDE DEF d, e, b
    <3> QED BY <1>2, <2>1, <2>2
  <2>4. log[p][i] \in ToSet(log[q])
    BY <2>3 DEF ToSet
  <2> QED BY <1>1, <2>4, HasFacts DEF Has
<1>. HIDE DEF d, e, b
<1>4. b \in DiffBuckets(d, e) /\ b \in DiffBuckets(e, d)
  BY <1>2, <1>3 DEF DiffBuckets
<1> QED BY <1>4 DEF b, d, e

\* An operation one of two peers lacks lies in a bucket their digests report,
\* whatever the size of the buckets (MerkleDigest::diff_buckets).
THEOREM DiffCovers == Spec => []DiffCoversMissing
<1>1. IInv => DiffCoversMissing
  BY DiffCoversHolds
<1> QED BY <1>1, Invariance, PTL
=============================================================================
