------------------------ MODULE DashboardLocksProofs ------------------------
(***************************************************************************)
(* A server whose handlers take nested mutexes only under one gate never   *)
(* deadlocks, for any number of workers, mutexes, handlers and requests;   *)
(* and the handlers of the dashboard server are such, for any engines.     *)
(***************************************************************************)
EXTENDS DashboardServer, OpLogProofs

\* What is held before the first step, and how one step changes it.
LEMMA HeldAtStart ==
    ASSUME NEW p
    PROVE  HeldAfter(p, 0) = {}
BY DEF HeldAfter

LEMMA HeldAfterTake ==
    ASSUME NEW p \in Seq(Step), NEW n \in Nat, n < Len(p), p[n + 1].take
    PROVE  HeldAfter(p, n + 1) = HeldAfter(p, n) \cup {p[n + 1].lock}
<1>1. p[n + 1] \in Step
  BY n + 1 \in 1..Len(p)
<1>2. p[n + 1] = [take |-> TRUE, lock |-> p[n + 1].lock] /\ p[n + 1].lock \in Lock
  BY <1>1 DEF Step
<1>3. \A l \in Lock : p[n + 1] # [take |-> FALSE, lock |-> l]
  BY <1>2
<1>4. ASSUME NEW l \in Lock
      PROVE  l \in HeldAfter(p, n + 1) <=> l \in HeldAfter(p, n) \/ l = p[n + 1].lock
  <2>1. ASSUME l \in HeldAfter(p, n + 1), l # p[n + 1].lock
        PROVE  l \in HeldAfter(p, n)
    <3>1. PICK i \in 1..(n + 1) :
            /\ p[i] = [take |-> TRUE, lock |-> l]
            /\ \A j \in i+1..(n + 1) : p[j] # [take |-> FALSE, lock |-> l]
      BY <2>1 DEF HeldAfter
    <3>2. i # n + 1
      BY <2>1, <3>1
    <3>3. i \in 1..n /\ \A j \in i+1..n : j \in i+1..(n + 1)
      BY <3>2
    <3> QED BY <3>1, <3>3 DEF HeldAfter
  <2>2. ASSUME l \in HeldAfter(p, n)
        PROVE  l \in HeldAfter(p, n + 1)
    <3>1. PICK i \in 1..n :
            /\ p[i] = [take |-> TRUE, lock |-> l]
            /\ \A j \in i+1..n : p[j] # [take |-> FALSE, lock |-> l]
      BY <2>2 DEF HeldAfter
    <3>2. i \in 1..(n + 1) /\ \A j \in i+1..(n + 1) : j \in i+1..n \/ j = n + 1
      OBVIOUS
    <3> QED BY <1>3, <3>1, <3>2 DEF HeldAfter
  <2>3. p[n + 1].lock = l => l \in HeldAfter(p, n + 1)
    <3>1. n + 1 \in 1..(n + 1) /\ (n + 1)+1..(n + 1) = {}
      OBVIOUS
    <3> QED BY <1>2, <3>1 DEF HeldAfter
  <2> QED BY <2>1, <2>2, <2>3
<1> QED BY <1>2, <1>4 DEF HeldAfter

LEMMA HeldAfterDrop ==
    ASSUME NEW p \in Seq(Step), NEW n \in Nat, n < Len(p), ~p[n + 1].take
    PROVE  HeldAfter(p, n + 1) = HeldAfter(p, n) \ {p[n + 1].lock}
<1>1. p[n + 1] \in Step
  BY n + 1 \in 1..Len(p)
<1>2. p[n + 1] = [take |-> FALSE, lock |-> p[n + 1].lock] /\ p[n + 1].lock \in Lock
  BY <1>1 DEF Step
<1>3. ASSUME NEW l \in Lock
      PROVE  l \in HeldAfter(p, n + 1) <=> l \in HeldAfter(p, n) /\ l # p[n + 1].lock
  <2>1. ASSUME l \in HeldAfter(p, n + 1)
        PROVE  l \in HeldAfter(p, n) /\ l # p[n + 1].lock
    <3>1. PICK i \in 1..(n + 1) :
            /\ p[i] = [take |-> TRUE, lock |-> l]
            /\ \A j \in i+1..(n + 1) : p[j] # [take |-> FALSE, lock |-> l]
      BY <2>1 DEF HeldAfter
    <3>2. i # n + 1
      BY <1>2, <3>1
    <3>3. /\ i \in 1..n
          /\ n + 1 \in i+1..(n + 1)
          /\ \A j \in i+1..n : j \in i+1..(n + 1)
      BY <3>2
    <3> QED BY <1>2, <3>1, <3>3 DEF HeldAfter
  <2>2. ASSUME l \in HeldAfter(p, n), l # p[n + 1].lock
        PROVE  l \in HeldAfter(p, n + 1)
    <3>1. PICK i \in 1..n :
            /\ p[i] = [take |-> TRUE, lock |-> l]
            /\ \A j \in i+1..n : p[j] # [take |-> FALSE, lock |-> l]
      BY <2>2 DEF HeldAfter
    <3>2. i \in 1..(n + 1) /\ \A j \in i+1..(n + 1) : j \in i+1..n \/ j = n + 1
      OBVIOUS
    <3>3. p[n + 1] # [take |-> FALSE, lock |-> l]
      BY <1>2, <2>2
    <3> QED BY <3>1, <3>2, <3>3 DEF HeldAfter
  <2> QED BY <2>1, <2>2
<1> QED BY <1>3 DEF HeldAfter

-----------------------------------------------------------------------------
LockInv == TypeOK /\ HoldersAgree

LEMMA InitLockInv == Init => LockInv
<1> SUFFICES ASSUME Init PROVE LockInv
  OBVIOUS
<1>1. TypeOK
  BY RequestsAssumption DEF Init, TypeOK
<1>2. HoldersAgree
  BY HeldAtStart DEF Init, HoldersAgree
<1> QED BY <1>1, <1>2 DEF LockInv

\* Facts about a busy worker's next step.
LEMMA BusyStep ==
    ASSUME LockInv, NEW w \in Worker, Busy(w)
    PROVE  /\ program[w] \in Program /\ program[w] \in Seq(Step)
           /\ done[w] \in Nat /\ done[w] < Len(program[w])
           /\ NextStep(w) \in Step
<1>1. done[w] \in Nat /\ program[w] \in Program \cup {<<>>}
  BY DEF LockInv, TypeOK
<1>2. program[w] # <<>>
  BY <1>1 DEF Busy
<1>3. program[w] \in Program /\ program[w] \in Seq(Step)
  BY <1>1, <1>2, ProgramType
<1>4. done[w] + 1 \in 1..Len(program[w])
  BY <1>1, <1>3 DEF Busy
<1> QED BY <1>1, <1>3, <1>4 DEF Busy, NextStep

\* A step preserves the agreement between a worker's mutexes and its program.
LEMMA NextLockInv == LockInv /\ [Next]_vars => LockInv'
<1> SUFFICES ASSUME LockInv, [Next]_vars PROVE LockInv'
  OBVIOUS
<1> USE DEF LockInv
<1>1. ASSUME NEW w \in Worker, Accept(w) PROVE LockInv'
  <2>1. TypeOK'
    BY <1>1, RequestsAssumption DEF Accept, TypeOK
  <2>2. held[w] = {}
    <3>1. done[w] = Len(program[w])
      <4>1. program[w] \in Program \cup {<<>>}
        BY DEF TypeOK
      <4>2. CASE program[w] = <<>>
        BY <1>1, <4>2 DEF Accept, Busy, HoldersAgree, TypeOK
      <4>3. CASE program[w] \in Program
        BY <1>1, <4>3, ProgramType DEF Accept, Busy, HoldersAgree, TypeOK
      <4> QED BY <4>1, <4>2, <4>3
    <3>2. HeldAfter(program[w], Len(program[w])) = {}
      BY GuardsDropped, HeldAtStart DEF TypeOK
    <3> QED BY <3>1, <3>2 DEF HoldersAgree
  <2>3. ASSUME NEW v \in Worker
        PROVE  done'[v] <= Len(program'[v]) /\ held'[v] = HeldAfter(program'[v], done'[v])
    <3>1. CASE v = w
      <4>1. program'[w] \in Seq(Step) /\ done'[w] = 0 /\ held'[w] = {}
        BY <1>1, <2>2, ProgramType DEF Accept, TypeOK
      <4> QED BY <3>1, <4>1, HeldAtStart
    <3>2. CASE v # w
      BY <1>1, <3>2 DEF Accept, TypeOK, HoldersAgree
    <3> QED BY <3>1, <3>2
  <2>4. held' = held
    BY <1>1 DEF Accept
  <2> QED BY <2>1, <2>3, <2>4 DEF HoldersAgree
<1>2. ASSUME NEW w \in Worker, Take(w) PROVE LockInv'
  <2>1. /\ program[w] \in Seq(Step) /\ done[w] \in Nat /\ done[w] < Len(program[w])
        /\ NextStep(w) \in Step
    BY <1>2, BusyStep DEF Take
  <2>2. NextStep(w).lock \in Lock
    BY <2>1 DEF Step
  <2>3. TypeOK'
    BY <1>2, <2>1, <2>2 DEF Take, TypeOK
  <2>4. held'[w] = HeldAfter(program'[w], done'[w]) /\ done'[w] <= Len(program'[w])
    <3>1. HeldAfter(program[w], done[w] + 1) = HeldAfter(program[w], done[w]) \cup {NextStep(w).lock}
      BY <1>2, <2>1, HeldAfterTake DEF Take, NextStep
    <3>2. held'[w] = held[w] \cup {NextStep(w).lock} /\ done'[w] = done[w] + 1 /\ program' = program
      BY <1>2 DEF Take, TypeOK
    <3> QED BY <2>1, <3>1, <3>2 DEF HoldersAgree
  <2>5. \A v \in Worker : v # w => held'[v] = held[v] /\ done'[v] = done[v] /\ program'[v] = program[v]
    BY <1>2 DEF Take, TypeOK
  <2>6. \A u, v \in Worker : u # v => held'[u] \cap held'[v] = {}
    <3>1. held'[w] = held[w] \cup {NextStep(w).lock}
      BY <1>2 DEF Take, TypeOK
    <3>2. \A v \in Worker : NextStep(w).lock \notin held[v]
      BY <1>2 DEF Take
    <3> QED BY <2>5, <3>1, <3>2 DEF HoldersAgree
  <2> QED BY <2>3, <2>4, <2>5, <2>6 DEF HoldersAgree
<1>3. ASSUME NEW w \in Worker, Drop(w) PROVE LockInv'
  <2>1. /\ program[w] \in Seq(Step) /\ done[w] \in Nat /\ done[w] < Len(program[w])
        /\ NextStep(w) \in Step
    BY <1>3, BusyStep DEF Drop
  <2>2. TypeOK'
    BY <1>3, <2>1 DEF Drop, TypeOK
  <2>3. held'[w] = held[w] \ {NextStep(w).lock} /\ done'[w] = done[w] + 1 /\ program' = program
    BY <1>3 DEF Drop, TypeOK
  <2>4. held'[w] = HeldAfter(program'[w], done'[w]) /\ done'[w] <= Len(program'[w])
    <3>1. HeldAfter(program[w], done[w] + 1) = HeldAfter(program[w], done[w]) \ {NextStep(w).lock}
      BY <1>3, <2>1, HeldAfterDrop DEF Drop, NextStep
    <3> QED BY <2>1, <2>3, <3>1 DEF HoldersAgree
  <2>5. \A v \in Worker : v # w => held'[v] = held[v] /\ done'[v] = done[v] /\ program'[v] = program[v]
    BY <1>3 DEF Drop, TypeOK
  <2>6. \A u, v \in Worker : u # v => held'[u] \cap held'[v] = {}
    BY <2>3, <2>5 DEF HoldersAgree
  <2> QED BY <2>2, <2>4, <2>5, <2>6 DEF HoldersAgree
<1>4. CASE UNCHANGED vars
  BY <1>4 DEF vars, TypeOK, HoldersAgree
<1> QED BY <1>1, <1>2, <1>3, <1>4 DEF Next

\* A mutex has one holder, and every worker holds what its handler has taken
\* and not dropped.
THEOREM HoldersInvariant == Spec => []HoldersAgree
<1>1. LockInv => HoldersAgree
  BY DEF LockInv
<1> QED BY <1>1, InitLockInv, NextLockInv, PTL DEF Spec

\* A worker that waits while it holds something holds the gate, and does not
\* wait for a mutex of its own.
LEMMA WaitingUnderGate ==
    ASSUME LockInv, NEW gate, \A p \in Program : Gated(p, gate),
           NEW v \in Worker, Busy(v), NextStep(v).take, held[v] # {}
    PROVE  gate \in held[v] /\ NextStep(v).lock \notin held[v]
<1>1. /\ program[v] \in Program /\ program[v] \in Seq(Step) /\ done[v] \in Nat
      /\ done[v] < Len(program[v])
  BY BusyStep
<1>2. done[v] + 1 \in 1..Len(program[v]) /\ (done[v] + 1) - 1 = done[v]
  BY <1>1
<1>3. held[v] = HeldAfter(program[v], done[v])
  BY DEF LockInv, HoldersAgree
<1>4. Gated(program[v], gate)
  BY <1>1
<1>5. program[v][done[v] + 1].take /\ HeldAfter(program[v], (done[v] + 1) - 1) # {}
  BY <1>2, <1>3 DEF NextStep
<1> QED BY <1>2, <1>3, <1>4, <1>5 DEF Gated, NextStep

\* Handlers that nest mutexes under one gate only never wait for each other
\* in a circle (the handlers of dashboard_server.rs that take the map of peers
\* first; HandlersGated has the hypothesis for them).
THEOREM GatedNeverDeadlocks ==
    ASSUME NEW gate, \A p \in Program : Gated(p, gate)
    PROVE  Spec => []NoDeadlock
<1>1. LockInv => NoDeadlock
  <2> SUFFICES ASSUME LockInv,
                      NEW S \in (SUBSET Worker) \ {{}},
                      \A w \in S : \E v \in S : WaitsFor(w, v)
               PROVE  FALSE
    BY DEF NoDeadlock
  <2>1. \A v \in S : v \in Worker /\ Busy(v) /\ NextStep(v).take
    BY DEF WaitsFor
  <2>2. PICK w \in S : TRUE
    OBVIOUS
  <2>3. PICK v \in S : WaitsFor(w, v)
    OBVIOUS
  <2>4. gate \in held[v] /\ NextStep(v).lock \notin held[v]
    BY <2>1, <2>3, WaitingUnderGate DEF WaitsFor
  <2>5. PICK u \in S : WaitsFor(v, u)
    OBVIOUS
  <2>6. gate \in held[u]
    BY <2>1, <2>5, WaitingUnderGate DEF WaitsFor
  <2>7. u # v
    BY <2>4, <2>5 DEF WaitsFor
  <2> QED BY <2>1, <2>4, <2>6, <2>7 DEF LockInv, HoldersAgree
<1> QED BY <1>1, InitLockInv, NextLockInv, PTL DEF Spec

-----------------------------------------------------------------------------
(* The handlers of the server, for any number of engines.  A handler is    *)
(* put together from parts that run while other mutexes are held (Nested). *)

\* Steps that run while the mutexes outer are held, and leave them alone: all
\* they take they drop, none twice, and nested mutexes under the map of peers.
Nested(p, outer) ==
    /\ HeldAfter(p, Len(p)) = {}
    /\ \A i \in 1..Len(p) :
        /\ p[i].lock \notin outer
        /\ p[i].take =>
              /\ p[i].lock \notin HeldAfter(p, i - 1)
              /\ HeldAfter(p, i - 1) \cup outer # {} => "peers" \in HeldAfter(p, i - 1) \cup outer

\* What is held after n steps depends on these steps.
LEMMA HeldSame ==
    ASSUME NEW p, NEW q, NEW n \in Nat, \A i \in 1..n : p[i] = q[i]
    PROVE  HeldAfter(p, n) = HeldAfter(q, n)
<1>1. \A i \in 1..n : \A j \in i+1..n : j \in 1..n
  OBVIOUS
<1>2. ASSUME NEW r, NEW s, \A i \in 1..n : r[i] = s[i], NEW l \in HeldAfter(r, n)
      PROVE  l \in HeldAfter(s, n)
  <2>1. PICK i \in 1..n :
          /\ r[i] = [take |-> TRUE, lock |-> l]
          /\ \A j \in i+1..n : r[j] # [take |-> FALSE, lock |-> l]
    BY <1>2 DEF HeldAfter
  <2>2. \A j \in i+1..n : s[j] = r[j]
    BY <1>1, <1>2, <2>1
  <2>3. l \in Lock
    BY <1>2 DEF HeldAfter
  <2>4. s[i] = [take |-> TRUE, lock |-> l]
    BY <1>2, <2>1
  <2>5. \A j \in i+1..n : s[j] # [take |-> FALSE, lock |-> l]
    BY <2>1, <2>2
  <2> QED BY <2>3, <2>4, <2>5, Zenon DEF HeldAfter
<1>3. \A l : l \in HeldAfter(p, n) <=> l \in HeldAfter(q, n)
  BY <1>2
<1> QED BY <1>3

\* After steps that drop all they take, only the rest counts.
LEMMA HeldBehind ==
    ASSUME NEW p \in Seq(Step), NEW q \in Seq(Step), HeldAfter(p, Len(p)) = {},
           NEW n \in 0..Len(q)
    PROVE  HeldAfter(p \o q, Len(p) + n) = HeldAfter(q, n)
<1>. DEFINE s == p \o q
            k == Len(p)
<1>1. /\ k \in Nat /\ n \in Nat
      /\ \A i \in 1..k : s[i] = p[i]
      /\ \A i \in 1..n : s[k + i] = q[i]
  OBVIOUS
<1>. HIDE DEF s, k
<1>2. ASSUME NEW l \in Lock, NEW i \in 1..(k + n), s[i] = [take |-> TRUE, lock |-> l],
             \A j \in i+1..(k + n) : s[j] # [take |-> FALSE, lock |-> l]
      PROVE  l \in HeldAfter(q, n)
  <2>1. CASE i \in 1..k
    <3>1. \A j \in i+1..k : j \in 1..k /\ j \in i+1..(k + n)
      BY <1>1
    <3>2. \A j \in i+1..k : p[j] # [take |-> FALSE, lock |-> l]
      BY <1>1, <1>2, <3>1
    <3>3. p[i] = [take |-> TRUE, lock |-> l]
      BY <1>1, <1>2, <2>1
    <3>4. l \in HeldAfter(p, k)
      BY <2>1, <3>2, <3>3 DEF HeldAfter
    <3> QED BY <3>4 DEF k
  <2>2. CASE i \notin 1..k
    <3>1. i - k \in 1..n /\ k + (i - k) = i
      BY <1>1, <2>2
    <3>2. \A j \in (i - k)+1..n : j \in 1..n /\ k + j \in i+1..(k + n)
      BY <1>1, <2>2
    <3>3. ASSUME NEW j \in (i - k)+1..n
          PROVE  q[j] # [take |-> FALSE, lock |-> l]
      <4>1. j \in 1..n /\ k + j \in i+1..(k + n)
        BY <3>2
      <4>2. q[j] = s[k + j]
        BY <1>1, <4>1
      <4> QED BY <1>2, <4>1, <4>2
    <3>4. q[i - k] = [take |-> TRUE, lock |-> l]
      BY <1>1, <1>2, <3>1
    <3> QED BY <3>1, <3>3, <3>4 DEF HeldAfter
  <2> QED BY <2>1, <2>2
<1>3. ASSUME NEW l \in Lock, NEW i \in 1..n, q[i] = [take |-> TRUE, lock |-> l],
             \A j \in i+1..n : q[j] # [take |-> FALSE, lock |-> l]
      PROVE  l \in HeldAfter(s, k + n)
  <2>1. k + i \in 1..(k + n) /\ s[k + i] = [take |-> TRUE, lock |-> l]
    BY <1>1, <1>3
  <2>2. \A j \in (k + i)+1..(k + n) : j - k \in i+1..n /\ j - k \in 1..n /\ k + (j - k) = j
    BY <1>1
  <2>3. ASSUME NEW j \in (k + i)+1..(k + n)
        PROVE  s[j] # [take |-> FALSE, lock |-> l]
    <3>1. j - k \in i+1..n /\ s[k + (j - k)] = q[j - k] /\ k + (j - k) = j
      BY <1>1, <2>2
    <3> QED BY <1>3, <3>1
  <2> QED BY <2>1, <2>3 DEF HeldAfter
<1>4. HeldAfter(s, k + n) = HeldAfter(q, n)
  BY <1>2, <1>3 DEF HeldAfter
<1> QED BY <1>4 DEF s, k

LEMMA NestedConcat ==
    ASSUME NEW outer, NEW p \in Seq(Step), Nested(p, outer), NEW q \in Seq(Step), Nested(q, outer)
    PROVE  Nested(p \o q, outer)
<1>. DEFINE s == p \o q
            k == Len(p)
            m == Len(q)
<1>1. /\ k \in Nat /\ m \in Nat /\ Len(s) = k + m
      /\ \A i \in 1..k : s[i] = p[i]
      /\ \A i \in 1..m : s[k + i] = q[i]
  OBVIOUS
<1>2. HeldAfter(p, k) = {} /\ HeldAfter(q, m) = {}
  BY DEF Nested
<1>3. \A n \in 0..m : HeldAfter(s, k + n) = HeldAfter(q, n)
  BY <1>2, HeldBehind
<1>. HIDE DEF s, k, m
<1>4. \A n \in 0..k : HeldAfter(s, n) = HeldAfter(p, n)
  <2>1. ASSUME NEW n \in 0..k PROVE \A i \in 1..n : s[i] = p[i]
    BY <1>1
  <2> QED BY <2>1, HeldSame
<1>5. HeldAfter(s, Len(s)) = {}
  BY <1>1, <1>2, <1>3
<1>6. ASSUME NEW i \in 1..Len(s)
      PROVE  /\ s[i].lock \notin outer
             /\ s[i].take =>
                   /\ s[i].lock \notin HeldAfter(s, i - 1)
                   /\ HeldAfter(s, i - 1) \cup outer # {}
                         => "peers" \in HeldAfter(s, i - 1) \cup outer
  <2>1. CASE i \in 1..k
    <3>1. s[i] = p[i] /\ i - 1 \in 0..k
      BY <1>1, <2>1
    <3>2. HeldAfter(s, i - 1) = HeldAfter(p, i - 1)
      BY <1>4, <3>1
    <3> QED BY <2>1, <3>1, <3>2 DEF Nested, k
  <2>2. CASE i \notin 1..k
    <3>. DEFINE j == i - k
    <3>1. j \in 1..m /\ j - 1 \in 0..m /\ k + j = i /\ k + (j - 1) = i - 1
      BY <1>1, <2>2
    <3>. HIDE DEF j
    <3>2. s[i] = q[j] /\ HeldAfter(s, i - 1) = HeldAfter(q, j - 1)
      BY <1>1, <1>3, <3>1
    <3> QED BY <3>1, <3>2 DEF Nested, m
  <2> QED BY <2>1, <2>2
<1>7. Nested(s, outer)
  BY <1>5, <1>6 DEF Nested
<1> QED BY <1>7 DEF s

LEMMA NestedNothing ==
    ASSUME NEW outer
    PROVE  <<>> \in Seq(Step) /\ Nested(<<>>, outer)
<1>1. <<>> \in Seq(Step) /\ Len(<<>>) = 0
  OBVIOUS
<1>2. HeldAfter(<<>>, Len(<<>>)) = {} /\ 1..Len(<<>>) = {}
  BY <1>1, HeldAtStart
<1> QED BY <1>1, <1>2 DEF Nested

LEMMA Concatenated ==
    ASSUME NEW a \in Seq(Step), NEW b \in Seq(Step)
    PROVE  /\ a \o b \in Seq(Step) /\ Len(a \o b) = Len(a) + Len(b)
           /\ \A i \in 1..Len(a) : (a \o b)[i] = a[i]
           /\ \A i \in 1..Len(b) : (a \o b)[Len(a) + i] = b[i]
OBVIOUS

\* A mutex taken and dropped around steps that leave it alone.
LEMMA NestedHold ==
    ASSUME NEW outer, NEW l \in Lock \ outer, outer = {} \/ "peers" \in outer,
           NEW p \in Seq(Step), Nested(p, outer \cup {l})
    PROVE  Hold(l, p) \in Seq(Step) /\ Nested(Hold(l, p), outer)
<1>. DEFINE s == Hold(l, p)
            k == Len(p)
            t == [take |-> TRUE, lock |-> l]
            d == [take |-> FALSE, lock |-> l]
<1>1. /\ s \in Seq(Step) /\ k \in Nat /\ Len(s) = k + 2
      /\ s[1] = t /\ s[k + 2] = d
      /\ \A i \in 1..k : s[i + 1] = p[i]
  <2>1. t \in Step /\ d \in Step
    BY DEF Step
  <2>. HIDE DEF t, d
  <2>2. /\ <<t>> \in Seq(Step) /\ <<d>> \in Seq(Step)
        /\ Len(<<t>>) = 1 /\ <<t>>[1] = t /\ Len(<<d>>) = 1 /\ <<d>>[1] = d
    BY <2>1
  <2>3. s = <<t>> \o p \o <<d>>
    BY DEF Hold, t, d
  <2>. HIDE DEF s
  <2>. DEFINE x == <<t>>
              y == <<d>>
  <2>4. /\ x \in Seq(Step) /\ y \in Seq(Step)
        /\ Len(x) = 1 /\ x[1] = t /\ Len(y) = 1 /\ y[1] = d /\ s = x \o p \o y
    BY <2>2, <2>3
  <2>. HIDE DEF x, y
  <2>. DEFINE z == x \o p
  <2>5. /\ z \in Seq(Step) /\ k \in Nat /\ Len(z) = k + 1
        /\ z[1] = t /\ \A i \in 1..k : z[i + 1] = p[i]
    <3>1. /\ z \in Seq(Step) /\ Len(z) = Len(x) + k
          /\ \A i \in 1..Len(x) : z[i] = x[i]
          /\ \A i \in 1..k : z[Len(x) + i] = p[i]
      BY <2>4, Concatenated
    <3>2. k \in Nat /\ \A i \in 1..k : 1 + i = i + 1
      OBVIOUS
    <3>3. 1 \in 1..1 /\ 1 + k = k + 1
      BY <3>2
    <3> HIDE DEF z, k
    <3> QED BY <2>4, <3>1, <3>2, <3>3
  <2>6. s = z \o y
    BY <2>4
  <2>. HIDE DEF z, k
  <2>7. /\ Len(s) = k + 2 /\ s \in Seq(Step) /\ s[k + 2] = d
        /\ \A i \in 1..(k + 1) : s[i] = z[i]
    <3>1. /\ s \in Seq(Step) /\ Len(s) = Len(z) + Len(y)
          /\ \A i \in 1..Len(z) : s[i] = z[i]
          /\ \A i \in 1..Len(y) : s[Len(z) + i] = y[i]
      <4>1. z \in Seq(Step) /\ y \in Seq(Step)
        BY <2>4, <2>5
      <4> QED BY <2>6, <4>1, Concatenated
    <3>2. 1 \in 1..1 /\ (k + 1) + 1 = k + 2
      BY <2>5
    <3> QED BY <2>4, <2>5, <3>1, <3>2
  <2>8. 1 \in 1..(k + 1) /\ \A i \in 1..k : i + 1 \in 1..(k + 1)
    BY <2>5
  <2> QED BY <2>5, <2>7, <2>8
<1>2. \A i \in 1..k : p[i].lock # l /\ p[i] # t /\ p[i] # d
  BY DEF Nested
<1>. HIDE DEF s
<1>3. ASSUME NEW n \in 0..k PROVE HeldAfter(s, n + 1) = {l} \cup HeldAfter(p, n)
  <2>1. ASSUME NEW m \in HeldAfter(s, n + 1) PROVE m \in {l} \cup HeldAfter(p, n)
    <3>1. PICK i \in 1..(n + 1) : /\ s[i] = [take |-> TRUE, lock |-> m]
                                  /\ \A j \in i+1..(n + 1) : s[j] # [take |-> FALSE, lock |-> m]
      BY DEF HeldAfter
    <3>2. CASE i = 1
      BY <1>1, <3>1, <3>2
    <3>3. CASE i # 1
      <4>1. i - 1 \in 1..n /\ i - 1 \in 1..k /\ (i - 1) + 1 = i
        BY <1>1, <3>3
      <4>2. p[i - 1] = [take |-> TRUE, lock |-> m]
        BY <1>1, <3>1, <4>1
      <4>3. \A j \in (i - 1)+1..n : j + 1 \in i+1..(n + 1) /\ j \in 1..k
        BY <1>1, <4>1
      <4>4. \A j \in (i - 1)+1..n : p[j] # [take |-> FALSE, lock |-> m]
        BY <1>1, <3>1, <4>3
      <4>5. m \in Lock
        BY DEF HeldAfter
      <4> QED BY <4>1, <4>2, <4>4, <4>5 DEF HeldAfter
    <3> QED BY <3>2, <3>3
  <2>2. l \in HeldAfter(s, n + 1)
    <3>1. \A j \in 1+1..(n + 1) : j - 1 \in 1..k /\ (j - 1) + 1 = j
      BY <1>1
    <3>2. ASSUME NEW j \in 1+1..(n + 1) PROVE s[j] # d
      <4>1. s[j] = p[j - 1] /\ j - 1 \in 1..k
        BY <1>1, <3>1
      <4> HIDE DEF d, k
      <4> QED BY <1>2, <4>1
    <3>3. 1 \in 1..(n + 1)
      BY <1>1
    <3> QED BY <1>1, <3>2, <3>3 DEF HeldAfter
  <2>3. ASSUME NEW m \in HeldAfter(p, n) PROVE m \in HeldAfter(s, n + 1)
    <3>1. m \in Lock
      BY DEF HeldAfter
    <3>2. PICK i \in 1..n : /\ p[i] = [take |-> TRUE, lock |-> m]
                            /\ \A j \in i+1..n : p[j] # [take |-> FALSE, lock |-> m]
      BY DEF HeldAfter
    <3>3. i + 1 \in 1..(n + 1) /\ i \in 1..k
      BY <1>1
    <3>4. \A j \in (i + 1)+1..(n + 1) : j - 1 \in i+1..n /\ j - 1 \in 1..k /\ (j - 1) + 1 = j
      BY <1>1, <3>3
    <3>5. \A j \in (i + 1)+1..(n + 1) : s[j] # [take |-> FALSE, lock |-> m]
      BY <1>1, <3>2, <3>4
    <3>6. s[i + 1] = [take |-> TRUE, lock |-> m]
      BY <1>1, <3>2, <3>3
    <3> QED BY <3>1, <3>3, <3>5, <3>6 DEF HeldAfter
  <2> QED BY <2>1, <2>2, <2>3
<1>4. HeldAfter(s, Len(s)) = {}
  <2>1. HeldAfter(s, k + 1) = {l} /\ k + 1 \in Nat /\ k + 1 < Len(s) /\ (k + 1) + 1 = Len(s)
    BY <1>1, <1>3 DEF Nested
  <2>2. ~s[(k + 1) + 1].take /\ s[(k + 1) + 1].lock = l
    BY <1>1
  <2>. HIDE DEF k, t, d
  <2>3. HeldAfter(s, (k + 1) + 1) = HeldAfter(s, k + 1) \ {s[(k + 1) + 1].lock}
    BY <1>1, <2>1, <2>2, HeldAfterDrop
  <2> QED BY <2>1, <2>2, <2>3
<1>5. ASSUME NEW i \in 1..Len(s)
      PROVE  /\ s[i].lock \notin outer
             /\ s[i].take =>
                   /\ s[i].lock \notin HeldAfter(s, i - 1)
                   /\ HeldAfter(s, i - 1) \cup outer # {}
                         => "peers" \in HeldAfter(s, i - 1) \cup outer
  <2>1. CASE i = 1
    <3>1. s[1].lock = l /\ i - 1 = 0 /\ HeldAfter(s, 0) = {}
      BY <1>1, <2>1, HeldAtStart
    <3> QED BY <2>1, <3>1
  <2>2. CASE i = k + 2
    BY <1>1, <2>2
  <2>3. CASE i # 1 /\ i # k + 2
    <3>. DEFINE j == i - 1
    <3>1. j \in 1..k /\ j - 1 \in 0..k /\ j + 1 = i /\ (j - 1) + 1 = i - 1
      BY <1>1, <2>3
    <3>. HIDE DEF j
    <3>2. s[i] = p[j] /\ HeldAfter(s, i - 1) = {l} \cup HeldAfter(p, j - 1)
      BY <1>1, <1>3, <3>1
    <3> QED BY <3>1, <3>2 DEF Nested, k
  <2> QED BY <2>1, <2>2, <2>3
<1>6. Nested(s, outer)
  BY <1>4, <1>5 DEF Nested
<1> QED BY <1>1, <1>6 DEF s

Within(p, outer) == p \in Seq(Step) /\ Nested(p, outer)

LEMMA WithinConcat ==
    ASSUME NEW outer, NEW p, Within(p, outer), NEW q, Within(q, outer)
    PROVE  Within(p \o q, outer)
<1>1. p \in Seq(Step) /\ q \in Seq(Step)
  BY DEF Within
<1>2. p \o q \in Seq(Step)
  BY <1>1, Concatenated
<1>3. Nested(p \o q, outer)
  BY <1>1, NestedConcat DEF Within
<1> QED BY <1>2, <1>3 DEF Within

LEMMA WithinHold ==
    ASSUME NEW outer, NEW l \in Lock \ outer, outer = {} \/ "peers" \in outer,
           NEW p, Within(p, outer \cup {l})
    PROVE  Within(Hold(l, p), outer)
BY NestedHold DEF Within

LEMMA WithinFlatten ==
    ASSUME NEW outer, NEW n \in Nat, NEW seqs, seqs = [i \in 1..n |-> seqs[i]],
           \A i \in 1..n : Within(seqs[i], outer)
    PROVE  Within(FlattenSeq(seqs), outer)
<1>. DEFINE T == {p \in Seq(Step) : Nested(p, outer)}
<1>1. <<>> \in T
  BY NestedNothing
<1>2. \A a, b \in T : a \o b \in T
  BY Concatenated, NestedConcat
<1>3. \A i \in 1..n : seqs[i] \in T
  BY DEF Within
<1>4. n = Len(seqs)
  <2>1. [i \in 1..n |-> seqs[i]] \in Seq({seqs[i] : i \in 1..n}) /\ DOMAIN seqs = 1..n
    OBVIOUS
  <2> QED BY <2>1
<1>. HIDE DEF T
<1>5. FlattenSeq(seqs) \in T
  BY <1>1, <1>2, <1>3, <1>4, FlattenStays
<1> QED BY <1>5 DEF T, Within

LEMMA WithinPeek ==
    ASSUME NEW outer, NEW l \in Lock \ outer, outer = {} \/ "peers" \in outer
    PROVE  Within(Peek(l), outer)
<1>1. Within(<<>>, outer \cup {l})
  BY NestedNothing DEF Within
<1> QED BY <1>1, WithinHold DEF Peek

LEMMA WithinExchange ==
    ASSUME NEW outer, "peers" \in outer, NEW a \in Lock \ outer, NEW b \in Lock \ outer, a # b
    PROVE  Within(Exchange(a, b), outer)
<1>1. Within(Hold(b, <<>>), outer \cup {a})
  <2>1. b \in Lock \ (outer \cup {a}) /\ "peers" \in outer \cup {a}
    OBVIOUS
  <2> QED BY <2>1, WithinPeek DEF Peek
<1> QED BY <1>1, WithinHold DEF Exchange

\* The mutexes of the server are different ones.
LEMMA ServerLocks ==
    ASSUME Lock = Locks
    PROVE  /\ "peers" \in Lock /\ "online" \in Lock
           /\ Len(Engines) \in Nat /\ DOMAIN Engines = 1..Len(Engines)
           /\ \A i \in 1..Len(Engines) : Engines[i] \in ToSet(Engines)
           /\ \A x \in ToSet(Engines) : x \in Lock \ {"peers", "online"}
           /\ \A i, j \in 1..Len(Engines) : i # j => Engines[i] # Engines[j]
<1>1. Engines \in Seq(STRING)
  BY EnginesAssumption
<1>2. Len(Engines) \in Nat /\ DOMAIN Engines = 1..Len(Engines)
  BY <1>1
<1> QED BY <1>2, EnginesAssumption DEF Locks, ToSet

LEMMA WithinPeerInfo ==
    ASSUME Lock = Locks, NEW x \in ToSet(Engines)
    PROVE  Within(PeerInfo(x), {})
<1>1. "peers" \in Lock /\ "online" \in Lock /\ x \in Lock /\ x # "peers" /\ x # "online"
  BY ServerLocks
<1>2. Within(Peek("online"), {"peers", x})
  BY <1>1, WithinPeek
<1>3. Within(Hold(x, Peek("online")), {"peers"})
  <2>1. {"peers"} \cup {x} = {"peers", x} /\ x \in Lock \ {"peers"}
    BY <1>1
  <2> QED BY <1>2, <2>1, WithinHold
<1>4. Within(Hold("peers", Hold(x, Peek("online"))), {})
  <2>1. {} \cup {"peers"} = {"peers"} /\ "peers" \in Lock \ {}
    BY <1>1
  <2> QED BY <1>3, <2>1, WithinHold
<1> QED BY <1>4 DEF PeerInfo

LEMMA WithinReports ==
    ASSUME Lock = Locks
    PROVE  Within(AllPeerInfos, {}) /\ Within(EmitConvergence, {})
<1>. DEFINE n == Len(Engines)
            infos == [i \in DOMAIN Engines |-> PeerInfo(Engines[i])]
            peeks == [i \in DOMAIN Engines |-> Peek(Engines[i])]
<1>1. n \in Nat /\ DOMAIN Engines = 1..n /\ \A i \in 1..n : Engines[i] \in ToSet(Engines)
  BY ServerLocks
<1>2. Within(FlattenSeq(infos), {})
  <2>1. infos = [i \in 1..n |-> infos[i]]
    BY <1>1
  <2>2. \A i \in 1..n : Within(infos[i], {})
    BY <1>1, WithinPeerInfo
  <2>. HIDE DEF infos, n
  <2> QED BY <1>1, <2>1, <2>2, WithinFlatten
<1>3. Within(FlattenSeq(peeks), {"peers"})
  <2>1. peeks = [i \in 1..n |-> peeks[i]]
    BY <1>1
  <2>2. ASSUME NEW i \in 1..n PROVE Within(peeks[i], {"peers"})
    <3>1. Engines[i] \in Lock \ {"peers"}
      BY <1>1, ServerLocks
    <3>2. Within(Peek(Engines[i]), {"peers"})
      BY <3>1, WithinPeek
    <3> QED BY <1>1, <3>2
  <2>. HIDE DEF peeks, n
  <2> QED BY <1>1, <2>1, <2>2, WithinFlatten
<1>4. Within(Hold("peers", FlattenSeq(peeks)), {})
  <2>1. {} \cup {"peers"} = {"peers"} /\ "peers" \in Lock \ {}
    BY ServerLocks
  <2>. HIDE DEF peeks
  <2> QED BY <1>3, <2>1, WithinHold
<1> QED BY <1>2, <1>4 DEF AllPeerInfos, EmitConvergence

\* The exchanges run under the map of peers, some under the flags too.
LEMMA WithinExchanges ==
    ASSUME Lock = Locks, NEW outer, "peers" \in outer, outer \subseteq {"peers", "online"},
           NEW prefix, Within(prefix, outer)
    PROVE  Within(AllPairs(prefix), outer)
<1>. DEFINE n == Len(Engines)
            pairs(i) == [j \in 1..(n - i) |-> prefix \o Exchange(Engines[i], Engines[i + j])]
            rows == [i \in DOMAIN Engines |-> FlattenSeq(pairs(i))]
<1>1. n \in Nat /\ DOMAIN Engines = 1..n /\ \A i \in 1..n : Engines[i] \in Lock \ outer
  BY ServerLocks
<1>2. ASSUME NEW i \in 1..n PROVE Within(FlattenSeq(pairs(i)), outer)
  <2>. DEFINE s == pairs(i)
  <2>1. n - i \in Nat /\ s = [j \in 1..(n - i) |-> s[j]]
    BY <1>1
  <2>2. ASSUME NEW j \in 1..(n - i) PROVE Within(s[j], outer)
    <3>1. i + j \in 1..n /\ i + j # i
      BY <1>1
    <3>2. Engines[i] # Engines[i + j]
      BY <3>1, ServerLocks
    <3>3. Engines[i] \in Lock \ outer /\ Engines[i + j] \in Lock \ outer
      BY <1>1, <3>1
    <3>4. Within(Exchange(Engines[i], Engines[i + j]), outer)
      BY <3>2, <3>3, WithinExchange
    <3>5. Within(prefix \o Exchange(Engines[i], Engines[i + j]), outer)
      BY <3>4, WithinConcat
    <3> QED BY <3>5
  <2>3. Within(FlattenSeq(s), outer)
    <3>. HIDE DEF s, n
    <3> QED BY <2>1, <2>2, WithinFlatten
  <2> QED BY <2>3
<1>. HIDE DEF pairs
<1>3. rows = [i \in 1..n |-> rows[i]] /\ \A i \in 1..n : Within(rows[i], outer)
  BY <1>1, <1>2
<1>4. Within(FlattenSeq(rows), outer)
  <2>. HIDE DEF rows, n
  <2> QED BY <1>1, <1>3, WithinFlatten
<1> QED BY <1>4 DEF AllPairs, pairs

LEMMA WithinOthers ==
    ASSUME Lock = Locks, NEW outer, "peers" \in outer, outer \subseteq {"peers", "online"},
           NEW x \in ToSet(Engines)
    PROVE  Within(ExchangeWithOthers(x), outer)
<1>. DEFINE n == Len(Engines)
            s == [i \in DOMAIN Engines |->
                    IF Engines[i] = x THEN <<>> ELSE Exchange(x, Engines[i])]
<1>1. n \in Nat /\ DOMAIN Engines = 1..n /\ x \in Lock \ outer
      /\ \A i \in 1..n : Engines[i] \in Lock \ outer
  BY ServerLocks
<1>2. s = [i \in 1..n |-> s[i]]
  BY <1>1
<1>3. ASSUME NEW i \in 1..n PROVE Within(s[i], outer)
  <2>1. CASE Engines[i] = x
    BY <1>1, <2>1, NestedNothing DEF Within
  <2>2. CASE Engines[i] # x
    <3>1. Within(Exchange(x, Engines[i]), outer)
      BY <1>1, <2>2, WithinExchange
    <3> QED BY <1>1, <2>2, <3>1
  <2> QED BY <2>1, <2>2
<1>4. Within(FlattenSeq(s), outer)
  <2>. HIDE DEF s, n
  <2> QED BY <1>1, <1>2, <1>3, WithinFlatten
<1> QED BY <1>4 DEF ExchangeWithOthers

\* What a handler does while it holds nothing.
Free(p) == Within(p, {})

LEMMA FreeParts ==
    ASSUME Lock = Locks
    PROVE  /\ \A p, q : Free(p) /\ Free(q) => Free(p \o q)
           /\ Free(Peek("peers")) /\ Free(Peek("online")) /\ Free(Hold("peers", Peek("online")))
           /\ Free(AllPeerInfos) /\ Free(EmitConvergence)
           /\ \A x \in ToSet(Engines) : Free(Peek(x)) /\ Free(PeerInfo(x))
<1>1. ASSUME NEW p, NEW q, Free(p), Free(q) PROVE Free(p \o q)
  BY <1>1, WithinConcat DEF Free
<1>2. \A l \in Lock : Free(Peek(l))
  <2>1. \A l \in Lock : l \in Lock \ {}
    OBVIOUS
  <2> QED BY <2>1, WithinPeek DEF Free
<1>3. Free(Hold("peers", Peek("online")))
  <2>1. "online" \in Lock \ {"peers"} /\ "peers" \in Lock \ {} /\ {} \cup {"peers"} = {"peers"}
    BY ServerLocks
  <2>2. Within(Peek("online"), {"peers"})
    BY <2>1, WithinPeek
  <2> QED BY <2>1, <2>2, WithinHold DEF Free
<1>4. \A x \in ToSet(Engines) : Free(PeerInfo(x))
  BY WithinPeerInfo DEF Free
<1> QED BY <1>1, <1>2, <1>3, <1>4, ServerLocks, WithinReports DEF Free

\* The parts of the handlers that exchange.
LEMMA FreeExchanges ==
    ASSUME Lock = Locks
    PROVE  /\ Free(Hold("peers", AllPairs(Peek("online") \o Peek("online"))))
           /\ \A x \in ToSet(Engines) : Free(Hold("peers", Hold("online", ExchangeWithOthers(x))))
           /\ \A a \in ToSet(Engines) : \A b \in ToSet(Engines) \ {a} :
                 Free(Hold("peers", Exchange(a, b)))
<1>1. /\ "online" \in Lock \ {"peers"} /\ "peers" \in Lock \ {} /\ {} \cup {"peers"} = {"peers"}
      /\ {"peers"} \cup {"online"} = {"peers", "online"}
  BY ServerLocks
<1>2. ASSUME NEW p, Within(p, {"peers"}) PROVE Free(Hold("peers", p))
  BY <1>1, <1>2, WithinHold DEF Free
<1>3. Within(AllPairs(Peek("online") \o Peek("online")), {"peers"})
  <2>1. Within(Peek("online"), {"peers"})
    BY <1>1, WithinPeek
  <2>2. Within(Peek("online") \o Peek("online"), {"peers"})
    BY <2>1, WithinConcat
  <2> QED BY <2>2, WithinExchanges
<1>4. ASSUME NEW x \in ToSet(Engines)
      PROVE  Within(Hold("online", ExchangeWithOthers(x)), {"peers"})
  <2>1. Within(ExchangeWithOthers(x), {"peers", "online"})
    BY WithinOthers
  <2> QED BY <1>1, <2>1, WithinHold
<1>5. ASSUME NEW a \in ToSet(Engines), NEW b \in ToSet(Engines) \ {a}
      PROVE  Within(Exchange(a, b), {"peers"})
  <2>1. a \in Lock \ {"peers"} /\ b \in Lock \ {"peers"} /\ a # b
    BY ServerLocks
  <2> QED BY <2>1, WithinExchange
<1> QED BY <1>2, <1>3, <1>4, <1>5

LEMMA HandlersFree ==
    ASSUME Lock = Locks, NEW p \in GatedPrograms
    PROVE  Free(p)
<1>0. \A q, r : Free(q) /\ Free(r) => Free(q \o r)
  BY FreeParts
<1>1. /\ Free(Peek("peers")) /\ Free(Peek("online")) /\ Free(Hold("peers", Peek("online")))
      /\ Free(AllPeerInfos) /\ Free(EmitConvergence)
  BY FreeParts
<1>2. /\ Free(Heartbeat) /\ Free(Greeting) /\ Free(ResetCluster) /\ Free(AddPeer)
      /\ Free(RemovePeer) /\ Free(DisconnectPeer)
  BY <1>0, <1>1, Zenon DEF Heartbeat, Greeting, ResetCluster, AddPeer, RemovePeer, DisconnectPeer
<1>3. Free(SyncAllPeers)
  <2>. DEFINE round == Hold("peers", AllPairs(Peek("online") \o Peek("online")))
  <2>1. Free(round)
    BY FreeExchanges
  <2>. HIDE DEF round
  <2>2. Free(round \o round \o round \o Peek("peers") \o AllPeerInfos \o EmitConvergence)
    BY <1>0, <1>1, <2>1, Zenon
  <2> QED BY <2>2 DEF SyncAllPeers, round
<1>4. ASSUME NEW x \in ToSet(Engines)
      PROVE  /\ Free(GetPeerState(x)) /\ Free(ReadPeer(x)) /\ Free(ExecPeer(x))
             /\ Free(CreateSchema(x)) /\ Free(ReplayPeer(x)) /\ Free(TogglePartition(x))
             /\ Free(SyncPeerById(x)) /\ Free(ConnectPeer(x))
  <2>1. Free(Peek(x)) /\ Free(PeerInfo(x))
    BY FreeParts
  <2>2. Free(Hold("peers", Hold("online", ExchangeWithOthers(x))))
    BY FreeExchanges
  <2>3. Free(GetPeerState(x)) /\ Free(ReadPeer(x))
    BY <1>0, <1>1, <2>1, Zenon DEF GetPeerState, ReadPeer
  <2>4. Free(ExecPeer(x)) /\ Free(CreateSchema(x))
    BY <1>0, <1>1, <2>1, Zenon DEF ExecPeer, CreateSchema
  <2>5. Free(ReplayPeer(x))
    BY <1>0, <1>1, <2>1, Zenon DEF ReplayPeer
  <2>6. Free(TogglePartition(x))
    BY <1>0, <1>1, <2>2, Zenon DEF TogglePartition
  <2>7. Free(SyncPeerById(x))
    BY <1>0, <1>1, <2>1, <2>2, Zenon DEF SyncPeerById
  <2>8. Free(ConnectPeer(x))
    BY <1>0, <1>1, <2>7, Zenon DEF ConnectPeer
  <2> QED BY <2>3, <2>4, <2>5, <2>6, <2>7, <2>8
<1>5. ASSUME NEW a \in ToSet(Engines), NEW b \in ToSet(Engines) \ {a}
      PROVE  Free(SyncPair(a, b))
  <2>1. Free(PeerInfo(a)) /\ Free(PeerInfo(b))
    BY FreeParts
  <2>2. Free(Hold("peers", Exchange(a, b)))
    BY FreeExchanges
  <2> QED BY <1>0, <1>1, <2>1, <2>2, Zenon DEF SyncPair
<1>6. CASE p \in ClusterPrograms
  BY <1>2, <1>3, <1>6 DEF ClusterPrograms
<1>7. CASE p \in PeerPrograms
  BY <1>4, <1>7, Zenon DEF PeerPrograms
<1>8. CASE p \in PairPrograms
  BY <1>5, <1>8, Zenon DEF PairPrograms
<1> QED BY <1>6, <1>7, <1>8, Zenon DEF GatedPrograms

\* Every handler of the server, for any number of engines, takes nested mutexes
\* under the map of peers only, and none twice (dashboard_server.rs).
LEMMA HandlersGated ==
    ASSUME Lock = Locks, NEW p \in GatedPrograms
    PROVE  Gated(p, "peers")
<1>1. Nested(p, {})
  BY HandlersFree DEF Free, Within
<1>2. \A h : h \cup {} = h
  OBVIOUS
<1> QED BY <1>1, <1>2 DEF Nested, Gated

\* Hence whoever waits while it holds a mutex holds the map of peers.
THEOREM NestedUnderMapAlways ==
    ASSUME Lock = Locks, Program \subseteq GatedPrograms
    PROVE  Spec => []NestedUnderMap
<1>1. \A p \in Program : Gated(p, "peers")
  BY HandlersGated
<1>2. LockInv => NestedUnderMap
  BY <1>1, WaitingUnderGate DEF NestedUnderMap, WaitsUnder
<1> QED BY <1>2, InitLockInv, NextLockInv, PTL DEF Spec

\* And no set of threads of the server waits for each other, however many
\* threads, engines and requests there are.
THEOREM ServerNeverDeadlocks ==
    ASSUME Lock = Locks, Program \subseteq GatedPrograms
    PROVE  Spec => []NoDeadlock
<1>1. \A p \in Program : Gated(p, "peers")
  BY HandlersGated
<1> QED BY <1>1, GatedNeverDeadlocks

=============================================================================
