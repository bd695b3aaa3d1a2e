----------------------------- MODULE EngineProofs -----------------------------
(***************************************************************************)
(* The engines of Engine for every schema, every number of peers, rows and *)
(* statements, and, up to the last part, every skew of the physical clocks. *)
(*                                                                         *)
(* The first half is about the logs (LogInv): a statement stamps each row  *)
(* beyond everything its peer has logged, so the operations under one      *)
(* timestamp come from one statement and one row, and an exchange by       *)
(* timestamps moves all of them or none.  Hence the logs implement         *)
(* AntiEntropy, and no two operations of a log tie in the replay order:    *)
(* what a rebuild computes depends on the set of operations alone.         *)
(*                                                                         *)
(* The second half is about the tables (StoreInv), which the logs do not   *)
(* depend on: what fits into them, what a cascade removes (CascadesExact,  *)
(* CascadesImmediate), and what they stem from (ParentInv).  Then comes a  *)
(* rebuild: which writes and null writes each register of a visible row is *)
(* left with (Tells), and so who holds a UNIQUE value (WinnersHold,        *)
(* LosersLose, HoldersClaim), given that claims come with the writes they  *)
(* are for (ClaimsPaired).                                                 *)
(*                                                                         *)
(* The last part alone bounds the skew (CloseClocks) and leaves cascades   *)
(* out: no timestamp lies in the future (TimeInv), so a statement is later *)
(* than all its peer has logged, the rows of a peer are those that its log *)
(* makes stand (RecallInv), a rebuild shows them (RowsAreViews), and a row *)
(* once deleted stays so (DeletesStay).                                    *)
(***************************************************************************)
EXTENDS Engine, OpLogProofs

Clock == [wall : Nat, logical : Nat]
Stamps == [wall : Nat, logical : Nat, peer : Peer]

\* Cells of a statement: some columns, a value for each.
AllColumns == UNION {Columns[t] : t \in Table}
Cells == UNION {[S -> Nat] : S \in SUBSET AllColumns}

RowOp ==
    [type : {"insert", "update"}, table : Table, row : Row, hlc : Stamps, cells : Cells]
    \cup [type : {"delete"}, table : Table, row : Row, hlc : Stamps, fkTombstone : BOOLEAN]
ClaimOp ==
    [type : {"reserve"}, table : Table, constraint : Nat, row : Row, hlc : Stamps,
     value : Seq(Nat)]
Op == RowOp \cup ClaimOp

LogTyped ==
    /\ now \in 0..MaxTime
    /\ clock \in [Peer -> Clock]
    /\ log \in [Peer -> Seq(Op)]

NoDuplicates == \A p \in Peer : Distinct(log[p])

\* A peer's clock has reached every timestamp under its own name.
Floor ==
    \A p \in Peer : \A o \in Ops(p) : o.hlc.peer = p => ~Earlier(clock[p], o.hlc)

\* Every operation in some log is in the log of the peer that made it.
Origin == \A p \in Peer : \A o \in Ops(p) : o \in Ops(o.hlc.peer)

\* A peer that has one operation under a timestamp has them all.
Whole == \A p, q \in Peer : \A a \in Ops(p), b \in Ops(q) : a.hlc = b.hlc => b \in Ops(p)

\* Operations that no replay order separates.
Tie(a, b) == a.hlc = b.hlc /\ Tier(a) = Tier(b) /\ (IsClaim(a) => a.constraint = b.constraint)

\* Only an operation and itself tie.
NoTies == \A p \in Peer : \A a, b \in Ops(p) : Tie(a, b) => a = b

LogInv == LogTyped /\ NoDuplicates /\ Floor /\ Origin /\ Whole /\ NoTies

-----------------------------------------------------------------------------
(* Statements: the stamps and the operations under them.                   *)

\* stamps are n timestamps of p beyond clock c, each beyond those before it, at
\* the wall the clock has reached when it reads the physical time.
Stamped(stamps, p, n, c) ==
    /\ stamps \in [1..n -> Stamps]
    /\ \A i \in 1..n : stamps[i].peer = p /\ Earlier(c, stamps[i])
    /\ \A i, j \in 1..n : i < j => Earlier(stamps[i], stamps[j])
    /\ \A i \in 1..n : stamps[i].wall = Larger(c.wall, WallClock(p))

LEMMA WallClockFacts ==
    ASSUME LogTyped, NEW p \in Peer
    PROVE  WallClock(p) \in Nat
<1>1. now \in Nat
  BY TimeAssumption DEF LogTyped
<1>2. Offset[p] \in Nat
  BY TimeAssumption
<1> QED BY <1>1, <1>2 DEF WallClock

LEMMA TickFacts ==
    ASSUME NEW c \in Clock, NEW w \in Nat
    PROVE  TickClock(c, w) \in Clock /\ Earlier(c, TickClock(c, w))
BY DEF Clock, TickClock, Earlier

LEMMA EarlierTransitive ==
    ASSUME NEW a \in Clock, NEW b \in Clock, NEW c \in Clock, Earlier(a, b), Earlier(b, c)
    PROVE  Earlier(a, c)
BY DEF Clock, Earlier

LEMMA TicksFacts ==
    ASSUME LogTyped, NEW p \in Peer, NEW n \in Nat
    PROVE  Stamped(Ticks(p, n), p, n, clock[p])
<1>. DEFINE w == WallClock(p)
            T == Clock
            H == [i \in 1..n |-> [x \in T |-> TickClock(x, w)]]
            Eq(f) == f = [i \in 0..n |-> IF i = 0 THEN clock[p]
                                         ELSE TickClock(f[i - 1], WallClock(p))]
            c == CHOOSE f : Eq(f)
<1>1. Ticks(p, n) = [i \in 1..n |-> Stamp(c[i], p)]
  BY DEF Ticks
<1>2. w \in Nat /\ clock[p] \in Clock
  BY WallClockFacts DEF LogTyped
<1>3. H \in [1..n -> [T -> T]]
  BY <1>2, TickFacts
<1>4. Eq(c)
  <2>1. PICK x : IsRun(x, n, T, clock[p], H)
    <3> HIDE DEF H, T
    <3> QED BY <1>2, <1>3, RunExists DEF T
  <2>2. ASSUME NEW k \in 1..n PROVE x[k] = TickClock(x[k - 1], w)
    <3>1. k - 1 \in 0..n
      OBVIOUS
    <3>2. x[k - 1] \in T /\ x[k] = H[k][x[k - 1]]
      <4> HIDE DEF H, T
      <4> QED BY <2>1, <3>1 DEF IsRun
    <3> QED BY <3>2
  <2>3. x = [i \in 0..n |-> x[i]] /\ x[0] = clock[p]
    BY <2>1 DEF IsRun
  <2>4. \A i \in 0..n : i # 0 => i \in 1..n
    OBVIOUS
  <2>5. \A i \in 0..n : x[i] = IF i = 0 THEN clock[p] ELSE TickClock(x[i - 1], w)
    BY <2>2, <2>3, <2>4
  <2> QED BY <2>3, <2>5
<1>5. c[0] = clock[p] /\ \A k \in 1..n : c[k] = TickClock(c[k - 1], w)
  <2>1. 0 \in 0..n /\ \A k \in 1..n : k \in 0..n /\ k # 0
    OBVIOUS
  <2> QED BY <1>4, <2>1
<1>. HIDE DEF c, w
<1>6. \A k \in 0..n : c[k] \in Clock
  <2>1. \A k \in 1..n : c[k - 1] \in Clock => c[k] \in Clock
    BY <1>2, <1>5, TickFacts
  <2> QED BY <1>2, <1>5, <2>1, RunStays
<1>7. ASSUME NEW i \in 0..n, NEW j \in 0..n, i < j PROVE Earlier(c[i], c[j])
  <2>. DEFINE K == {k \in 0..n : i < k => Earlier(c[i], c[k])}
  <2>1. 0 \in K
    OBVIOUS
  <2>2. ASSUME NEW k \in 1..n, k - 1 \in K PROVE k \in K
    <3>1. k \in 0..n /\ k - 1 \in 0..n
      OBVIOUS
    <3>2. Earlier(c[k - 1], c[k])
      BY <1>2, <1>5, <1>6, <3>1, TickFacts
    <3>3. ASSUME i < k PROVE i = k - 1 \/ i < k - 1
      BY <3>3
    <3>4. ASSUME i < k PROVE Earlier(c[i], c[k])
      <4>1. CASE i = k - 1
        BY <3>2, <4>1
      <4>2. CASE i < k - 1
        BY <1>6, <2>2, <3>1, <3>2, <4>2, EarlierTransitive
      <4> QED BY <3>3, <3>4, <4>1, <4>2
    <3> QED BY <3>1, <3>4
  <2>3. 0..n \subseteq K
    <3> HIDE DEF K
    <3> QED BY <2>1, <2>2, Induction
  <2> QED BY <1>7, <2>3
<1>14. \A k \in 1..n : c[k].wall = Larger(clock[p].wall, w)
  <2>. DEFINE K == {k \in 0..n : k # 0 => c[k].wall = Larger(clock[p].wall, w)}
  <2>1. 0 \in K
    OBVIOUS
  <2>2. ASSUME NEW k \in 1..n, k - 1 \in K PROVE k \in K
    <3>1. k \in 0..n /\ k - 1 \in 0..n
      OBVIOUS
    <3>2. c[k] = TickClock(c[k - 1], w) /\ c[k - 1] \in Clock
      BY <1>5, <1>6, <3>1
    <3>3. c[k].wall = Larger(c[k - 1].wall, w)
      BY <1>2, <3>2 DEF TickClock, Larger, Clock
    <3>4. c[k - 1].wall = clock[p].wall \/ c[k - 1].wall = Larger(clock[p].wall, w)
      BY <1>5, <2>2, <3>1
    <3>5. clock[p].wall \in Nat
      BY <1>2 DEF Clock
    <3>6. c[k].wall = Larger(clock[p].wall, w)
      BY <1>2, <3>3, <3>4, <3>5 DEF Larger
    <3> QED BY <3>1, <3>6
  <2>3. 0..n \subseteq K
    <3> HIDE DEF K
    <3> QED BY <2>1, <2>2, Induction
  <2>4. \A k \in 1..n : k \in 0..n /\ k # 0
    OBVIOUS
  <2> QED BY <2>3, <2>4
<1>. DEFINE s == [i \in 1..n |-> Stamp(c[i], p)]
<1>8. \A i \in 1..n : i \in 0..n /\ 0 < i /\ 0 \in 0..n
  OBVIOUS
<1>9. \A i \in 1..n : s[i] \in Stamps /\ s[i].peer = p
                      /\ s[i].wall = c[i].wall /\ s[i].logical = c[i].logical
  BY <1>6, <1>8 DEF Stamp, Stamps, Clock
<1>10. s \in [1..n -> Stamps]
  BY <1>9
<1>11. \A i \in 1..n : Earlier(clock[p], c[i])
  BY <1>5, <1>7, <1>8
<1>12. \A i \in 1..n : Earlier(clock[p], s[i])
  BY <1>9, <1>11 DEF Earlier
<1>13. \A i, j \in 1..n : i < j => Earlier(s[i], s[j])
  <2>1. \A i, j \in 1..n : i < j => Earlier(c[i], c[j])
    BY <1>7, <1>8
  <2> HIDE DEF s
  <2> QED BY <1>9, <2>1 DEF Earlier
<1>15. \A i \in 1..n : s[i].wall = Larger(clock[p].wall, WallClock(p))
  BY <1>9, <1>14 DEF w
<1> QED BY <1>1, <1>9, <1>10, <1>12, <1>13, <1>15 DEF Stamped

\* However many operations a clock observes, it stays among the values T that
\* observing one of them does not leave.
LEMMA ObserveAllStays ==
    ASSUME LogTyped, NEW p \in Peer, NEW stamps, NEW ops \in Seq(Op), NEW T,
           [wall |-> Last(stamps).wall, logical |-> Last(stamps).logical] \in T,
           \A x \in T, i \in 1..Len(ops) : ObserveClock(x, ops[i].hlc, WallClock(p)) \in T
    PROVE  ObserveAll(p, stamps, ops) \in T
<1>. DEFINE n == Len(ops)
            w == WallClock(p)
            base == [wall |-> Last(stamps).wall, logical |-> Last(stamps).logical]
            H == [i \in 1..n |-> [x \in T |-> ObserveClock(x, ops[i].hlc, w)]]
            Eq(it) == it = [s \in SUBSET DOMAIN ops |->
                              IF s = {} THEN base
                              ELSE ObserveClock(it[s \ {Max(s)}], ops[Max(s)].hlc, WallClock(p))]
            f == CHOOSE it : Eq(it)
<1>1. ObserveAll(p, stamps, ops) = f[DOMAIN ops]
  BY DEF ObserveAll, FoldLeft, MapThenFoldSet
<1>2. n \in Nat /\ DOMAIN ops = 1..n
  OBVIOUS
<1>5. base \in T
  OBVIOUS
<1>7. H \in [1..n -> [T -> T]]
  OBVIOUS
<1>8. PICK it : IsFold(it, n, T, base, H)
  <2> HIDE DEF H, n, base
  <2> QED BY <1>2, <1>5, <1>7, FoldExists
<1>9. Eq(it)
  <2>1. ASSUME NEW s \in SUBSET (1..n), s # {}
        PROVE  H[Max(s)][it[s \ {Max(s)}]] = ObserveClock(it[s \ {Max(s)}], ops[Max(s)].hlc, w)
    <3>1. Max(s) \in 1..n /\ it[s \ {Max(s)}] \in T
      <4> HIDE DEF H, base
      <4> QED BY <1>2, <1>8, <2>1, MaxOfIndices DEF IsFold
    <3> QED BY <3>1
  <2>2. \A s \in SUBSET (1..n) : it[s] = IF s = {} THEN base
            ELSE ObserveClock(it[s \ {Max(s)}], ops[Max(s)].hlc, w)
    <3> HIDE DEF base, w
    <3> QED BY <1>2, <1>8, <2>1 DEF IsFold
  <2>3. it = [s \in SUBSET (1..n) |-> it[s]]
    <3> HIDE DEF base, w, H
    <3> QED BY <1>8 DEF IsFold
  <2> QED BY <1>2, <2>2, <2>3
<1>10. Eq(f)
  BY <1>9
<1>. HIDE DEF f
<1>11. Iterates(f, n, T, base, H)
  <2>1. \A s \in SUBSET (1..n) : s # {} => Max(s) \in 1..n
    BY <1>2, MaxOfIndices
  <2>2. f[{}] = base
    BY <1>10
  <2>3. \A s \in SUBSET (1..n) : s # {} =>
            f[s] = ObserveClock(f[s \ {Max(s)}], ops[Max(s)].hlc, w)
    BY <1>2, <1>10
  <2> HIDE DEF n, base, w
  <2> QED BY <2>1, <2>2, <2>3 DEF Iterates
<1>12. EndsRun(f[1..n], n, T, base, H)
  <2> HIDE DEF H, n, base
  <2> QED BY <1>2, <1>5, <1>7, <1>11, FoldIsRun
<1>13. f[1..n] \in T
  <2>1. n \in 0..n
    BY <1>2
  <2> HIDE DEF H, n
  <2> QED BY <1>12, <2>1 DEF EndsRun, IsRun
<1> QED BY <1>1, <1>2, <1>13

\* The clock values that have reached h.
Reached(h) == {c \in Clock : ~Earlier(c, h)}

\* It does not fall behind the last of its own stamps.
LEMMA ObserveAllFacts ==
    ASSUME LogTyped, NEW p \in Peer, NEW stamps, Last(stamps) \in Stamps, NEW ops \in Seq(Op)
    PROVE  ObserveAll(p, stamps, ops) \in Reached(Last(stamps))
<1>. DEFINE h == Last(stamps)
            w == WallClock(p)
            T == Reached(h)
            base == [wall |-> h.wall, logical |-> h.logical]
<1>1. base \in T
  BY DEF Reached, Clock, Stamps, Earlier
<1>2. \A i \in 1..Len(ops) : ops[i].hlc \in Stamps
  <2>1. \A i \in 1..Len(ops) : ops[i] \in Op
    OBVIOUS
  <2> QED BY <2>1 DEF Op, RowOp, ClaimOp
<1>3. w \in Nat
  BY WallClockFacts
<1>4. ASSUME NEW x \in T, NEW u \in Stamps PROVE ObserveClock(x, u, w) \in T
  <2>. HIDE DEF w, h
  <2>1. x \in Clock /\ ~Earlier(x, h) /\ h \in Stamps
    BY DEF Reached, h
  <2>. DEFINE o == ObserveClock(x, u, w)
              m == Larger(w, Larger(x.wall, u.wall))
  <2>2. /\ x.wall \in Nat /\ x.logical \in Nat /\ u.wall \in Nat /\ u.logical \in Nat
        /\ h.wall \in Nat /\ h.logical \in Nat
    BY <2>1 DEF Clock, Stamps
  <2>3. m \in Nat /\ x.wall =< m /\ u.wall =< m
    BY <1>3, <2>2 DEF Larger
  <2>4. Larger(x.logical, u.logical) \in Nat /\ x.logical =< Larger(x.logical, u.logical)
    BY <2>2 DEF Larger
  <2>. HIDE DEF m
  <2>5. /\ o \in Clock /\ o.wall = m
        /\ m = x.wall => x.logical < o.logical
    BY <2>2, <2>3, <2>4 DEF Clock, ObserveClock, m
  <2>. HIDE DEF o
  <2>6. ~Earlier(o, h)
    BY <2>1, <2>2, <2>3, <2>5 DEF Earlier, Clock
  <2> QED BY <2>5, <2>6 DEF Reached, o
<1>. HIDE DEF T
<1> QED BY <1>1, <1>2, <1>4, ObserveAllStays DEF T

\* It does not pass a wall that bounds what it reads and observes.
LEMMA ObserveAllBound ==
    ASSUME LogTyped, NEW p \in Peer, NEW stamps, Last(stamps) \in Stamps, NEW ops \in Seq(Op),
           NEW m \in Nat, WallClock(p) =< m, Last(stamps).wall =< m,
           \A i \in 1..Len(ops) : ops[i].hlc.wall =< m
    PROVE  ObserveAll(p, stamps, ops).wall =< m
<1>. DEFINE h == Last(stamps)
            w == WallClock(p)
            T == {c \in Clock : c.wall =< m}
            base == [wall |-> h.wall, logical |-> h.logical]
<1>1. base \in T
  BY DEF Clock, Stamps
<1>2. \A i \in 1..Len(ops) : ops[i].hlc \in Stamps
  <2>1. \A i \in 1..Len(ops) : ops[i] \in Op
    OBVIOUS
  <2> QED BY <2>1 DEF Op, RowOp, ClaimOp
<1>3. w \in Nat
  BY WallClockFacts
<1>4. ASSUME NEW x \in T, NEW u \in Stamps, u.wall =< m PROVE ObserveClock(x, u, w) \in T
  <2>. HIDE DEF w
  <2>1. x \in Clock /\ x.wall =< m /\ w =< m
    BY DEF w
  <2>. DEFINE o == ObserveClock(x, u, w)
              k == Larger(w, Larger(x.wall, u.wall))
  <2>2. x.wall \in Nat /\ x.logical \in Nat /\ u.wall \in Nat /\ u.logical \in Nat
    BY <2>1 DEF Clock, Stamps
  <2>3. k \in Nat /\ k =< m
    BY <1>3, <1>4, <2>1, <2>2 DEF Larger
  <2>4. Larger(x.logical, u.logical) \in Nat
    BY <2>2 DEF Larger
  <2>. HIDE DEF k
  <2>5. o \in Clock /\ o.wall = k
    BY <2>2, <2>3, <2>4 DEF Clock, ObserveClock, k
  <2>. HIDE DEF o
  <2> QED BY <2>3, <2>5 DEF o
<1>. HIDE DEF T
<1>5. ObserveAll(p, stamps, ops) \in T
  BY <1>1, <1>2, <1>4, ObserveAllStays
<1> QED BY <1>5 DEF T

\* Claim o is on a constraint of its table, a value for each of its columns.
Sound(o) ==
    /\ o.constraint \in DOMAIN Unique[o.table]
    /\ LET u == Unique[o.table][o.constraint]
       IN  DOMAIN o.value = DOMAIN u.cols /\ (u.composite \/ o.value[1] # Null)

\* Row operation b wrote what o claims.
Supports(b, o) ==
    /\ b.type \in {"insert", "update"}
    /\ b.table = o.table /\ b.row = o.row /\ b.hlc = o.hlc
    /\ \A i \in DOMAIN o.value :
          LET c == Unique[o.table][o.constraint].cols[i]
          IN  c \in DOMAIN b.cells /\ b.cells[c] = o.value[i]

\* Insert o writes every column, and everything it has to claim is among S.
ClaimsAll(o, S) ==
    /\ DOMAIN o.cells = Columns[o.table]
    /\ \A k \in DOMAIN Unique[o.table] :
          Claimed(o.table, k, o.cells) => Reservation(o.table, k, o.row, o.hlc, o.cells) \in S

\* Claims come with the writes they are for, inserts with their claims.
Paired(S) ==
    /\ \A o \in S : IsClaim(o) => Sound(o) /\ \E b \in S : Supports(b, o)
    /\ \A o \in S : o.type = "insert" => ClaimsAll(o, S)

\* ops are operations on row r of table t with timestamp h, no two tie, and
\* none comes alone.
Planned(ops, t, r, h) ==
    /\ ops \in Seq(Op)
    /\ \A o \in ToSet(ops) : o.table = t /\ o.row = r /\ o.hlc = h
    /\ \A a, b \in ToSet(ops) : Tie(a, b) => a = b
    /\ Paired(ToSet(ops))

LEMMA ConcatFacts ==
    ASSUME NEW O, NEW a \in Seq(O), NEW b \in Seq(O)
    PROVE  a \o b \in Seq(O) /\ ToSet(a \o b) = ToSet(a) \cup ToSet(b)
<1>. DEFINE y == a \o b
<1>1. /\ Len(a) \in Nat /\ Len(b) \in Nat /\ y \in Seq(O)
      /\ DOMAIN a = 1..Len(a) /\ DOMAIN b = 1..Len(b)
      /\ DOMAIN y = 1..(Len(a) + Len(b))
      /\ \A i \in 1..(Len(a) + Len(b)) :
            y[i] = IF i <= Len(a) THEN a[i] ELSE b[i - Len(a)]
  OBVIOUS
<1>. HIDE DEF y
<1>2. ASSUME NEW i \in DOMAIN y PROVE y[i] \in ToSet(a) \cup ToSet(b)
  <2>1. CASE i <= Len(a)
    <3>1. i \in DOMAIN a /\ y[i] = a[i]
      BY <1>1, <2>1
    <3> QED BY <3>1 DEF ToSet
  <2>2. CASE ~(i <= Len(a))
    <3>1. i - Len(a) \in DOMAIN b /\ y[i] = b[i - Len(a)]
      BY <1>1, <2>2
    <3> QED BY <3>1 DEF ToSet
  <2> QED BY <2>1, <2>2
<1>3. ToSet(y) \subseteq ToSet(a) \cup ToSet(b)
  BY <1>2 DEF ToSet
<1>4. ASSUME NEW i \in DOMAIN a PROVE a[i] \in ToSet(y)
  <2>1. i \in DOMAIN y /\ y[i] = a[i]
    BY <1>1
  <2> QED BY <2>1 DEF ToSet
<1>5. ASSUME NEW i \in DOMAIN b PROVE b[i] \in ToSet(y)
  <2>1. i \in Nat /\ 1 <= i /\ i <= Len(b)
    BY <1>1
  <2>. DEFINE j == Len(a) + i
  <2>2. j \in DOMAIN y /\ ~(j <= Len(a)) /\ j - Len(a) = i
    BY <1>1, <2>1
  <2>. HIDE DEF j
  <2>3. y[j] = b[i]
    BY <1>1, <2>2
  <2> QED BY <2>2, <2>3 DEF ToSet
<1>6. ToSet(a) \subseteq ToSet(y) /\ ToSet(b) \subseteq ToSet(y)
  BY <1>4, <1>5 DEF ToSet
<1> QED BY <1>1, <1>3, <1>6 DEF y

\* The constraints of a table.
LEMMA UniqueFacts ==
    ASSUME NEW t \in Table, NEW k \in DOMAIN Unique[t]
    PROVE  /\ k \in Nat
           /\ Unique[t][k].cols \in Seq(STRING)
           /\ \A i \in DOMAIN Unique[t][k].cols : Unique[t][k].cols[i] \in Columns[t]
           /\ Unique[t][k].composite \/ Len(Unique[t][k].cols) = 1
<1>1. Unique[t] \in Seq([cols : Seq(STRING), composite : BOOLEAN])
  BY UniqueAssumption
<1>2. k \in Nat /\ Unique[t][k] \in [cols : Seq(STRING), composite : BOOLEAN]
  <2>. DEFINE u == Unique[t]
              U == [cols : Seq(STRING), composite : BOOLEAN]
  <2>1. u \in Seq(U) /\ k \in DOMAIN u
    BY <1>1
  <2> HIDE DEF u, U
  <2>2. k \in Nat /\ u[k] \in U
    BY <2>1
  <2> QED BY <2>2 DEF u, U
<1> QED BY <1>2, UniqueAssumption

\* The claims of a statement: one for each constraint that claims something.
LEMMA ReservationsFacts ==
    ASSUME NEW t \in Table, NEW ks, ks \subseteq DOMAIN Unique[t], NEW r \in Row,
           NEW h \in Stamps, NEW cells,
           \A k \in ks : \A i \in DOMAIN Unique[t][k].cols : cells[Unique[t][k].cols[i]] \in Nat
    PROVE  /\ Reservations(t, ks, r, h, cells) \in Seq(ClaimOp)
           /\ \A o \in ToSet(Reservations(t, ks, r, h, cells)) :
                 /\ o = Reservation(t, o.constraint, r, h, cells)
                 /\ o.constraint \in ks /\ Claimed(t, o.constraint, cells)
           /\ \A k \in ks : Claimed(t, k, cells) =>
                 Reservation(t, k, r, h, cells) \in ToSet(Reservations(t, ks, r, h, cells))
<1>. DEFINE wanted == {k \in ks : Claimed(t, k, cells)}
            n == Cardinality(wanted)
            a == Ascending(wanted)
            s == [i \in 1..n |-> Reservation(t, a[i], r, h, cells)]
<1>1. Reservations(t, ks, r, h, cells) = s
  BY DEF Reservations
<1>2. IsFiniteSet(wanted) /\ wanted \subseteq Nat /\ wanted \subseteq ks
  <2>1. Unique[t] \in Seq([cols : Seq(STRING), composite : BOOLEAN])
    BY UniqueAssumption
  <2>. DEFINE m == Len(Unique[t])
  <2>2. m \in Nat /\ DOMAIN Unique[t] = 1..m
    BY <2>1
  <2>3. IsFiniteSet(1..m) /\ wanted \in SUBSET (1..m) /\ 1..m \subseteq Nat
    <3> HIDE DEF m
    <3> QED BY <2>2, CardinalityOfInterval
  <2>4. IsFiniteSet(wanted)
    <3> HIDE DEF m, wanted
    <3> QED BY <2>3, FS_Subset
  <2> QED BY <2>3, <2>4
<1>3. a \in Seq(Nat) /\ ToSet(a) = wanted /\ Distinct(a)
  <2>1. a \in Seq(Nat) /\ ToSet(a) = wanted /\ InOrderOf(NatOrder, a)
    <3> HIDE DEF wanted
    <3> QED BY <1>2, AscendingFacts
  <2>2. Distinct(a)
    <3>. HIDE DEF a
    <3>1. SUFFICES ASSUME NEW i \in DOMAIN a, NEW j \in DOMAIN a, i < j PROVE a[i] # a[j]
      <4>1. \A i, j \in DOMAIN a : i = j \/ i < j \/ j < i
        BY <2>1
      <4> QED BY <4>1 DEF Distinct
    <3>2. <<a[i], a[j]>> \in NatOrder
      BY <2>1, <3>1 DEF InOrderOf
    <3> QED BY <3>2 DEF NatOrder
  <2> QED BY <2>1, <2>2
<1>4. n = Len(a) /\ n \in Nat /\ DOMAIN a = 1..n
  <2>1. Cardinality(ToSet(a)) = Len(a)
    <3> HIDE DEF a
    <3> QED BY <1>3, DistinctLength
  <2>2. Len(a) \in Nat /\ DOMAIN a = 1..Len(a)
    <3> HIDE DEF a
    <3> QED BY <1>3
  <2> HIDE DEF a, wanted
  <2> QED BY <1>3, <2>1, <2>2
<1>5. /\ \A i \in 1..n : a[i] \in ks /\ a[i] \in wanted
      /\ \A k \in wanted : \E i \in 1..n : a[i] = k
  <2> HIDE DEF a, wanted, n
  <2> QED BY <1>2, <1>3, <1>4 DEF ToSet
<1>55. \A k \in wanted : Claimed(t, k, cells)
  OBVIOUS
<1>56. \A k \in ks : Claimed(t, k, cells) => k \in wanted
  OBVIOUS
<1>6. ASSUME NEW k \in ks
      PROVE  /\ Reservation(t, k, r, h, cells) \in ClaimOp
             /\ Reservation(t, k, r, h, cells).constraint = k
  <2>. DEFINE cols == Unique[t][k].cols
              v == [i \in DOMAIN cols |-> cells[cols[i]]]
  <2>1. cols \in Seq(STRING) /\ k \in Nat
    BY UniqueFacts
  <2>2. Len(cols) \in Nat /\ DOMAIN cols = 1..Len(cols)
    BY <2>1
  <2>3. \A i \in DOMAIN cols : cells[cols[i]] \in Nat
    OBVIOUS
  <2>4. v \in Seq(Nat)
    <3>. DEFINE m == Len(cols)
    <3>1. m \in Nat /\ v \in [1..m -> Nat]
      <4> HIDE DEF cols
      <4> QED BY <2>2, <2>3
    <3> HIDE DEF v, m
    <3> QED BY <3>1
  <2> HIDE DEF v
  <2>5. Reservation(t, k, r, h, cells) =
          [type |-> "reserve", table |-> t, constraint |-> k, row |-> r, hlc |-> h, value |-> v]
    BY DEF Reservation, v
  <2> QED BY <2>1, <2>4, <2>5 DEF ClaimOp
<1>. HIDE DEF a, wanted, n
<1>7. s \in Seq(ClaimOp)
  <2>1. s \in [1..n -> ClaimOp]
    BY <1>5, <1>6
  <2> HIDE DEF s
  <2> QED BY <1>4, <2>1
<1>8. /\ \A o \in ToSet(s) : /\ o = Reservation(t, o.constraint, r, h, cells)
                            /\ o.constraint \in ks /\ Claimed(t, o.constraint, cells)
      /\ \A k \in ks : Claimed(t, k, cells) => Reservation(t, k, r, h, cells) \in ToSet(s)
  <2>1. \A i \in 1..n : /\ s[i] = Reservation(t, s[i].constraint, r, h, cells)
                        /\ s[i].constraint = a[i]
    BY <1>5, <1>6
  <2>2. ToSet(s) = {s[i] : i \in 1..n}
    BY DEF ToSet
  <2>3. \A k \in wanted : \E i \in 1..n : s[i] = Reservation(t, k, r, h, cells)
    BY <1>5
  <2> HIDE DEF s
  <2>4. \A i \in 1..n : s[i].constraint \in ks /\ Claimed(t, s[i].constraint, cells)
    BY <1>5, <1>55, <2>1
  <2> QED BY <1>56, <2>1, <2>2, <2>3, <2>4
<1> QED BY <1>1, <1>7, <1>8

\* A claim made for a row operation that writes what is claimed.
LEMMA ReservationPairs ==
    ASSUME NEW t \in Table, NEW k \in DOMAIN Unique[t], NEW r, NEW h, NEW o,
           o.type \in {"insert", "update"}, o.table = t, o.row = r, o.hlc = h,
           \A i \in DOMAIN Unique[t][k].cols : Unique[t][k].cols[i] \in DOMAIN o.cells,
           Claimed(t, k, o.cells)
    PROVE  /\ Sound(Reservation(t, k, r, h, o.cells))
           /\ Supports(o, Reservation(t, k, r, h, o.cells))
<1>. DEFINE x == Reservation(t, k, r, h, o.cells)
<1>1. x.table = t /\ x.constraint = k /\ x.row = r /\ x.hlc = h
  BY DEF Reservation
<1>2. x.value = [i \in DOMAIN Unique[t][k].cols |-> o.cells[Unique[t][k].cols[i]]]
  BY DEF Reservation
<1>. HIDE DEF x
<1>3. DOMAIN x.value = DOMAIN Unique[t][k].cols
  BY <1>2
<1>4. \A i \in DOMAIN x.value : x.value[i] = o.cells[Unique[t][k].cols[i]]
  BY <1>2, <1>3
<1>5. Supports(o, x)
  BY <1>1, <1>3, <1>4 DEF Supports
<1>6. Unique[t][k].composite \/ x.value[1] # Null
  <2>1. SUFFICES ASSUME ~Unique[t][k].composite PROVE x.value[1] # Null
    OBVIOUS
  <2>2. Unique[t][k].cols \in Seq(STRING) /\ Len(Unique[t][k].cols) = 1
    BY <2>1, UniqueFacts
  <2>3. 1 \in DOMAIN x.value
    BY <1>3, <2>2
  <2> QED BY <1>4, <2>1, <2>3 DEF Claimed
<1> QED BY <1>1, <1>3, <1>5, <1>6 DEF Sound, x

\* ops is a plan for row r that consists of o and claims.
PlannedWith(ops, o, t, r, h) ==
    Planned(ops, t, r, h) /\ \A x \in ToSet(ops) : x = o \/ x.type = "reserve"

\* A row operation followed by claims.
LEMMA RowThenClaims ==
    ASSUME NEW t \in Table, NEW r \in Row, NEW h \in Stamps, NEW cells, NEW o \in RowOp,
           o.table = t, o.row = r, o.hlc = h, NEW s \in Seq(ClaimOp),
           \A x \in ToSet(s) : /\ x = Reservation(t, x.constraint, r, h, cells)
                               /\ Sound(x) /\ Supports(o, x),
           o.type = "insert" => ClaimsAll(o, ToSet(s))
    PROVE  PlannedWith(<<o>> \o s, o, t, r, h)
<1>1. <<o>> \in Seq(Op) /\ ToSet(<<o>>) = {o} /\ o \in Op
  BY DEF Op, ToSet
<1>2. s \in Seq(Op)
  BY SeqOfSubset DEF Op
<1>3. <<o>> \o s \in Seq(Op) /\ ToSet(<<o>> \o s) = {o} \cup ToSet(s)
  <2>. DEFINE z == <<o>>
  <2>1. z \in Seq(Op) /\ ToSet(z) = {o}
    BY <1>1
  <2>. HIDE DEF z
  <2>2. z \o s \in Seq(Op) /\ ToSet(z \o s) = ToSet(z) \cup ToSet(s)
    BY <1>2, <2>1, ConcatFacts
  <2>3. ToSet(z \o s) = {o} \cup ToSet(s)
    BY <2>1, <2>2
  <2> QED BY <2>2, <2>3 DEF z
<1>4. \A x \in ToSet(s) : /\ x.table = t /\ x.row = r /\ x.hlc = h
                          /\ IsClaim(x)
  BY DEF Reservation, IsClaim
<1>5. ~IsClaim(o)
  BY DEF RowOp, IsClaim
<1>6. ASSUME NEW a \in {o} \cup ToSet(s), NEW b \in {o} \cup ToSet(s), Tie(a, b) PROVE a = b
  <2>1. Tier(o) = 1 /\ \A x \in ToSet(s) : Tier(x) = 2
    BY <1>4, <1>5 DEF Tier
  <2>2. a = o <=> b = o
    BY <1>6, <2>1 DEF Tie
  <2>3. CASE a \in ToSet(s) /\ b \in ToSet(s)
    BY <1>4, <1>6, <2>3 DEF Tie
  <2> QED BY <2>2, <2>3
<1>. DEFINE y == <<o>> \o s
<1>7. \A x \in ToSet(y) : x.table = t /\ x.row = r /\ x.hlc = h
  BY <1>3, <1>4
<1>8. \A a, b \in ToSet(y) : Tie(a, b) => a = b
  <2> HIDE DEF y
  <2> QED BY <1>3, <1>6 DEF y
<1>9. \A x \in ToSet(y) : x = o \/ x.type = "reserve"
  BY <1>3, <1>4 DEF IsClaim
<1>10. Paired(ToSet(y))
  <2> HIDE DEF y
  <2>1. ToSet(y) = {o} \cup ToSet(s)
    BY <1>3 DEF y
  <2>2. \A x \in ToSet(y) : IsClaim(x) => Sound(x) /\ \E b \in ToSet(y) : Supports(b, x)
    BY <1>5, <2>1
  <2>3. \A x \in ToSet(y) : x.type = "insert" => x = o
    BY <1>4, <2>1 DEF IsClaim
  <2>4. o.type = "insert" => ClaimsAll(o, ToSet(y))
    BY <2>1 DEF ClaimsAll
  <2> QED BY <2>2, <2>3, <2>4 DEF Paired
<1> QED BY <1>3, <1>7, <1>8, <1>9, <1>10 DEF Planned, PlannedWith

LEMMA PlanInsertFacts ==
    ASSUME NEW t \in Table, NEW r \in Row, NEW h \in Stamps, NEW cells \in [Columns[t] -> Nat]
    PROVE  /\ Planned(PlanInsert(t, r, cells, h), t, r, h)
           /\ \A o \in ToSet(PlanInsert(t, r, cells, h)) :
                 o.type = "reserve" \/ (o.type = "insert" /\ o.cells = cells)
<1>. DEFINE o == [type |-> "insert", table |-> t, row |-> r, hlc |-> h, cells |-> cells]
            s == Reservations(t, DOMAIN Unique[t], r, h, cells)
<1>1. o \in RowOp
  BY DEF RowOp, Cells, AllColumns
<1>2. \A k \in DOMAIN Unique[t] : \A i \in DOMAIN Unique[t][k].cols :
          cells[Unique[t][k].cols[i]] \in Nat
  BY UniqueFacts
<1>3. /\ s \in Seq(ClaimOp)
      /\ \A x \in ToSet(s) : /\ x = Reservation(t, x.constraint, r, h, cells)
                             /\ x.constraint \in DOMAIN Unique[t]
                             /\ Claimed(t, x.constraint, cells)
      /\ \A k \in DOMAIN Unique[t] : Claimed(t, k, cells) =>
            Reservation(t, k, r, h, cells) \in ToSet(s)
  BY <1>2, ReservationsFacts
<1>4. o.table = t /\ o.row = r /\ o.hlc = h /\ o.type = "insert" /\ o.cells = cells
  OBVIOUS
<1>5. PlanInsert(t, r, cells, h) = <<o>> \o s
  BY DEF PlanInsert
<1>. HIDE DEF o, s
<1>55. ClaimsAll(o, ToSet(s))
  BY <1>3, <1>4 DEF ClaimsAll
<1>56. \A k \in DOMAIN Unique[t] : \A i \in DOMAIN Unique[t][k].cols :
          Unique[t][k].cols[i] \in DOMAIN o.cells
  BY <1>4, UniqueFacts
<1>57. \A x \in ToSet(s) : Sound(x) /\ Supports(o, x)
  BY <1>3, <1>4, <1>56, ReservationPairs
<1>6. PlannedWith(<<o>> \o s, o, t, r, h)
  BY <1>1, <1>3, <1>4, <1>55, <1>57, RowThenClaims
<1> QED BY <1>4, <1>5, <1>6 DEF PlannedWith

LEMMA PlanUpdateFacts ==
    ASSUME NEW t \in Table, NEW r \in Row, NEW h \in Stamps, NEW cells,
           NEW S \in SUBSET Columns[t], cells \in [S -> Nat]
    PROVE  /\ Planned(PlanUpdate(t, r, cells, h), t, r, h)
           /\ \A o \in ToSet(PlanUpdate(t, r, cells, h)) : o.type \in {"update", "reserve"}
<1>. DEFINE ks == {k \in DOMAIN Unique[t] : /\ ~Unique[t][k].composite
                                            /\ Unique[t][k].cols[1] \in DOMAIN cells}
            o == [type |-> "update", table |-> t, row |-> r, hlc |-> h, cells |-> cells]
            s == Reservations(t, ks, r, h, cells)
<1>1. o \in RowOp
  BY DEF RowOp, Cells, AllColumns
<1>2. ASSUME NEW k \in ks, NEW i \in DOMAIN Unique[t][k].cols
      PROVE  cells[Unique[t][k].cols[i]] \in Nat /\ Unique[t][k].cols[i] \in DOMAIN cells
  <2>1. Unique[t][k].cols \in Seq(STRING) /\ Len(Unique[t][k].cols) = 1
    BY UniqueFacts
  <2>2. i = 1
    BY <2>1
  <2> QED BY <2>2
<1>3. /\ s \in Seq(ClaimOp) /\ ks \subseteq DOMAIN Unique[t]
      /\ \A x \in ToSet(s) : /\ x = Reservation(t, x.constraint, r, h, cells)
                             /\ x.constraint \in ks /\ Claimed(t, x.constraint, cells)
  <2>1. ks \subseteq DOMAIN Unique[t]
    OBVIOUS
  <2> HIDE DEF ks
  <2> QED BY <1>2, <2>1, ReservationsFacts
<1>4. o.table = t /\ o.row = r /\ o.hlc = h /\ o.type = "update" /\ o.cells = cells
  OBVIOUS
<1>5. PlanUpdate(t, r, cells, h) = <<o>> \o s
  BY DEF PlanUpdate
<1>. HIDE DEF o, s, ks
<1>55. \A x \in ToSet(s) : Sound(x) /\ Supports(o, x)
  BY <1>2, <1>3, <1>4, ReservationPairs
<1>6. PlannedWith(<<o>> \o s, o, t, r, h)
  BY <1>1, <1>3, <1>4, <1>55, RowThenClaims
<1> QED BY <1>4, <1>5, <1>6 DEF PlannedWith

LEMMA PlanDeleteFacts ==
    ASSUME NEW p, NEW t \in Table, NEW r \in Row, NEW h \in Stamps
    PROVE  /\ Planned(PlanDelete(p, t, r, h), t, r, h)
           /\ \A o \in ToSet(PlanDelete(p, t, r, h)) :
                 o.type = "delete" /\ o.fkTombstone = (policy[p] = "tombstone")
<1>. DEFINE o == [type |-> "delete", table |-> t, row |-> r, hlc |-> h,
                  fkTombstone |-> policy[p] = "tombstone"]
<1>1. /\ o \in RowOp /\ o.table = t /\ o.row = r /\ o.hlc = h
      /\ o.type = "delete" /\ o.fkTombstone = (policy[p] = "tombstone")
  BY DEF RowOp
<1>2. PlanDelete(p, t, r, h) = <<o>>
  BY DEF PlanDelete
<1>. HIDE DEF o
<1>3. <<o>> \in Seq(Op) /\ ToSet(<<o>>) = {o}
  BY <1>1 DEF Op, ToSet
<1>4. Paired({o})
  BY <1>1 DEF Paired, IsClaim
<1> QED BY <1>1, <1>2, <1>3, <1>4 DEF Planned

\* The foreign keys among the cells of a row of table t refer to rows.
References(t, cells) ==
    \A i \in DOMAIN ForeignKeys : ForeignKeys[i].child = t =>
        cells[ForeignKeys[i].col] \in Row \cup {Null}

\* A statement of p on table t plans operation o.
Fits(p, t, deletes, o) ==
    /\ deletes = (o.type = "delete")
    /\ o.type = "delete" => o.fkTombstone = (policy[p] = "tombstone")
    /\ o.type = "insert" => /\ FkValid(store[p], policy[p], t, o.cells)
                            /\ References(t, o.cells)

\* The operations ops on table t can be performed under stamps: new ones of p,
\* at least one, no two operations tie, none comes alone, and all are deletes or
\* none is.
Ready(p, t, stamps, ops) ==
    /\ \E n \in Nat \ {0} : Stamped(stamps, p, n, clock[p])
    /\ ops \in Seq(Op)
    /\ \A o \in ToSet(ops) : o.table = t /\ \E i \in DOMAIN stamps : o.hlc = stamps[i]
    /\ \A a, b \in ToSet(ops) : Tie(a, b) => a = b
    /\ Paired(ToSet(ops))
    /\ \E deletes \in BOOLEAN : \A o \in ToSet(ops) : Fits(p, t, deletes, o)

LEMMA EarlierStrict ==
    ASSUME NEW a \in Stamps
    PROVE  ~Earlier(a, a)
BY DEF Stamps, Earlier

\* The plans of the rows, one after the other.
LEMMA FlattenReady ==
    ASSUME NEW p \in Peer, NEW t \in Table, NEW n \in Nat \ {0}, NEW stamps,
           Stamped(stamps, p, n, clock[p]), NEW planned, NEW rows,
           planned = [i \in 1..n |-> planned[i]],
           \A i \in 1..n : Planned(planned[i], t, rows[i], stamps[i]),
           NEW deletes \in BOOLEAN,
           \A i \in 1..n : \A o \in ToSet(planned[i]) : Fits(p, t, deletes, o)
    PROVE  Ready(p, t, stamps, FlattenSeq(planned))
<1>. DEFINE ops == FlattenSeq(planned)
            T == Seq(Op)
<1>1. planned \in Seq(T)
  <2>1. planned \in [1..n -> T]
    BY DEF Planned
  <2> HIDE DEF T
  <2> QED BY <2>1
<1>2. ops \in Seq(Op) /\ ToSet(ops) = UNION {ToSet(planned[i]) : i \in DOMAIN planned}
  BY <1>1, FlattenFacts
<1>3. ToSet(ops) = UNION {ToSet(planned[i]) : i \in 1..n}
  <2>1. DOMAIN planned = 1..n
    OBVIOUS
  <2> HIDE DEF ops
  <2> QED BY <1>2, <2>1
<1>. HIDE DEF ops
<1>4. DOMAIN stamps = 1..n /\ \A i \in 1..n : stamps[i] \in Stamps
  BY DEF Stamped
<1>5. \A i \in 1..n : \A o \in ToSet(planned[i]) : o.table = t /\ o.hlc = stamps[i]
  BY DEF Planned
<1>6. \A o \in ToSet(ops) : o.table = t /\ \E i \in DOMAIN stamps : o.hlc = stamps[i]
  BY <1>3, <1>4, <1>5
<1>7. ASSUME NEW a \in ToSet(ops), NEW b \in ToSet(ops), Tie(a, b) PROVE a = b
  <2>1. PICK i \in 1..n : a \in ToSet(planned[i])
    BY <1>3
  <2>2. PICK j \in 1..n : b \in ToSet(planned[j])
    BY <1>3
  <2>3. stamps[i] = stamps[j]
    BY <1>5, <1>7, <2>1, <2>2 DEF Tie
  <2>4. i = j
    <3>1. ~Earlier(stamps[i], stamps[j]) /\ ~Earlier(stamps[j], stamps[i])
      BY <1>4, <2>3, EarlierStrict
    <3>2. ~(i < j) /\ ~(j < i)
      BY <3>1 DEF Stamped
    <3> QED BY <3>2
  <2> QED BY <1>7, <2>1, <2>2, <2>4 DEF Planned
<1>8. \A o \in ToSet(ops) : Fits(p, t, deletes, o)
  BY <1>3
<1>9. Paired(ToSet(ops))
  <2>1. \A i \in 1..n : Paired(ToSet(planned[i])) /\ ToSet(planned[i]) \subseteq ToSet(ops)
    BY <1>3 DEF Planned
  <2>2. ASSUME NEW o \in ToSet(ops), IsClaim(o)
        PROVE  Sound(o) /\ \E b \in ToSet(ops) : Supports(b, o)
    BY <1>3, <2>1, <2>2 DEF Paired
  <2>3. ASSUME NEW o \in ToSet(ops), o.type = "insert"
        PROVE  ClaimsAll(o, ToSet(ops))
    <3>1. PICK i \in 1..n : o \in ToSet(planned[i])
      BY <1>3
    <3>2. ClaimsAll(o, ToSet(planned[i]))
      BY <2>1, <2>3, <3>1 DEF Paired
    <3> QED BY <2>1, <3>2 DEF ClaimsAll
  <2> QED BY <2>2, <2>3 DEF Paired
<1> QED BY <1>2, <1>6, <1>7, <1>8, <1>9 DEF Ready, ops

\* The rows of a statement, in order.
LEMMA InOrderFacts ==
    ASSUME NEW p \in Peer, NEW t \in Table, NEW rows \in Matching(p, t)
    PROVE  /\ Len(InOrder(rows)) \in Nat \ {0}
           /\ DOMAIN InOrder(rows) = 1..Len(InOrder(rows))
           /\ \A i \in 1..Len(InOrder(rows)) : InOrder(rows)[i] \in rows
           /\ rows \subseteq Row
<1>1. rows \subseteq Row /\ rows # {}
  BY DEF Matching, VisibleRows
<1>2. IsFiniteSet(rows) /\ rows \subseteq Nat
  BY <1>1, FS_Subset, RowAssumption
<1>3. Ascending(rows) \in Seq(Nat) /\ ToSet(Ascending(rows)) = rows
  BY <1>2, AscendingFacts
<1>. DEFINE s == Ascending(rows)
<1>. HIDE DEF s
<1>4. s \in Seq(Nat) /\ ToSet(s) = rows
  BY <1>3 DEF s
<1>5. Len(s) \in Nat /\ DOMAIN s = 1..Len(s)
  BY <1>4
<1>6. \A i \in 1..Len(s) : s[i] \in rows
  BY <1>4, <1>5 DEF ToSet
<1>7. Len(s) # 0
  <2>1. SUFFICES ASSUME Len(s) = 0 PROVE FALSE
    OBVIOUS
  <2>2. ToSet(s) = {}
    BY <1>5, <2>1 DEF ToSet
  <2> QED BY <1>1, <1>4, <2>2
<1> QED BY <1>1, <1>5, <1>6, <1>7 DEF InOrder, s

\* p performs a statement it is ready for.
Performs(p) ==
    \E t \in Table : \E stamps \in Seq(Stamps), ops \in Seq(Op) :
        Perform(p, t, stamps, ops) /\ Ready(p, t, stamps, ops)

LEMMA PerformsIf ==
    ASSUME NEW p, NEW t \in Table, NEW stamps, NEW ops,
           Perform(p, t, stamps, ops), Ready(p, t, stamps, ops)
    PROVE  Performs(p)
<1>1. PICK n \in Nat \ {0} : Stamped(stamps, p, n, clock[p])
  BY DEF Ready
<1>2. stamps \in Seq(Stamps)
  <2>1. n \in Nat /\ stamps \in [1..n -> Stamps]
    BY <1>1 DEF Stamped
  <2> QED BY <2>1
<1>3. ops \in Seq(Op)
  BY DEF Ready
<1> QED BY <1>2, <1>3 DEF Performs

LEMMA InsertPerforms ==
    ASSUME LogTyped, NEW p \in Peer, Insert(p)
    PROVE  Performs(p)
<1>1. PICK t \in Table : \E r \in InsertKeys(p, t), cells \in Inputs(t) :
        /\ FkValid(store[p], policy[p], t, cells)
        /\ LET s == Ticks(p, 1) IN Perform(p, t, s, PlanInsert(t, r, cells, s[1]))
  BY DEF Insert
<1>2. PICK r \in InsertKeys(p, t), cells \in Inputs(t) :
        /\ FkValid(store[p], policy[p], t, cells)
        /\ LET s == Ticks(p, 1) IN Perform(p, t, s, PlanInsert(t, r, cells, s[1]))
  BY <1>1
<1>. DEFINE s == Ticks(p, 1)
            ops == PlanInsert(t, r, cells, s[1])
<1>3. Perform(p, t, s, ops)
  BY <1>2
<1>4. Stamped(s, p, 1, clock[p])
  BY TicksFacts
<1>5. r \in Row
  BY DEF InsertKeys
<1>6. cells \in [Columns[t] -> Nat] /\ References(t, cells)
  <2>1. \A c \in Columns[t] : cells[c] \in Values[t][c]
    BY DEF Inputs
  <2>2. \A c \in Columns[t] : cells[c] \in Nat
    BY <2>1, ValuesAssumption
  <2>3. References(t, cells)
    BY <2>1, ReferencesAssumption, ForeignKeysAssumption DEF References
  <2> QED BY <2>2, <2>3 DEF Inputs
<1>7. DOMAIN s = 1..1 /\ s[1] \in Stamps
  BY <1>4 DEF Stamped
<1>8. /\ Planned(ops, t, r, s[1])
      /\ \A o \in ToSet(ops) : o.type = "reserve" \/ (o.type = "insert" /\ o.cells = cells)
  <2> HIDE DEF s
  <2> QED BY <1>5, <1>6, <1>7, PlanInsertFacts
<1>. HIDE DEF ops, s
<1>9. Ready(p, t, s, ops)
  <2>1. 1 \in DOMAIN s /\ 1 \in Nat \ {0}
    BY <1>7
  <2>2. \A o \in ToSet(ops) : Fits(p, t, FALSE, o)
    BY <1>2, <1>6, <1>8 DEF Fits
  <2> QED BY <1>4, <1>8, <2>1, <2>2 DEF Ready, Planned
<1> QED BY <1>3, <1>9, PerformsIf

LEMMA UpdatePerforms ==
    ASSUME LogTyped, NEW p \in Peer, Update(p)
    PROVE  Performs(p)
<1>. DEFINE Does(t, rows, c, v) ==
        LET order == InOrder(rows)
            stamps == Ticks(p, Len(order))
            planned == [i \in DOMAIN order |->
                            PlanUpdate(t, order[i], [x \in {c} |-> v], stamps[i])]
        IN  Perform(p, t, stamps, FlattenSeq(planned))
<1>0. PICK t \in Table :
        \E rows \in Matching(p, t) : \E c \in Updatable[t] : \E v \in Values[t][c] \cup {Null} :
            Does(t, rows, c, v)
  BY DEF Update
<1>1. PICK rows \in Matching(p, t) :
        \E c \in Updatable[t] : \E v \in Values[t][c] \cup {Null} : Does(t, rows, c, v)
  BY <1>0
<1>11. PICK c \in Updatable[t] : \E v \in Values[t][c] \cup {Null} : Does(t, rows, c, v)
  BY <1>1
<1>12. PICK v \in Values[t][c] \cup {Null} : Does(t, rows, c, v)
  BY <1>11
<1>. DEFINE order == InOrder(rows)
            n == Len(order)
            stamps == Ticks(p, n)
            cells == [x \in {c} |-> v]
            planned == [i \in DOMAIN order |-> PlanUpdate(t, order[i], cells, stamps[i])]
<1>2. Perform(p, t, stamps, FlattenSeq(planned))
  BY <1>12
<1>3. n \in Nat \ {0} /\ DOMAIN order = 1..n /\ \A i \in 1..n : order[i] \in Row
  BY InOrderFacts
<1>4. Stamped(stamps, p, n, clock[p])
  <2> HIDE DEF n
  <2> QED BY <1>3, TicksFacts
<1>5. {c} \in SUBSET Columns[t] /\ cells \in [{c} -> Nat]
  <2>1. c \in Columns[t]
    BY ValuesAssumption
  <2>2. v \in Nat
    BY <2>1, ValuesAssumption DEF Null
  <2> QED BY <2>1, <2>2
<1>. HIDE DEF cells, n, stamps, order
<1>6. \A i \in 1..n : stamps[i] \in Stamps
  BY <1>4 DEF Stamped
<1>7. \A i \in 1..n :
        /\ Planned(PlanUpdate(t, order[i], cells, stamps[i]), t, order[i], stamps[i])
        /\ \A o \in ToSet(PlanUpdate(t, order[i], cells, stamps[i])) : Fits(p, t, FALSE, o)
  BY <1>3, <1>5, <1>6, PlanUpdateFacts DEF Fits
<1>8. /\ planned = [i \in 1..n |-> planned[i]]
      /\ \A i \in 1..n : Planned(planned[i], t, order[i], stamps[i])
      /\ \A i \in 1..n : \A o \in ToSet(planned[i]) : Fits(p, t, FALSE, o)
  BY <1>3, <1>7
<1>. HIDE DEF planned
<1>9. Ready(p, t, stamps, FlattenSeq(planned))
  BY <1>3, <1>4, <1>8, FlattenReady
<1> QED BY <1>2, <1>9, PerformsIf

LEMMA DeletePerforms ==
    ASSUME LogTyped, NEW p \in Peer, Delete(p)
    PROVE  Performs(p)
<1>. DEFINE Does(t, rows) ==
        LET order == InOrder(rows)
            stamps == Ticks(p, Len(order))
            planned == [i \in DOMAIN order |-> PlanDelete(p, t, order[i], stamps[i])]
        IN  Perform(p, t, stamps, FlattenSeq(planned))
<1>0. PICK t \in Table : \E rows \in Matching(p, t) : Does(t, rows)
  BY DEF Delete
<1>1. PICK rows \in Matching(p, t) : Does(t, rows)
  BY <1>0
<1>. DEFINE order == InOrder(rows)
            n == Len(order)
            stamps == Ticks(p, n)
            planned == [i \in DOMAIN order |-> PlanDelete(p, t, order[i], stamps[i])]
<1>2. Perform(p, t, stamps, FlattenSeq(planned))
  BY <1>1
<1>3. n \in Nat \ {0} /\ DOMAIN order = 1..n /\ \A i \in 1..n : order[i] \in Row
  BY InOrderFacts
<1>4. Stamped(stamps, p, n, clock[p])
  <2> HIDE DEF n
  <2> QED BY <1>3, TicksFacts
<1>. HIDE DEF n, stamps, order
<1>5. \A i \in 1..n : stamps[i] \in Stamps
  BY <1>4 DEF Stamped
<1>6. \A i \in 1..n :
        /\ Planned(PlanDelete(p, t, order[i], stamps[i]), t, order[i], stamps[i])
        /\ \A o \in ToSet(PlanDelete(p, t, order[i], stamps[i])) : Fits(p, t, TRUE, o)
  <2>1. ASSUME NEW i \in 1..n
        PROVE  /\ Planned(PlanDelete(p, t, order[i], stamps[i]), t, order[i], stamps[i])
               /\ \A o \in ToSet(PlanDelete(p, t, order[i], stamps[i])) : Fits(p, t, TRUE, o)
    <3>1. order[i] \in Row /\ stamps[i] \in Stamps
      BY <1>3, <1>5
    <3>2. /\ Planned(PlanDelete(p, t, order[i], stamps[i]), t, order[i], stamps[i])
          /\ \A o \in ToSet(PlanDelete(p, t, order[i], stamps[i])) :
                o.type = "delete" /\ o.fkTombstone = (policy[p] = "tombstone")
      BY <3>1, PlanDeleteFacts
    <3> QED BY <3>2 DEF Fits
  <2> QED BY <2>1
<1>7. /\ planned = [i \in 1..n |-> planned[i]]
      /\ \A i \in 1..n : Planned(planned[i], t, order[i], stamps[i])
      /\ \A i \in 1..n : \A o \in ToSet(planned[i]) : Fits(p, t, TRUE, o)
  BY <1>3, <1>6
<1>. HIDE DEF planned
<1>8. Ready(p, t, stamps, FlattenSeq(planned))
  BY <1>3, <1>4, <1>7, FlattenReady
<1> QED BY <1>2, <1>8, PerformsIf

-----------------------------------------------------------------------------
(* The logs.                                                               *)

\* What a statement at p does to clocks and logs: new is what it logs.
Executes(p, new) ==
    /\ LogTyped' /\ NoDuplicates'
    /\ clock' = [clock EXCEPT ![p] = clock'[p]]
    /\ Earlier(clock[p], clock'[p])
    /\ \A q \in Peer \ {p} : log'[q] = log[q]
    /\ ToSet(log'[p]) = Ops(p) \cup new
    /\ new \subseteq Op
    /\ \A o \in new : /\ o.hlc.peer = p
                      /\ Earlier(clock[p], o.hlc)
                      /\ ~Earlier(clock'[p], o.hlc)
    /\ \A a, b \in new : Tie(a, b) => a = b

LEMMA OpsTyped ==
    ASSUME LogTyped, NEW p \in Peer, NEW o \in Ops(p)
    PROVE  o \in Op /\ o.hlc \in Stamps
<1>1. log[p] \in Seq(Op)
  BY DEF LogTyped
<1>2. o \in Op
  BY <1>1 DEF Ops, ToSet
<1> QED BY <1>2 DEF Op, RowOp, ClaimOp

LEMMA ReachedLater ==
    ASSUME NEW a \in Stamps, NEW b \in Stamps, NEW c \in Clock,
           a = b \/ Earlier(a, b), ~Earlier(c, b)
    PROVE  ~Earlier(c, a)
BY DEF Stamps, Clock, Earlier

LEMMA ReachedAdvance ==
    ASSUME NEW a \in Clock, NEW b \in Stamps, NEW c \in Clock, Earlier(a, b), ~Earlier(c, b)
    PROVE  Earlier(a, c)
BY DEF Stamps, Clock, Earlier

LEMMA PerformsExecutes ==
    ASSUME LogInv, NEW p \in Peer, Performs(p)
    PROVE  \E new : Executes(p, new)
<1>1. PICK t \in Table, stamps \in Seq(Stamps), ops \in Seq(Op) :
          Perform(p, t, stamps, ops) /\ Ready(p, t, stamps, ops)
  BY DEF Performs
<1>. DEFINE new == ToSet(ops)
            h == Last(stamps)
<1>2. LogTyped /\ NoDuplicates /\ clock[p] \in Clock /\ log[p] \in Seq(Op)
  BY DEF LogInv, LogTyped
<1>3. PICK n \in Nat \ {0} : Stamped(stamps, p, n, clock[p])
  BY <1>1 DEF Ready
<1>4. /\ Len(stamps) = n /\ DOMAIN stamps = 1..n
      /\ \A i \in 1..n : stamps[i] \in Stamps /\ stamps[i].peer = p /\ Earlier(clock[p], stamps[i])
  BY <1>3 DEF Stamped
<1>5. h = stamps[n] /\ n \in 1..n /\ h \in Stamps
  BY <1>4 DEF Last
<1>6. \A i \in 1..n : stamps[i] = h \/ Earlier(stamps[i], h)
  <2>1. \A i \in 1..n : i = n \/ i < n
    OBVIOUS
  <2> QED BY <1>3, <1>5, <2>1 DEF Stamped
<1>7. clock'[p] = ObserveAll(p, stamps, ops) /\ clock' = [clock EXCEPT ![p] = clock'[p]]
  BY <1>1, <1>2 DEF Perform, LogTyped
<1>8. clock'[p] \in Clock /\ ~Earlier(clock'[p], h)
  BY <1>2, <1>5, <1>7, ObserveAllFacts DEF Reached
<1>. HIDE DEF h
<1>9. \A i \in 1..n : ~Earlier(clock'[p], stamps[i])
  BY <1>4, <1>5, <1>6, <1>8, ReachedLater
<1>10. Earlier(clock[p], clock'[p])
  BY <1>2, <1>4, <1>5, <1>8, ReachedAdvance
<1>11. log' = [log EXCEPT ![p] = AppendAll(log[p], ops)] /\ now' = now
  BY <1>1 DEF Perform
<1>12. log'[p] = AppendAll(log[p], ops) /\ \A q \in Peer \ {p} : log'[q] = log[q]
  BY <1>2, <1>11 DEF LogTyped
<1>13. log'[p] \in Seq(Op) /\ ToSet(log'[p]) = ToSet(log[p]) \cup new /\ Distinct(log'[p])
  BY <1>2, <1>12, AppendAllFacts DEF NoDuplicates
<1>14. LogTyped'
  <2>1. log' \in [Peer -> Seq(Op)]
    <3>1. log' = [q \in Peer |-> log'[q]]
      BY <1>2, <1>11 DEF LogTyped
    <3>2. \A q \in Peer : log'[q] \in Seq(Op)
      BY <1>2, <1>12, <1>13 DEF LogTyped
    <3> QED BY <3>1, <3>2
  <2>2. clock' \in [Peer -> Clock]
    BY <1>2, <1>7, <1>8 DEF LogTyped
  <2> QED BY <1>2, <1>11, <2>1, <2>2 DEF LogTyped
<1>15. NoDuplicates'
  BY <1>2, <1>12, <1>13 DEF NoDuplicates
<1>16. \A o \in new : /\ o.hlc.peer = p
                      /\ Earlier(clock[p], o.hlc)
                      /\ ~Earlier(clock'[p], o.hlc)
  BY <1>1, <1>4, <1>9 DEF Ready
<1>17. new \subseteq Op
  BY <1>1 DEF ToSet
<1>18. \A a, b \in new : Tie(a, b) => a = b
  BY <1>1 DEF Ready
<1>19. Executes(p, new)
  <2> HIDE DEF new
  <2> QED BY <1>7, <1>10, <1>12, <1>13, <1>14, <1>15, <1>16, <1>17, <1>18 DEF Executes, Ops
<1> QED BY <1>19

LEMMA RejectedExecutes ==
    ASSUME LogInv, NEW p \in Peer, InsertRejected(p)
    PROVE  Executes(p, {})
<1>1. LogTyped /\ NoDuplicates /\ clock[p] \in Clock
  BY DEF LogInv, LogTyped
<1>2. clock' = [clock EXCEPT ![p] = TickClock(@, WallClock(p))] /\ UNCHANGED <<now, log>>
  BY DEF InsertRejected
<1>3. clock'[p] = TickClock(clock[p], WallClock(p))
  BY <1>1, <1>2 DEF LogTyped
<1>4. clock'[p] \in Clock /\ Earlier(clock[p], clock'[p])
  BY <1>1, <1>3, WallClockFacts, TickFacts
<1>5. LogTyped'
  BY <1>1, <1>2, <1>4 DEF LogTyped
<1>6. NoDuplicates'
  BY <1>1, <1>2 DEF NoDuplicates
<1> QED BY <1>1, <1>2, <1>4, <1>5, <1>6 DEF Executes, LogTyped, Ops

LEMMA ExecutesKeeps ==
    ASSUME LogInv, NEW p \in Peer, NEW new, Executes(p, new)
    PROVE  LogInv'
<1>1. LogTyped /\ clock[p] \in Clock /\ clock'[p] \in Clock
  BY DEF LogInv, LogTyped, Executes
<1>2. \A q \in Peer \ {p} : clock'[q] = clock[q] /\ Ops(q)' = Ops(q)
  BY <1>1 DEF Executes, LogTyped, Ops
<1>3. Ops(p)' = Ops(p) \cup new
  BY DEF Executes, Ops
<1>4. \A o \in new : o.hlc.peer = p /\ Earlier(clock[p], o.hlc) /\ ~Earlier(clock'[p], o.hlc)
  BY DEF Executes
\* Nothing has the timestamp of a new operation yet.
<1>5. ASSUME NEW q \in Peer, NEW o \in Ops(q), NEW x \in new PROVE o.hlc # x.hlc
  <2>1. SUFFICES ASSUME o.hlc = x.hlc PROVE FALSE
    OBVIOUS
  <2>2. o.hlc.peer = p
    BY <1>4, <2>1
  <2>3. o \in Ops(p)
    BY <2>2 DEF LogInv, Origin
  <2>4. ~Earlier(clock[p], o.hlc)
    BY <2>2, <2>3 DEF LogInv, Floor
  <2> QED BY <1>4, <2>1, <2>4
<1>6. Floor'
  <2>1. SUFFICES ASSUME NEW q \in Peer, NEW o \in Ops(q)', o.hlc.peer = q
                 PROVE  ~Earlier(clock'[q], o.hlc)
    BY DEF Floor
  <2>2. CASE q # p
    BY <1>2, <2>1, <2>2 DEF LogInv, Floor
  <2>3. CASE q = p /\ o \in new
    BY <1>4, <2>3
  <2>4. CASE q = p /\ o \in Ops(p)
    <3>1. ~Earlier(clock[p], o.hlc) /\ o.hlc \in Stamps
      BY <1>1, <2>1, <2>4, OpsTyped DEF LogInv, Floor
    <3>2. Earlier(clock[p], clock'[p])
      BY DEF Executes
    <3> QED BY <1>1, <2>4, <3>1, <3>2 DEF Earlier, Clock, Stamps
  <2> QED BY <1>3, <2>1, <2>2, <2>3, <2>4
<1>7. Origin'
  <2>1. SUFFICES ASSUME NEW q \in Peer, NEW o \in Ops(q)' PROVE o \in Ops(o.hlc.peer)'
    BY DEF Origin
  <2>2. CASE o \in new
    BY <1>3, <1>4, <2>2
  <2>3. CASE o \in Ops(q)
    <3>1. o.hlc.peer \in Peer /\ o \in Ops(o.hlc.peer)
      BY <1>1, <2>3, OpsTyped DEF LogInv, Origin, Stamps
    <3>2. CASE o.hlc.peer = p
      BY <1>3, <3>1, <3>2
    <3>3. CASE o.hlc.peer # p
      BY <1>2, <3>1, <3>3
    <3> QED BY <3>2, <3>3
  <2>4. q # p => Ops(q)' = Ops(q)
    BY <1>2
  <2> QED BY <1>3, <2>1, <2>2, <2>3, <2>4
<1>8. \A q \in Peer : Ops(q) \subseteq Ops(q)' /\ Ops(q)' \subseteq Ops(q) \cup new
                      /\ (new \cap Ops(q)' # {} => new \subseteq Ops(q)')
  <2>1. SUFFICES ASSUME NEW q \in Peer
                 PROVE  Ops(q) \subseteq Ops(q)' /\ Ops(q)' \subseteq Ops(q) \cup new
                        /\ (new \cap Ops(q)' # {} => new \subseteq Ops(q)')
    OBVIOUS
  <2>2. CASE q = p
    BY <1>3, <2>2
  <2>3. CASE q # p
    <3>1. Ops(q)' = Ops(q)
      BY <1>2, <2>3
    <3>2. new \cap Ops(q) = {}
      BY <1>5
    <3> QED BY <3>1, <3>2
  <2> QED BY <2>2, <2>3
<1>9. Whole'
  <2>1. SUFFICES ASSUME NEW q \in Peer, NEW r \in Peer, NEW a \in Ops(q)', NEW b \in Ops(r)',
                        a.hlc = b.hlc
                 PROVE  b \in Ops(q)'
    BY DEF Whole
  <2>2. CASE a \in new /\ b \in new
    BY <1>8, <2>2
  <2>3. CASE a \in Ops(q) /\ b \in Ops(r)
    BY <1>8, <2>1, <2>3 DEF LogInv, Whole
  <2> QED BY <1>5, <1>8, <2>1, <2>2, <2>3
<1>10. NoTies'
  <2>1. SUFFICES ASSUME NEW q \in Peer, NEW a \in Ops(q)', NEW b \in Ops(q)', Tie(a, b)
                 PROVE  a = b
    BY DEF NoTies
  <2>2. a.hlc = b.hlc
    BY <2>1 DEF Tie
  <2>3. CASE a \in new /\ b \in new
    BY <2>1, <2>3 DEF Executes
  <2>4. CASE a \in Ops(q) /\ b \in Ops(q)
    BY <2>1, <2>4 DEF LogInv, NoTies
  <2> QED BY <1>5, <1>8, <2>1, <2>2, <2>3, <2>4
<1> QED BY <1>6, <1>7, <1>9, <1>10 DEF LogInv, Executes

\* What a synchronisation does to the logs: each gains all of another or
\* nothing.
Exchanges ==
    /\ LogTyped' /\ NoDuplicates' /\ UNCHANGED clock
    /\ \A p \in Peer : \E q \in Peer : Ops(p)' = Ops(p) \cup Ops(q)

LEMMA ExchangesKeep ==
    ASSUME LogInv, Exchanges
    PROVE  LogInv'
<1>1. LogTyped /\ clock' = clock
  BY DEF LogInv, Exchanges
<1>2. \A p \in Peer : \E q \in Peer : Ops(p)' = Ops(p) \cup Ops(q)
  BY DEF Exchanges
<1>3. ASSUME NEW p \in Peer, NEW o \in Ops(p)'
      PROVE  o.hlc.peer \in Peer /\ o \in Ops(o.hlc.peer)
  <2>1. PICK q \in Peer : o \in Ops(q)
    BY <1>2, <1>3
  <2> QED BY <1>1, <2>1, OpsTyped DEF LogInv, Origin, Stamps
<1>4. Floor'
  BY <1>1, <1>3 DEF LogInv, Floor
<1>5. Origin'
  BY <1>2, <1>3 DEF Origin
<1>6. Whole'
  <2>1. SUFFICES ASSUME NEW p \in Peer, NEW q \in Peer, NEW a \in Ops(p)', NEW b \in Ops(q)',
                        a.hlc = b.hlc
                 PROVE  b \in Ops(p)'
    BY DEF Whole
  <2>2. PICK r \in Peer : b \in Ops(r)
    BY <1>2, <2>1
  <2>3. PICK s \in Peer : Ops(p)' = Ops(p) \cup Ops(s)
    BY <1>2
  <2>4. a \in Ops(p) => b \in Ops(p)
    BY <2>1, <2>2 DEF LogInv, Whole
  <2>5. a \in Ops(s) => b \in Ops(s)
    BY <2>1, <2>2 DEF LogInv, Whole
  <2> QED BY <2>1, <2>3, <2>4, <2>5
<1>7. NoTies'
  <2>1. SUFFICES ASSUME NEW p \in Peer, NEW a \in Ops(p)', NEW b \in Ops(p)', Tie(a, b)
                 PROVE  a = b
    BY DEF NoTies
  <2>2. PICK r \in Peer : a \in Ops(r)
    BY <1>2, <2>1
  <2>3. PICK s \in Peer : b \in Ops(s)
    BY <1>2, <2>1
  <2>4. b \in Ops(r)
    BY <2>1, <2>2, <2>3 DEF LogInv, Whole, Tie
  <2> QED BY <2>1, <2>2, <2>4 DEF LogInv, NoTies
<1> QED BY <1>4, <1>5, <1>6, <1>7 DEF LogInv, Exchanges

\* Where operations under one timestamp stay together, what is sent is what
\* is missing.
LEMMA ReceivesAll ==
    ASSUME LogInv, NEW p \in Peer, NEW q \in Peer
    PROVE  /\ AppendAll(log[p], MissingOps(log[q], log[p])) \in Seq(Op)
           /\ ToSet(AppendAll(log[p], MissingOps(log[q], log[p]))) = Ops(p) \cup Ops(q)
           /\ Distinct(AppendAll(log[p], MissingOps(log[q], log[p])))
<1>1. log[p] \in Seq(Op) /\ log[q] \in Seq(Op) /\ Distinct(log[p])
  BY DEF LogInv, LogTyped, NoDuplicates
<1>. DEFINE m == MissingOps(log[q], log[p])
<1>2. m \in Seq(Op) /\ ToSet(m) = {o \in Ops(q) : o.hlc \notin Fingerprints(log[p])}
  BY <1>1, MissingOpsFacts DEF Ops
<1>. HIDE DEF m
<1>3. /\ AppendAll(log[p], m) \in Seq(Op)
      /\ ToSet(AppendAll(log[p], m)) = Ops(p) \cup ToSet(m)
      /\ Distinct(AppendAll(log[p], m))
  BY <1>1, <1>2, AppendAllFacts DEF Ops
<1>4. \A o \in Ops(q) : o.hlc \in Fingerprints(log[p]) => o \in Ops(p)
  <2>1. SUFFICES ASSUME NEW o \in Ops(q), NEW i \in DOMAIN log[p], log[p][i].hlc = o.hlc
                 PROVE  o \in Ops(p)
    BY DEF Fingerprints
  <2>2. log[p][i] \in Ops(p)
    BY DEF Ops, ToSet
  <2> QED BY <2>1, <2>2 DEF LogInv, Whole
<1>5. Ops(p) \cup ToSet(m) = Ops(p) \cup Ops(q)
  BY <1>2, <1>4
<1> QED BY <1>3, <1>5 DEF m

LEMMA SyncLogs ==
    ASSUME LogInv, NEW p \in Peer, NEW q \in Peer, p # q, Sync(p, q)
    PROVE  /\ Exchanges
           /\ Ops(p)' = Ops(p) \cup Ops(q) /\ Ops(q)' = Ops(p) \cup Ops(q)
           /\ \A r \in Peer \ {p, q} : Ops(r)' = Ops(r)
<1>1. LogTyped /\ NoDuplicates /\ UNCHANGED clock
  BY DEF LogInv, Sync
<1>2. log' = [log EXCEPT ![p] = AppendAll(log[p], MissingOps(log[q], log[p])),
                         ![q] = AppendAll(log[q], MissingOps(log[p], log[q]))]
  <2>1. log' = [log EXCEPT ![p] = AppendAll(@, MissingOps(log[q], log[p])),
                           ![q] = AppendAll(@, MissingOps(log[p], log[q]))]
    BY DEF Sync, RebuildAll
  <2> QED BY <1>1, <2>1 DEF LogTyped
<1>. DEFINE a == AppendAll(log[p], MissingOps(log[q], log[p]))
            b == AppendAll(log[q], MissingOps(log[p], log[q]))
<1>3. log'[p] = a /\ log'[q] = b /\ \A r \in Peer \ {p, q} : log'[r] = log[r]
  BY <1>1, <1>2 DEF LogTyped
<1>4. /\ a \in Seq(Op) /\ ToSet(a) = Ops(p) \cup Ops(q) /\ Distinct(a)
      /\ b \in Seq(Op) /\ ToSet(b) = Ops(q) \cup Ops(p) /\ Distinct(b)
  BY ReceivesAll
<1>5. log' \in [Peer -> Seq(Op)]
  <2>1. log' = [r \in Peer |-> log'[r]]
    BY <1>1, <1>2 DEF LogTyped
  <2>. HIDE DEF a, b
  <2>2. \A r \in Peer : log'[r] \in Seq(Op)
    BY <1>1, <1>3, <1>4 DEF LogTyped
  <2> QED BY <2>1, <2>2
<1>6. now' \in 0..MaxTime
  BY <1>1, TimeAssumption DEF LogTyped, Sync, Passing
<1>7. LogTyped'
  BY <1>1, <1>5, <1>6 DEF LogTyped
<1>. HIDE DEF a, b
<1>8. NoDuplicates'
  BY <1>1, <1>3, <1>4 DEF NoDuplicates
<1>9. /\ Ops(p)' = Ops(p) \cup Ops(q) /\ Ops(q)' = Ops(p) \cup Ops(q)
      /\ \A r \in Peer \ {p, q} : Ops(r)' = Ops(r)
  BY <1>3, <1>4 DEF Ops
<1>10. \A r \in Peer : \E s \in Peer : Ops(r)' = Ops(r) \cup Ops(s)
  <2>1. \A r \in Peer \ {p, q} : Ops(r)' = Ops(r) \cup Ops(r)
    BY <1>9
  <2>2. Ops(q)' = Ops(q) \cup Ops(p)
    BY <1>9
  <2> QED BY <1>9, <2>1, <2>2
<1> QED BY <1>1, <1>7, <1>8, <1>9, <1>10 DEF Exchanges

LEMMA SyncFromLogs ==
    ASSUME LogInv, NEW p \in Peer, NEW q \in Peer, SyncFrom(p, q)
    PROVE  /\ Exchanges
           /\ Ops(p)' = Ops(p) \cup Ops(q)
           /\ \A r \in Peer \ {p} : Ops(r)' = Ops(r)
<1>1. LogTyped /\ NoDuplicates /\ UNCHANGED clock
  BY DEF LogInv, SyncFrom
<1>. DEFINE a == AppendAll(log[p], MissingOps(log[q], log[p]))
<1>2. log' = [log EXCEPT ![p] = a]
  BY DEF SyncFrom, RebuildAll
<1>3. log'[p] = a /\ \A r \in Peer \ {p} : log'[r] = log[r]
  BY <1>1, <1>2 DEF LogTyped
<1>4. a \in Seq(Op) /\ ToSet(a) = Ops(p) \cup Ops(q) /\ Distinct(a)
  BY ReceivesAll
<1>5. log' \in [Peer -> Seq(Op)]
  <2>1. log' = [r \in Peer |-> log'[r]]
    BY <1>1, <1>2 DEF LogTyped
  <2>. HIDE DEF a
  <2>2. \A r \in Peer : log'[r] \in Seq(Op)
    BY <1>1, <1>3, <1>4 DEF LogTyped
  <2> QED BY <2>1, <2>2
<1>6. now' \in 0..MaxTime
  BY <1>1, TimeAssumption DEF LogTyped, SyncFrom, Passing
<1>7. LogTyped'
  BY <1>1, <1>5, <1>6 DEF LogTyped
<1>. HIDE DEF a
<1>8. NoDuplicates'
  BY <1>1, <1>3, <1>4 DEF NoDuplicates
<1>9. Ops(p)' = Ops(p) \cup Ops(q) /\ \A r \in Peer \ {p} : Ops(r)' = Ops(r)
  BY <1>3, <1>4 DEF Ops
<1>10. \A r \in Peer : \E s \in Peer : Ops(r)' = Ops(r) \cup Ops(s)
  <2>1. \A r \in Peer \ {p} : Ops(r)' = Ops(r) \cup Ops(r)
    BY <1>9
  <2> QED BY <1>9, <2>1
<1> QED BY <1>1, <1>7, <1>8, <1>9, <1>10 DEF Exchanges

\* The kinds of steps, as far as the logs are concerned.
LEMMA StepKinds ==
    ASSUME LogInv, [Next]_vars
    PROVE  \/ \E p \in Peer : \E new : Executes(p, new)
           \/ \E p, q \in Peer : p # q /\ Sync(p, q)
           \/ \E p, q \in Peer : p # q /\ SyncFrom(p, q)
           \/ LogTyped' /\ UNCHANGED <<clock, log>>
<1>1. LogTyped
  BY DEF LogInv
<1>2. ASSUME NEW p \in Peer, Insert(p) \/ Update(p) \/ Delete(p)
      PROVE  \E new : Executes(p, new)
  BY <1>1, <1>2, InsertPerforms, UpdatePerforms, DeletePerforms, PerformsExecutes
<1>3. ASSUME NEW p \in Peer, InsertRejected(p) PROVE \E new : Executes(p, new)
  BY <1>3, RejectedExecutes
<1>4. ASSUME NEW p \in Peer, Recover(p) PROVE LogTyped' /\ UNCHANGED <<clock, log>>
  BY <1>1, <1>4 DEF Recover, RebuildAll, LogTyped
<1>5. ASSUME Pass PROVE LogTyped' /\ UNCHANGED <<clock, log>>
  BY <1>1, <1>5, TimeAssumption DEF Pass, Passing, LogTyped
<1>6. ASSUME UNCHANGED vars PROVE LogTyped' /\ UNCHANGED <<clock, log>>
  BY <1>1, <1>6 DEF vars, LogTyped
<1>7. ASSUME NEW p \in Peer, NEW q \in Peer, p < q PROVE p # q
  BY <1>7, PeersAssumption
<1> QED BY <1>2, <1>3, <1>4, <1>5, <1>6, <1>7 DEF Next

LEMMA LogInvInit == Init => LogInv
<1>. SUFFICES ASSUME Init PROVE LogInv
  OBVIOUS
<1>1. LogTyped
  BY TimeAssumption DEF Init, LogTyped, Clock
<1>2. \A p \in Peer : log[p] = <<>> /\ Ops(p) = {} /\ DOMAIN log[p] = {}
  BY DEF Init, Ops, ToSet
<1> QED BY <1>1, <1>2 DEF LogInv, NoDuplicates, Distinct, Floor, Origin, Whole, NoTies

LEMMA LogInvStep ==
    ASSUME LogInv, [Next]_vars
    PROVE  LogInv'
<1>1. ASSUME NEW p \in Peer, NEW new, Executes(p, new) PROVE LogInv'
  BY <1>1, ExecutesKeeps
<1>2. ASSUME NEW p \in Peer, NEW q \in Peer, p # q, Sync(p, q) PROVE LogInv'
  BY <1>2, SyncLogs, ExchangesKeep
<1>3. ASSUME NEW p \in Peer, NEW q \in Peer, SyncFrom(p, q) PROVE LogInv'
  BY <1>3, SyncFromLogs, ExchangesKeep
<1>4. ASSUME LogTyped', UNCHANGED <<clock, log>> PROVE LogInv'
  <2>1. \A p \in Peer : Ops(p)' = Ops(p)
    BY <1>4 DEF Ops
  <2>2. NoDuplicates' /\ Floor' /\ Whole' /\ NoTies'
    BY <1>4, <2>1 DEF LogInv, NoDuplicates, Floor, Whole, NoTies
  <2>3. Origin'
    <3>1. \A p \in Peer : \A o \in Ops(p) : o.hlc.peer \in Peer
      BY OpsTyped DEF LogInv, Stamps
    <3> QED BY <2>1, <3>1 DEF LogInv, Origin
  <2> QED BY <1>4, <2>2, <2>3 DEF LogInv
<1> QED BY <1>1, <1>2, <1>3, <1>4, StepKinds

\* Through any statements, synchronisations and rebuilds, logs have no
\* duplicates, clocks are never behind their own timestamps, operations under
\* one timestamp stay together, and no two operations tie.
THEOREM LogInvariance == Spec => []LogInv
<1>1. Init => LogInv
  BY LogInvInit
<1>2. LogInv /\ [Next]_vars => LogInv'
  BY LogInvStep
<1> QED BY <1>1, <1>2, PTL DEF Spec

\* The hypotheses of fingerprint anti-entropy hold of the engines' logs
\* (Engine::execute_with_params, sync_with, sync_from).
THEOREM LogsWhole == Spec => []GroupsWhole
<1>1. LogInv => GroupsWhole
  <2>. SUFFICES ASSUME LogInv PROVE GroupsWhole
    OBVIOUS
  <2>1. AE!Floor
    BY DEF LogInv, Floor, AE!Floor, AE!Earlier, Earlier
  <2>2. AE!Origin
    <3>1. \A p \in Peer : \A o \in Ops(p) : o.hlc.peer \in Peer /\ o \in Ops(o.hlc.peer)
      BY OpsTyped DEF LogInv, Origin, Stamps
    <3> QED BY <3>1 DEF AE!Origin
  <2>3. AE!GroupsWhole
    BY DEF LogInv, Whole, AE!GroupsWhole
  <2> QED BY <2>1, <2>2, <2>3 DEF GroupsWhole
<1> QED BY <1>1, LogInvariance, PTL

\* The sets of operations in the logs, the variable that AntiEntropy calls log.
OpSets == [p \in Peer |-> Ops(p)]

LEMMA MissingIsNew ==
    ASSUME LogInv, NEW p \in Peer, NEW q \in Peer
    PROVE  Ops(p) \cup AE!Missing(Ops(q), Ops(p)) = Ops(p) \cup Ops(q)
<1>1. \A a \in Ops(p), b \in Ops(q) : a.hlc = b.hlc => b \in Ops(p)
  BY DEF LogInv, Whole
<1> QED BY <1>1 DEF AE!Missing, AE!Fingerprints

\* Every statement and every synchronisation of the engines is one of
\* AntiEntropy, and a rebuild is nothing to it: all that follows from LogInv.
THEOREM LogsImplement == Spec => ImplementsAntiEntropy
<1>1. ASSUME LogInv, [Next]_vars
      PROVE  \/ \E p \in Peer : AE!Statement(p, clock'[p], Ops(p)' \ Ops(p))
             \/ \E p, q \in Peer : p # q /\ (AE!Sync(p, q) \/ AE!SyncFrom(p, q))
             \/ UNCHANGED <<clock, OpSets>>
  <2>1. ASSUME NEW p \in Peer, NEW new, Executes(p, new)
        PROVE  AE!Statement(p, clock'[p], Ops(p)' \ Ops(p))
    <3>1. Earlier(clock[p], clock'[p]) /\ clock' = [clock EXCEPT ![p] = clock'[p]]
      BY <2>1 DEF Executes
    <3>2. Ops(p)' = Ops(p) \cup new /\ \A q \in Peer \ {p} : Ops(q)' = Ops(q)
      BY <2>1 DEF Executes, Ops
    <3>3. \A o \in Ops(p)' \ Ops(p) :
             /\ o.hlc.peer = p /\ Earlier(clock[p], o.hlc) /\ ~Earlier(clock'[p], o.hlc)
      BY <2>1, <3>2 DEF Executes
    <3>4. OpSets' = [OpSets EXCEPT ![p] = @ \cup (Ops(p)' \ Ops(p))]
      <4>1. OpSets' = [q \in Peer |-> Ops(q)']
        BY DEF OpSets
      <4>2. OpSets[p] = Ops(p) /\ \A q \in Peer \ {p} : OpSets[q] = Ops(q)
        BY DEF OpSets
      <4>3. OpSets = [q \in Peer |-> OpSets[q]]
        BY DEF OpSets
      <4> QED BY <3>2, <4>1, <4>2, <4>3
    <3> QED BY <3>1, <3>3, <3>4 DEF AE!Statement, AE!Loggable, AE!Earlier, Earlier, OpSets
  <2>2. ASSUME NEW p \in Peer, NEW q \in Peer, p # q, Sync(p, q) PROVE AE!Sync(p, q)
    <3>1. /\ clock' = clock
          /\ Ops(p)' = Ops(p) \cup Ops(q) /\ Ops(q)' = Ops(p) \cup Ops(q)
          /\ \A r \in Peer \ {p, q} : Ops(r)' = Ops(r)
      BY <1>1, <2>2, SyncLogs DEF Exchanges
    <3>2. /\ Ops(p)' = Ops(p) \cup AE!Missing(Ops(q), Ops(p))
          /\ Ops(q)' = Ops(q) \cup AE!Missing(Ops(p), Ops(q))
      BY <1>1, <3>1, MissingIsNew
    <3>3. OpSets' = [OpSets EXCEPT ![p] = @ \cup AE!Missing(OpSets[q], OpSets[p]),
                                   ![q] = @ \cup AE!Missing(OpSets[p], OpSets[q])]
      <4>1. OpSets' = [r \in Peer |-> Ops(r)']
        BY DEF OpSets
      <4>2. \A r \in Peer : OpSets[r] = Ops(r)
        BY DEF OpSets
      <4>3. OpSets = [r \in Peer |-> OpSets[r]]
        BY DEF OpSets
      <4> QED BY <2>2, <3>1, <3>2, <4>1, <4>2, <4>3
    <3> QED BY <3>1, <3>3 DEF AE!Sync, OpSets
  <2>3. ASSUME NEW p \in Peer, NEW q \in Peer, SyncFrom(p, q) PROVE AE!SyncFrom(p, q)
    <3>1. /\ clock' = clock
          /\ Ops(p)' = Ops(p) \cup Ops(q)
          /\ \A r \in Peer \ {p} : Ops(r)' = Ops(r)
      BY <1>1, <2>3, SyncFromLogs DEF Exchanges
    <3>2. Ops(p)' = Ops(p) \cup AE!Missing(Ops(q), Ops(p))
      BY <1>1, <3>1, MissingIsNew
    <3>3. OpSets' = [OpSets EXCEPT ![p] = @ \cup AE!Missing(OpSets[q], OpSets[p])]
      <4>1. OpSets' = [r \in Peer |-> Ops(r)']
        BY DEF OpSets
      <4>2. \A r \in Peer : OpSets[r] = Ops(r)
        BY DEF OpSets
      <4>3. OpSets = [r \in Peer |-> OpSets[r]]
        BY DEF OpSets
      <4> QED BY <3>1, <3>2, <4>1, <4>2, <4>3
    <3> QED BY <3>1, <3>3 DEF AE!SyncFrom, OpSets
  <2>4. ASSUME UNCHANGED <<clock, log>> PROVE UNCHANGED <<clock, OpSets>>
    <3>1. \A p \in Peer : Ops(p)' = Ops(p)
      BY <2>4 DEF Ops
    <3> QED BY <2>4, <3>1 DEF OpSets
  <2>5. ASSUME NEW p \in Peer, NEW q \in Peer, p # q, Sync(p, q) \/ SyncFrom(p, q)
        PROVE  \E x, y \in Peer : x # y /\ (AE!Sync(x, y) \/ AE!SyncFrom(x, y))
    BY <2>2, <2>3, <2>5
  <2>6. (\E p \in Peer : \E new : Executes(p, new)) =>
            \E p \in Peer : AE!Statement(p, clock'[p], Ops(p)' \ Ops(p))
    BY <2>1
  <2>7. (\E p, q \in Peer : p # q /\ Sync(p, q)) \/ (\E p, q \in Peer : p # q /\ SyncFrom(p, q)) =>
            \E x, y \in Peer : x # y /\ (AE!Sync(x, y) \/ AE!SyncFrom(x, y))
    BY <2>5
  <2> QED BY <1>1, <2>4, <2>6, <2>7, StepKinds
<1>2. LogInv /\ [Next]_vars =>
        [\/ \E p \in Peer : AE!Statement(p, clock'[p], Ops(p)' \ Ops(p))
         \/ \E p, q \in Peer : p # q /\ (AE!Sync(p, q) \/ AE!SyncFrom(p, q))
        ]_<<clock, [p \in Peer |-> Ops(p)]>>
  BY <1>1 DEF OpSets
<1> QED BY <1>2, LogInvariance, PTL DEF Spec, ImplementsAntiEntropy

-----------------------------------------------------------------------------
(* The replay order.                                                       *)

\* ReplayOrder as a set of pairs.
ReplayPairs(O) == {r \in O \X O : ReplayOrder(r[1], r[2])}

\* Where no operations tie, they have one order.
LEMMA ReplayOrders ==
    ASSUME NEW O, O \subseteq Op, \A a, b \in O : Tie(a, b) => a = b
    PROVE  Orders(ReplayPairs(O), O)
<1>1. ASSUME NEW a \in O
      PROVE  /\ Tier(a) \in {1, 2} /\ (Tier(a) = 2 <=> IsClaim(a))
             /\ a.hlc.wall \in Nat /\ a.hlc.logical \in Nat /\ a.hlc.peer \in Nat
             /\ IsClaim(a) => a.constraint \in Nat
  <2>1. a \in Op
    OBVIOUS
  <2>2. a.hlc \in Stamps
    BY <2>1 DEF Op, RowOp, ClaimOp
  <2>3. IsClaim(a) => a.constraint \in Nat
    BY <2>1 DEF Op, RowOp, ClaimOp, IsClaim
  <2>4. a.hlc.wall \in Nat /\ a.hlc.logical \in Nat /\ a.hlc.peer \in Nat
    BY <2>2, PeersAssumption DEF Stamps
  <2>5. Tier(a) \in {1, 2} /\ (Tier(a) = 2 <=> IsClaim(a))
    BY DEF Tier
  <2> QED BY <2>3, <2>4, <2>5
<1>2. \A a, b \in O : <<a, b>> \in ReplayPairs(O) <=> ReplayOrder(a, b)
  BY DEF ReplayPairs
<1>3. ASSUME NEW a \in O PROVE ~ReplayOrder(a, a)
  BY <1>1 DEF ReplayOrder, Before, Earlier
<1>4. ASSUME NEW a \in O, NEW b \in O, NEW c \in O, ReplayOrder(a, b), ReplayOrder(b, c)
      PROVE  ReplayOrder(a, c)
  <2>1. /\ Tier(a) \in Nat /\ Tier(b) \in Nat /\ Tier(c) \in Nat
        /\ Tier(a) <= Tier(b) /\ Tier(b) <= Tier(c)
    BY <1>1, <1>4 DEF ReplayOrder
  <2>2. CASE Tier(a) < Tier(c)
    BY <2>2 DEF ReplayOrder
  <2>3. CASE Tier(a) = Tier(b) /\ Tier(b) = Tier(c)
    <3>1. Before(a.hlc, b.hlc) \/ (a.hlc = b.hlc /\ IsClaim(a) /\ a.constraint < b.constraint)
      BY <1>4, <2>1, <2>3 DEF ReplayOrder
    <3>2. Before(b.hlc, c.hlc) \/ (b.hlc = c.hlc /\ IsClaim(b) /\ b.constraint < c.constraint)
      BY <1>4, <2>1, <2>3 DEF ReplayOrder
    <3>3. Before(a.hlc, b.hlc) /\ Before(b.hlc, c.hlc) => Before(a.hlc, c.hlc)
      BY <1>1 DEF Before, Earlier
    <3>4. IsClaim(a) /\ IsClaim(b) => IsClaim(c)
      BY <1>1, <2>3
    <3>5. \/ a.constraint \in Nat /\ b.constraint \in Nat /\ c.constraint \in Nat
          \/ ~IsClaim(a)
          \/ ~IsClaim(b)
      BY <1>1, <3>4
    <3> QED BY <2>3, <3>1, <3>2, <3>3, <3>5 DEF ReplayOrder
  <2> QED BY <2>1, <2>2, <2>3
<1>5. ASSUME NEW a \in O, NEW b \in O PROVE a = b \/ ReplayOrder(a, b) \/ ReplayOrder(b, a)
  <2>1. CASE Tier(a) # Tier(b)
    BY <1>1, <2>1 DEF ReplayOrder
  <2>2. CASE Tier(a) = Tier(b)
    <3>1. a.hlc = b.hlc \/ Before(a.hlc, b.hlc) \/ Before(b.hlc, a.hlc)
      <4>1. a.hlc \in Stamps /\ b.hlc \in Stamps
        BY DEF Op, RowOp, ClaimOp
      <4>2. (a.hlc.wall = b.hlc.wall /\ a.hlc.logical = b.hlc.logical /\ a.hlc.peer = b.hlc.peer)
              => a.hlc = b.hlc
        BY <4>1 DEF Stamps
      <4> QED BY <1>1, <4>2 DEF Before, Earlier
    <3>2. CASE a.hlc = b.hlc
      <4>1. CASE IsClaim(a) /\ a.constraint # b.constraint
        <5>1. IsClaim(b)
          BY <1>1, <2>2, <4>1
        <5>2. a.constraint < b.constraint \/ b.constraint < a.constraint
          BY <1>1, <4>1, <5>1
        <5> QED BY <2>2, <3>2, <4>1, <5>1, <5>2 DEF ReplayOrder
      <4>2. CASE ~(IsClaim(a) /\ a.constraint # b.constraint)
        BY <2>2, <3>2, <4>2 DEF Tie
      <4> QED BY <4>1, <4>2
    <3> QED BY <2>2, <3>1, <3>2 DEF ReplayOrder
  <2> QED BY <2>1, <2>2
<1> QED BY <1>2, <1>3, <1>4, <1>5 DEF Orders

\* Inserting the entries of s one by one, by the pairs in R, yields v.
SortsTo(v, O, R, s) == \E x : Inserts(x, O, R, s) /\ v = x[Len(s)]

\* Sorting by the replay order inserts the operations one by one.
LEMMA ReplaySort ==
    ASSUME NEW O, NEW s \in Seq(O)
    PROVE  SortsTo(Sorted(s, ReplayOrder), O, ReplayPairs(O), s)
<1>. DEFINE n == Len(s)
            T == Seq(O)
            R == ReplayPairs(O)
            H == [i \in 1..n |-> [m \in T |-> InsertionBy(R, m, s[i])]]
            Put(m, v) == InsertAt(m, 1 + Cardinality({i \in DOMAIN m : ~ReplayOrder(v, m[i])}), v)
            Eq(f) == f = [i \in 0..Len(s) |->
                            IF i = 0 THEN <<>> ELSE Put(f[i - 1], s[i])]
            c == CHOOSE f : Eq(f)
<1>1. Sorted(s, ReplayOrder) = c[n]
  BY DEF Sorted, Insertion
<1>2. n \in Nat /\ <<>> \in T /\ \A i \in 1..n : s[i] \in O
  OBVIOUS
<1>3. ASSUME NEW m \in T, NEW v \in O
      PROVE  Put(m, v) = InsertionBy(R, m, v) /\ Put(m, v) \in T
  <2>1. {i \in DOMAIN m : ~ReplayOrder(v, m[i])} = {i \in DOMAIN m : <<v, m[i]>> \notin R}
    <3>1. \A i \in DOMAIN m : m[i] \in O
      OBVIOUS
    <3> QED BY <3>1 DEF ReplayPairs
  <2>2. Put(m, v) = InsertionBy(R, m, v)
    BY <2>1 DEF InsertionBy
  <2>3. Gains(InsertionBy(R, m, v), O, m, v)
    <3> HIDE DEF R
    <3> QED BY InsertionKeeps
  <2> HIDE DEF Put
  <2> QED BY <2>2, <2>3 DEF Gains
<1>. HIDE DEF Put, R
<1>4. H \in [1..n -> [T -> T]]
  BY <1>2, <1>3
<1>5. Eq(c)
  <2>1. PICK x : IsRun(x, n, T, <<>>, H)
    <3> HIDE DEF H, T, n
    <3> QED BY <1>2, <1>4, RunExists
  <2>2. ASSUME NEW k \in 1..n PROVE x[k] = Put(x[k - 1], s[k])
    <3>1. k - 1 \in 0..n
      BY <1>2
    <3>2. x[k - 1] \in T /\ x[k] = H[k][x[k - 1]]
      <4> HIDE DEF H, T, n
      <4> QED BY <3>1, <2>1 DEF IsRun
    <3>3. H[k][x[k - 1]] = InsertionBy(R, x[k - 1], s[k])
      BY <3>2
    <3>4. s[k] \in O
      BY <1>2
    <3> QED BY <3>2, <3>3, <3>4, <1>3
  <2>3. x = [i \in 0..n |-> x[i]] /\ x[0] = <<>>
    BY <2>1 DEF IsRun
  <2>4. \A i \in 0..n : i # 0 => i \in 1..n
    BY <1>2
  <2>5. \A i \in 0..n : x[i] = IF i = 0 THEN <<>> ELSE Put(x[i - 1], s[i])
    BY <2>2, <2>3, <2>4
  <2> QED BY <2>3, <2>5
<1>6. c = [k \in 0..n |-> c[k]] /\ c[0] = <<>>
  <2>1. 0 \in 0..n
    BY <1>2
  <2> QED BY <1>5, <2>1
<1>7. \A k \in 1..n : c[k] = Put(c[k - 1], s[k])
  <2>1. \A k \in 1..n : k \in 0..n /\ k # 0
    BY <1>2
  <2> QED BY <1>5, <2>1
<1>. HIDE DEF c
<1>8. IsRun(c, n, T, <<>>, H)
  <2>1. ASSUME NEW k \in 1..n, c[k - 1] \in T PROVE c[k] = H[k][c[k - 1]]
    BY <1>2, <1>3, <1>7, <2>1
  <2> HIDE DEF H, T, n
  <2> QED BY <1>2, <1>4, <1>6, <2>1, EquationIsRun
<1>9. Inserts(c, O, R, s)
  <2>1. c \in [0..n -> T]
    BY <1>8 DEF IsRun
  <2>2. \A k \in 1..n : c[k] = InsertionBy(R, c[k - 1], s[k])
    <3>1. \A k \in 1..n : k - 1 \in 0..n /\ s[k] \in O
      BY <1>2
    <3> HIDE DEF n
    <3> QED BY <1>3, <1>7, <2>1, <3>1
  <2> QED BY <1>6, <2>1, <2>2 DEF Inserts
<1> QED BY <1>1, <1>9 DEF SortsTo, R

\* A log as LogInv has it.
Untied(l) ==
    l \in Seq(Op) /\ Distinct(l) /\ \A a, b \in ToSet(l) : Tie(a, b) => a = b

\* Where no operations tie, the replay order of a log is the order of its
\* operations, whatever the log's own order.
LEMMA LogSorted ==
    ASSUME NEW l, Untied(l)
    PROVE  /\ Sorted(l, ReplayOrder) \in Seq(ToSet(l))
           /\ ToSet(Sorted(l, ReplayOrder)) = ToSet(l)
           /\ InOrderOf(ReplayPairs(ToSet(l)), Sorted(l, ReplayOrder))
<1>. DEFINE O == ToSet(l)
            R == ReplayPairs(O)
            v == Sorted(l, ReplayOrder)
<1>1. l \in Seq(Op) /\ Distinct(l)
  BY DEF Untied
<1>2. l \in Seq(O) /\ O \subseteq Op
  <2>1. Len(l) \in Nat /\ l = [i \in 1..Len(l) |-> l[i]] /\ \A i \in 1..Len(l) : l[i] \in Op
    BY <1>1
  <2>2. (\A i \in 1..Len(l) : l[i] \in O) /\ O \subseteq Op
    BY <2>1 DEF ToSet
  <2> HIDE DEF O
  <2> QED BY <2>1, <2>2
<1>3. Orders(R, O)
  <2>1. \A a, b \in O : Tie(a, b) => a = b
    BY DEF Untied
  <2> HIDE DEF O
  <2> QED BY <1>2, <2>1, ReplayOrders
<1>4. SortsTo(v, O, R, l)
  <2> HIDE DEF O
  <2> QED BY <1>2, ReplaySort
<1>. HIDE DEF R, v
<1>5. PICK x : Inserts(x, O, R, l) /\ v = x[Len(l)]
  BY <1>4 DEF SortsTo
<1>6. x[Len(l)] \in Seq(O) /\ ToSet(x[Len(l)]) = ToSet(l) /\ InOrderOf(R, x[Len(l)])
  <2> HIDE DEF O
  <2> QED BY <1>1, <1>2, <1>3, <1>5, InsertsFacts
<1> QED BY <1>5, <1>6 DEF v, R

LEMMA ReplaySorted ==
    ASSUME LogInv, NEW p \in Peer
    PROVE  /\ Sorted(log[p], ReplayOrder) \in Seq(Ops(p))
           /\ ToSet(Sorted(log[p], ReplayOrder)) = Ops(p)
           /\ InOrderOf(ReplayPairs(Ops(p)), Sorted(log[p], ReplayOrder))
<1>1. Untied(log[p])
  BY DEF LogInv, LogTyped, NoDuplicates, NoTies, Ops, Untied
<1> QED BY <1>1, LogSorted DEF Ops

\* Peers with the same operations replay them in the same order and rebuild
\* the same tables and claims, whatever reached them first: the operations
\* of a log do not tie (Engine::rebuild_store).
THEOREM ReplayDeterministic == Spec => []ReplayConverges
<1>1. LogInv => ReplayConverges
  <2>1. SUFFICES ASSUME LogInv, NEW p \in Peer, NEW q \in Peer,
                        Ops(p) = Ops(q), policy[p] = policy[q]
                 PROVE  Rebuilt(p) = Rebuilt(q)
    BY DEF ReplayConverges
  <2>. DEFINE O == Ops(p)
              a == Sorted(log[p], ReplayOrder)
              b == Sorted(log[q], ReplayOrder)
  <2>2. a \in Seq(O) /\ ToSet(a) = O /\ InOrderOf(ReplayPairs(O), a)
    BY <2>1, ReplaySorted
  <2>3. b \in Seq(O) /\ ToSet(b) = O /\ InOrderOf(ReplayPairs(O), b)
    BY <2>1, ReplaySorted
  <2>4. Orders(ReplayPairs(O), O)
    <3>1. O \subseteq Op
      BY <2>1, OpsTyped DEF LogInv
    <3>2. \A x, y \in O : Tie(x, y) => x = y
      BY <2>1 DEF LogInv, NoTies
    <3> HIDE DEF O
    <3> QED BY <3>1, <3>2, ReplayOrders
  <2>5. a = b
    <3> HIDE DEF O, a, b
    <3> QED BY <2>2, <2>3, <2>4, InOrderUnique
  <2> QED BY <2>1, <2>5 DEF Rebuilt, Rebuild
<1> QED BY <1>1, LogInvariance, PTL

-----------------------------------------------------------------------------
(* The tables.                                                             *)

Times == [wall : Nat, logical : Nat, peer : Nat]
Write == [hlc : Times, value : Nat]

Entry ==
    {e \in [live : SUBSET Times, removed : SUBSET Times, tombstone : SUBSET Times] :
        e.removed \subseteq e.live /\ \A x, y \in e.tombstone : x = y}

TableState(t) ==
    [members : [Row -> Entry], cells : [Row -> [Columns[t] -> SUBSET Write]]]

Store ==
    {s \in [Table -> UNION {TableState(t) : t \in Table}] :
        \A t \in Table : s[t] \in TableState(t)}

ClaimsOf(ops) == {o \in ops : IsClaim(o)}

StoreTyped ==
    /\ sent \in 0..MaxStatements
    /\ policy \in [Peer -> Policies]
    /\ store \in [Peer -> Store]
    /\ claims = [p \in Peer |-> claims[p]]
    /\ \A p \in Peer : claims[p] \in Seq(ClaimsOf(Ops(p)))
    /\ index = [p \in Peer |-> [t \in Table |-> index[p][t]]]

StoreInv == StoreTyped /\ IndexShowsRows

\* Operations and claims have timestamps and cells that tables can take.
LEMMA OpFacts ==
    ASSUME NEW o \in Op
    PROVE  /\ o.hlc \in Times /\ o.table \in Table /\ o.row \in Row
           /\ ~IsClaim(o) => /\ o.type \in {"insert", "update", "delete"}
                             /\ o.type \in {"insert", "update"} =>
                                   \A c \in DOMAIN o.cells : o.cells[c] \in Nat
           /\ IsClaim(o) => o \in ClaimOp
<1>1. Stamps \subseteq Times
  BY PeersAssumption DEF Stamps, Times
<1>2. CASE o \in RowOp
  BY <1>1, <1>2 DEF RowOp, Cells, IsClaim
<1>3. CASE o \in ClaimOp
  BY <1>1, <1>3 DEF ClaimOp, IsClaim
<1> QED BY <1>2, <1>3 DEF Op

LEMMA EntryFacts ==
    /\ Absent \in Entry
    /\ \A e \in Entry : \A h \in Times : AddToken(e, h) \in Entry
    /\ \A e \in Entry : \A h \in Times, b \in BOOLEAN : RemoveTokens(e, h, b) \in Entry
    /\ \A e \in Entry : RemoveTokens(e, <<>>, FALSE) \in Entry
    /\ \A e \in Entry : ~IsVisible(RemoveTokens(e, <<>>, FALSE))
<1>1. Absent \in Entry
  BY DEF Absent, Entry
<1>2. ASSUME NEW e \in Entry, NEW h \in Times PROVE AddToken(e, h) \in Entry
  BY DEF Entry, AddToken
<1>3. ASSUME NEW e \in Entry, NEW h \in Times, NEW b \in BOOLEAN
      PROVE  RemoveTokens(e, h, b) \in Entry
  BY DEF Entry, RemoveTokens
<1>4. ASSUME NEW e \in Entry PROVE RemoveTokens(e, <<>>, FALSE) \in Entry
  BY DEF Entry, RemoveTokens
<1>5. ASSUME NEW e \in Entry PROVE ~IsVisible(RemoveTokens(e, <<>>, FALSE))
  BY DEF Entry, RemoveTokens, IsVisible, IsLive, Absent
<1> QED BY <1>1, <1>2, <1>3, <1>4, <1>5

\* A write to cells changes no membership.
LEMMA WriteCellsFacts ==
    ASSUME NEW t \in Table, NEW tab \in TableState(t), NEW r \in Row, NEW h \in Times,
           NEW cells, \A c \in DOMAIN cells : cells[c] \in Nat
    PROVE  /\ WriteCells(tab, r, h, cells) \in TableState(t)
           /\ WriteCells(tab, r, h, cells).members = tab.members
<1>. DEFINE old == tab.cells[r]
            new == [c \in Columns[t] |-> IF c \in DOMAIN cells
                                         THEN WriteCell(old[c], h, cells[c]) ELSE old[c]]
<1>1. old \in [Columns[t] -> SUBSET Write] /\ DOMAIN old = Columns[t]
  BY DEF TableState
<1>2. new \in [Columns[t] -> SUBSET Write]
  <2>1. ASSUME NEW c \in Columns[t], c \in DOMAIN cells
        PROVE  WriteCell(old[c], h, cells[c]) \in SUBSET Write
    <3>1. [hlc |-> h, value |-> cells[c]] \in Write /\ old[c] \subseteq Write
      BY <1>1, <2>1 DEF Write
    <3> QED BY <3>1 DEF WriteCell
  <2> QED BY <1>1, <2>1
<1>3. WriteCells(tab, r, h, cells) = [tab EXCEPT !.cells[r] = new]
  BY <1>1 DEF WriteCells
<1>. HIDE DEF new
<1> QED BY <1>2, <1>3 DEF TableState

LEMMA MemberReplaced ==
    ASSUME NEW t \in Table, NEW w \in TableState(t), NEW r \in Row, NEW e \in Entry
    PROVE  [w EXCEPT !.members[r] = e] \in TableState(t)
<1>. DEFINE C == [Row -> [Columns[t] -> SUBSET Write]]
<1>1. TableState(t) = [members : [Row -> Entry], cells : C]
  BY DEF TableState
<1>. HIDE DEF C
<1> QED BY <1>1

LEMMA InsertRowFacts ==
    ASSUME NEW t \in Table, NEW tab \in TableState(t), NEW r \in Row, NEW h \in Times,
           NEW cells, \A c \in DOMAIN cells : cells[c] \in Nat
    PROVE  InsertRow(tab, r, h, cells) \in TableState(t)
<1>. DEFINE w == WriteCells(tab, r, h, cells)
            e == AddToken(w.members[r], h)
<1>1. w \in TableState(t)
  BY WriteCellsFacts
<1>. HIDE DEF w
<1>2. e \in Entry
  BY <1>1, EntryFacts DEF TableState
<1>3. InsertRow(tab, r, h, cells) = [w EXCEPT !.members[r] = e]
  BY DEF InsertRow, w
<1>. HIDE DEF e
<1> QED BY <1>1, <1>2, <1>3, MemberReplaced

LEMMA DeleteRowFacts ==
    ASSUME NEW t \in Table, NEW tab \in TableState(t), NEW r \in Row, NEW h \in Times,
           NEW b \in BOOLEAN
    PROVE  DeleteRow(tab, r, h, b) \in TableState(t)
<1>1. RemoveTokens(tab.members[r], h, b) \in Entry
  BY EntryFacts DEF TableState
<1> QED BY <1>1 DEF TableState, DeleteRow

\* Store x is store s with another state of table t.
Sets(x, s, t) == x \in Store /\ \A u \in Table \ {t} : x[u] = s[u]

LEMMA SetsTable ==
    ASSUME NEW s \in Store, NEW t \in Table, NEW tab \in TableState(t)
    PROVE  Sets([s EXCEPT ![t] = tab], s, t)
<1>. DEFINE x == [s EXCEPT ![t] = tab]
<1>1. x = [u \in Table |-> x[u]] /\ x[t] = tab /\ \A u \in Table \ {t} : x[u] = s[u]
  BY DEF Store
<1>2. \A u \in Table : x[u] \in TableState(u)
  BY <1>1 DEF Store
<1>. HIDE DEF x
<1>3. x \in Store
  BY <1>1, <1>2 DEF Store
<1> QED BY <1>1, <1>3 DEF Sets, x

\* A replayed operation changes the table it names.
LEMMA ApplyOpFacts ==
    ASSUME NEW s \in Store, NEW o \in Op, ~IsClaim(o)
    PROVE  Sets(ApplyOp(s, o), s, o.table)
<1>1. /\ o.table \in Table /\ o.row \in Row /\ o.hlc \in Times
      /\ o.type \in {"insert", "update", "delete"}
      /\ o.type \in {"insert", "update"} => \A c \in DOMAIN o.cells : o.cells[c] \in Nat
  BY OpFacts
<1>2. o.type = "delete" => o.fkTombstone \in BOOLEAN
  BY DEF Op, RowOp, ClaimOp
<1>. DEFINE t == o.table
            tab == CASE o.type = "insert" -> InsertRow(s[t], o.row, o.hlc, o.cells)
                     [] o.type = "update" -> WriteCells(s[t], o.row, o.hlc, o.cells)
                     [] o.type = "delete" -> DeleteRow(s[t], o.row, o.hlc, o.fkTombstone)
<1>3. s[t] \in TableState(t) /\ t \in Table
  BY <1>1 DEF Store
<1>4. tab \in TableState(t)
  <2>1. CASE o.type = "insert"
    BY <1>1, <1>3, <2>1, InsertRowFacts
  <2>2. CASE o.type = "update"
    BY <1>1, <1>3, <2>2, WriteCellsFacts
  <2>3. CASE o.type = "delete"
    BY <1>1, <1>2, <1>3, <2>3, DeleteRowFacts
  <2> QED BY <1>1, <2>1, <2>2, <2>3
<1>5. ApplyOp(s, o) = [s EXCEPT ![t] = tab]
  BY <1>1, <1>3 DEF ApplyOp, Store
<1>. HIDE DEF tab, t
<1>6. Sets([s EXCEPT ![t] = tab], s, t)
  BY <1>3, <1>4, SetsTable
<1> QED BY <1>5, <1>6 DEF t

\* Table state b is a without some rows: what a cascade does to a table.
Shrinks(b, a) == b.cells = a.cells /\ VisibleRows(b) \subseteq VisibleRows(a)

LEMMA RemoveRowsFacts ==
    ASSUME NEW s \in Store, NEW t \in Table, NEW rows
    PROVE  Sets(RemoveRows(s, t, rows), s, t) /\ Shrinks(RemoveRows(s, t, rows)[t], s[t])
<1>. DEFINE m == [r \in Row |-> IF r \in rows
                                THEN RemoveTokens(s[t].members[r], <<>>, FALSE)
                                ELSE s[t].members[r]]
            tab == [s[t] EXCEPT !.members = m]
<1>1. s[t] \in TableState(t) /\ s[t].members \in [Row -> Entry]
  BY DEF Store, TableState
<1>2. m \in [Row -> Entry]
  BY <1>1, EntryFacts
<1>3. \A r \in Row : IsVisible(m[r]) => IsVisible(s[t].members[r])
  BY <1>1, EntryFacts
<1>4. RemoveRows(s, t, rows) = [s EXCEPT ![t] = tab]
  BY <1>1 DEF RemoveRows, Store
<1>. HIDE DEF m
<1>5. tab \in TableState(t) /\ tab.members = m /\ tab.cells = s[t].cells
  BY <1>1, <1>2 DEF TableState
<1>. HIDE DEF tab
<1>6. Sets([s EXCEPT ![t] = tab], s, t)
  BY <1>5, SetsTable
<1>7. [s EXCEPT ![t] = tab][t] = tab
  BY DEF Store
<1>8. VisibleRows(tab) \subseteq VisibleRows(s[t])
  BY <1>3, <1>5 DEF VisibleRows
<1> QED BY <1>4, <1>5, <1>6, <1>7, <1>8 DEF Shrinks

-----------------------------------------------------------------------------
(* The folds, as runs in a set T that their steps do not leave.            *)

\* A replay of row operations.
LEMMA ApplyRun ==
    ASSUME NEW n \in Nat, NEW ops, DOMAIN ops = 1..n, NEW T, NEW base \in T,
           \A x \in T : \A i \in 1..n : ApplyOp(x, ops[i]) \in T
    PROVE  EndsRun(FoldLeft(ApplyOp, base, ops), n, T, base,
                   [i \in 1..n |-> [x \in T |-> ApplyOp(x, ops[i])]])
<1>. DEFINE H == [i \in 1..n |-> [x \in T |-> ApplyOp(x, ops[i])]]
            Step(x, i) == ApplyOp(x, ops[i])
            Eq(it) == it = [s \in SUBSET DOMAIN ops |->
                              IF s = {} THEN base ELSE Step(it[s \ {Max(s)}], Max(s))]
            f == CHOOSE it : Eq(it)
<1>1. FoldLeft(ApplyOp, base, ops) = f[DOMAIN ops]
  BY DEF FoldLeft, MapThenFoldSet
<1>2. \A x \in T : \A i \in 1..n : H[i][x] = Step(x, i) /\ Step(x, i) \in T
  OBVIOUS
<1>3. H \in [1..n -> [T -> T]]
  OBVIOUS
<1>. HIDE DEF Step, H
<1>4. PICK it : IsFold(it, n, T, base, H)
  BY <1>3, FoldExists
<1>5. Eq(it)
  <2>1. ASSUME NEW s \in SUBSET (1..n), s # {}
        PROVE  it[s] = Step(it[s \ {Max(s)}], Max(s))
    <3>1. Max(s) \in 1..n /\ it[s \ {Max(s)}] \in T
      BY <1>4, <2>1, MaxOfIndices DEF IsFold
    <3> QED BY <1>2, <1>4, <2>1, <3>1 DEF IsFold
  <2>2. it = [s \in SUBSET (1..n) |-> it[s]] /\ it[{}] = base
    BY <1>4 DEF IsFold
  <2>3. \A s \in SUBSET (1..n) :
            it[s] = IF s = {} THEN base ELSE Step(it[s \ {Max(s)}], Max(s))
    BY <2>1, <2>2
  <2> QED BY <2>2, <2>3
<1>6. Eq(f)
  BY <1>5
<1>. HIDE DEF f
<1>7. Iterates(f, n, T, base, H)
  <2>1. \A s \in SUBSET (1..n) : s # {} => Max(s) \in 1..n
    BY MaxOfIndices
  <2>2. f[{}] = base
    BY <1>6
  <2>3. \A s \in SUBSET (1..n) : s # {} => f[s] = Step(f[s \ {Max(s)}], Max(s))
    BY <1>6
  <2> QED BY <1>2, <2>1, <2>2, <2>3 DEF Iterates
<1>8. EndsRun(f[1..n], n, T, base, H)
  BY <1>3, <1>7, FoldIsRun
<1> QED BY <1>1, <1>8 DEF H

\* The row operations of a statement at p.
LEMMA ApplyLocallyRun ==
    ASSUME NEW p, NEW n \in Nat, NEW ops, DOMAIN ops = 1..n, NEW T, NEW base \in T,
           \A x \in T : \A i \in 1..n : ApplyLocally(p, x, ops[i]) \in T
    PROVE  EndsRun(FoldLeft(LAMBDA s, o : ApplyLocally(p, s, o), base, ops), n, T, base,
                   [i \in 1..n |-> [x \in T |-> ApplyLocally(p, x, ops[i])]])
<1>. DEFINE H == [i \in 1..n |-> [x \in T |-> ApplyLocally(p, x, ops[i])]]
            Step(x, i) == ApplyLocally(p, x, ops[i])
            Eq(it) == it = [s \in SUBSET DOMAIN ops |->
                              IF s = {} THEN base ELSE Step(it[s \ {Max(s)}], Max(s))]
            f == CHOOSE it : Eq(it)
<1>1. FoldLeft(LAMBDA s, o : ApplyLocally(p, s, o), base, ops) = f[DOMAIN ops]
  BY DEF FoldLeft, MapThenFoldSet
<1>2. \A x \in T : \A i \in 1..n : H[i][x] = Step(x, i) /\ Step(x, i) \in T
  OBVIOUS
<1>3. H \in [1..n -> [T -> T]]
  OBVIOUS
<1>. HIDE DEF Step, H
<1>4. PICK it : IsFold(it, n, T, base, H)
  BY <1>3, FoldExists
<1>5. Eq(it)
  <2>1. ASSUME NEW s \in SUBSET (1..n), s # {}
        PROVE  it[s] = Step(it[s \ {Max(s)}], Max(s))
    <3>1. Max(s) \in 1..n /\ it[s \ {Max(s)}] \in T
      BY <1>4, <2>1, MaxOfIndices DEF IsFold
    <3> QED BY <1>2, <1>4, <2>1, <3>1 DEF IsFold
  <2>2. it = [s \in SUBSET (1..n) |-> it[s]] /\ it[{}] = base
    BY <1>4 DEF IsFold
  <2>3. \A s \in SUBSET (1..n) :
            it[s] = IF s = {} THEN base ELSE Step(it[s \ {Max(s)}], Max(s))
    BY <2>1, <2>2
  <2> QED BY <2>2, <2>3
<1>6. Eq(f)
  BY <1>5
<1>. HIDE DEF f
<1>7. Iterates(f, n, T, base, H)
  <2>1. \A s \in SUBSET (1..n) : s # {} => Max(s) \in 1..n
    BY MaxOfIndices
  <2>2. f[{}] = base
    BY <1>6
  <2>3. \A s \in SUBSET (1..n) : s # {} => f[s] = Step(f[s \ {Max(s)}], Max(s))
    BY <1>6
  <2> QED BY <1>2, <2>1, <2>2, <2>3 DEF Iterates
<1>8. EndsRun(f[1..n], n, T, base, H)
  BY <1>3, <1>7, FoldIsRun
<1> QED BY <1>1, <1>8 DEF H

CascadeFromStep(op, x, fk) ==
    IF fk.parent = op.table THEN RemoveRows(x, fk.child, Children(x, fk, {op.row})) ELSE x

\* The foreign keys a local delete op goes through.
LEMMA CascadeFromRun ==
    ASSUME NEW op, NEW n \in Nat, DOMAIN ForeignKeys = 1..n, NEW T, NEW base \in T,
           \A x \in T : \A i \in 1..n : CascadeFromStep(op, x, ForeignKeys[i]) \in T
    PROVE  EndsRun(FoldLeft(LAMBDA x, fk : IF fk.parent = op.table
                                        THEN RemoveRows(x, fk.child, Children(x, fk, {op.row}))
                                        ELSE x, base, ForeignKeys), n, T, base,
                   [i \in 1..n |-> [x \in T |-> CascadeFromStep(op, x, ForeignKeys[i])]])
<1>. DEFINE H == [i \in 1..n |-> [x \in T |-> CascadeFromStep(op, x, ForeignKeys[i])]]
            Step(x, i) == CascadeFromStep(op, x, ForeignKeys[i])
            Eq(it) == it = [s \in SUBSET DOMAIN ForeignKeys |->
                              IF s = {} THEN base ELSE Step(it[s \ {Max(s)}], Max(s))]
            f == CHOOSE it : Eq(it)
<1>1. FoldLeft(LAMBDA x, fk : IF fk.parent = op.table
                                        THEN RemoveRows(x, fk.child, Children(x, fk, {op.row}))
                                        ELSE x, base, ForeignKeys) = f[DOMAIN ForeignKeys]
  BY DEF FoldLeft, MapThenFoldSet, CascadeFromStep
<1>2. \A x \in T : \A i \in 1..n : H[i][x] = Step(x, i) /\ Step(x, i) \in T
  OBVIOUS
<1>3. H \in [1..n -> [T -> T]]
  OBVIOUS
<1>. HIDE DEF Step, H
<1>4. PICK it : IsFold(it, n, T, base, H)
  BY <1>3, FoldExists
<1>5. Eq(it)
  <2>1. ASSUME NEW s \in SUBSET (1..n), s # {}
        PROVE  it[s] = Step(it[s \ {Max(s)}], Max(s))
    <3>1. Max(s) \in 1..n /\ it[s \ {Max(s)}] \in T
      BY <1>4, <2>1, MaxOfIndices DEF IsFold
    <3> QED BY <1>2, <1>4, <2>1, <3>1 DEF IsFold
  <2>2. it = [s \in SUBSET (1..n) |-> it[s]] /\ it[{}] = base
    BY <1>4 DEF IsFold
  <2>3. \A s \in SUBSET (1..n) :
            it[s] = IF s = {} THEN base ELSE Step(it[s \ {Max(s)}], Max(s))
    BY <2>1, <2>2
  <2> QED BY <2>2, <2>3
<1>6. Eq(f)
  BY <1>5
<1>. HIDE DEF f
<1>7. Iterates(f, n, T, base, H)
  <2>1. \A s \in SUBSET (1..n) : s # {} => Max(s) \in 1..n
    BY MaxOfIndices
  <2>2. f[{}] = base
    BY <1>6
  <2>3. \A s \in SUBSET (1..n) : s # {} => f[s] = Step(f[s \ {Max(s)}], Max(s))
    BY <1>6
  <2> QED BY <1>2, <2>1, <2>2, <2>3 DEF Iterates
<1>8. EndsRun(f[1..n], n, T, base, H)
  BY <1>3, <1>7, FoldIsRun
<1> QED BY <1>1, <1>8 DEF H

\* The foreign keys a pass of the cascade goes through.
LEMMA CascadeRun ==
    ASSUME NEW n \in Nat, DOMAIN ForeignKeys = 1..n, NEW T, NEW base \in T,
           \A x \in T : \A i \in 1..n : CascadeOver(x, ForeignKeys[i]) \in T
    PROVE  EndsRun(FoldLeft(CascadeOver, base, ForeignKeys), n, T, base,
                   [i \in 1..n |-> [x \in T |-> CascadeOver(x, ForeignKeys[i])]])
<1>. DEFINE H == [i \in 1..n |-> [x \in T |-> CascadeOver(x, ForeignKeys[i])]]
            Step(x, i) == CascadeOver(x, ForeignKeys[i])
            Eq(it) == it = [s \in SUBSET DOMAIN ForeignKeys |->
                              IF s = {} THEN base ELSE Step(it[s \ {Max(s)}], Max(s))]
            f == CHOOSE it : Eq(it)
<1>1. FoldLeft(CascadeOver, base, ForeignKeys) = f[DOMAIN ForeignKeys]
  BY DEF FoldLeft, MapThenFoldSet
<1>2. \A x \in T : \A i \in 1..n : H[i][x] = Step(x, i) /\ Step(x, i) \in T
  OBVIOUS
<1>3. H \in [1..n -> [T -> T]]
  OBVIOUS
<1>. HIDE DEF Step, H
<1>4. PICK it : IsFold(it, n, T, base, H)
  BY <1>3, FoldExists
<1>5. Eq(it)
  <2>1. ASSUME NEW s \in SUBSET (1..n), s # {}
        PROVE  it[s] = Step(it[s \ {Max(s)}], Max(s))
    <3>1. Max(s) \in 1..n /\ it[s \ {Max(s)}] \in T
      BY <1>4, <2>1, MaxOfIndices DEF IsFold
    <3> QED BY <1>2, <1>4, <2>1, <3>1 DEF IsFold
  <2>2. it = [s \in SUBSET (1..n) |-> it[s]] /\ it[{}] = base
    BY <1>4 DEF IsFold
  <2>3. \A s \in SUBSET (1..n) :
            it[s] = IF s = {} THEN base ELSE Step(it[s \ {Max(s)}], Max(s))
    BY <2>1, <2>2
  <2> QED BY <2>2, <2>3
<1>6. Eq(f)
  BY <1>5
<1>. HIDE DEF f
<1>7. Iterates(f, n, T, base, H)
  <2>1. \A s \in SUBSET (1..n) : s # {} => Max(s) \in 1..n
    BY MaxOfIndices
  <2>2. f[{}] = base
    BY <1>6
  <2>3. \A s \in SUBSET (1..n) : s # {} => f[s] = Step(f[s \ {Max(s)}], Max(s))
    BY <1>6
  <2> QED BY <1>2, <2>1, <2>2, <2>3 DEF Iterates
<1>8. EndsRun(f[1..n], n, T, base, H)
  BY <1>3, <1>7, FoldIsRun
<1> QED BY <1>1, <1>8 DEF H

\* The null writes for lost claims.
LEMMA NullRun ==
    ASSUME NEW n \in Nat, NEW losers, DOMAIN losers = 1..n, NEW T, NEW base \in T,
           \A x \in T : \A i \in 1..n : NullLoser(x, losers[i]) \in T
    PROVE  EndsRun(FoldLeft(NullLoser, base, losers), n, T, base,
                   [i \in 1..n |-> [x \in T |-> NullLoser(x, losers[i])]])
<1>. DEFINE H == [i \in 1..n |-> [x \in T |-> NullLoser(x, losers[i])]]
            Step(x, i) == NullLoser(x, losers[i])
            Eq(it) == it = [s \in SUBSET DOMAIN losers |->
                              IF s = {} THEN base ELSE Step(it[s \ {Max(s)}], Max(s))]
            f == CHOOSE it : Eq(it)
<1>1. FoldLeft(NullLoser, base, losers) = f[DOMAIN losers]
  BY DEF FoldLeft, MapThenFoldSet
<1>2. \A x \in T : \A i \in 1..n : H[i][x] = Step(x, i) /\ Step(x, i) \in T
  OBVIOUS
<1>3. H \in [1..n -> [T -> T]]
  OBVIOUS
<1>. HIDE DEF Step, H
<1>4. PICK it : IsFold(it, n, T, base, H)
  BY <1>3, FoldExists
<1>5. Eq(it)
  <2>1. ASSUME NEW s \in SUBSET (1..n), s # {}
        PROVE  it[s] = Step(it[s \ {Max(s)}], Max(s))
    <3>1. Max(s) \in 1..n /\ it[s \ {Max(s)}] \in T
      BY <1>4, <2>1, MaxOfIndices DEF IsFold
    <3> QED BY <1>2, <1>4, <2>1, <3>1 DEF IsFold
  <2>2. it = [s \in SUBSET (1..n) |-> it[s]] /\ it[{}] = base
    BY <1>4 DEF IsFold
  <2>3. \A s \in SUBSET (1..n) :
            it[s] = IF s = {} THEN base ELSE Step(it[s \ {Max(s)}], Max(s))
    BY <2>1, <2>2
  <2> QED BY <2>2, <2>3
<1>6. Eq(f)
  BY <1>5
<1>. HIDE DEF f
<1>7. Iterates(f, n, T, base, H)
  <2>1. \A s \in SUBSET (1..n) : s # {} => Max(s) \in 1..n
    BY MaxOfIndices
  <2>2. f[{}] = base
    BY <1>6
  <2>3. \A s \in SUBSET (1..n) : s # {} => f[s] = Step(f[s \ {Max(s)}], Max(s))
    BY <1>6
  <2> QED BY <1>2, <2>1, <2>2, <2>3 DEF Iterates
<1>8. EndsRun(f[1..n], n, T, base, H)
  BY <1>3, <1>7, FoldIsRun
<1> QED BY <1>1, <1>8 DEF H

\* The claims a replay or a statement makes.
LEMMA ReserveRun ==
    ASSUME NEW n \in Nat, NEW ops, DOMAIN ops = 1..n, NEW T, NEW base \in T,
           \A x \in T : \A i \in 1..n : Reserve(x, ops[i]) \in T
    PROVE  EndsRun(FoldLeft(Reserve, base, ops), n, T, base,
                   [i \in 1..n |-> [x \in T |-> Reserve(x, ops[i])]])
<1>. DEFINE H == [i \in 1..n |-> [x \in T |-> Reserve(x, ops[i])]]
            Step(x, i) == Reserve(x, ops[i])
            Eq(it) == it = [s \in SUBSET DOMAIN ops |->
                              IF s = {} THEN base ELSE Step(it[s \ {Max(s)}], Max(s))]
            f == CHOOSE it : Eq(it)
<1>1. FoldLeft(Reserve, base, ops) = f[DOMAIN ops]
  BY DEF FoldLeft, MapThenFoldSet
<1>2. \A x \in T : \A i \in 1..n : H[i][x] = Step(x, i) /\ Step(x, i) \in T
  OBVIOUS
<1>3. H \in [1..n -> [T -> T]]
  OBVIOUS
<1>. HIDE DEF Step, H
<1>4. PICK it : IsFold(it, n, T, base, H)
  BY <1>3, FoldExists
<1>5. Eq(it)
  <2>1. ASSUME NEW s \in SUBSET (1..n), s # {}
        PROVE  it[s] = Step(it[s \ {Max(s)}], Max(s))
    <3>1. Max(s) \in 1..n /\ it[s \ {Max(s)}] \in T
      BY <1>4, <2>1, MaxOfIndices DEF IsFold
    <3> QED BY <1>2, <1>4, <2>1, <3>1 DEF IsFold
  <2>2. it = [s \in SUBSET (1..n) |-> it[s]] /\ it[{}] = base
    BY <1>4 DEF IsFold
  <2>3. \A s \in SUBSET (1..n) :
            it[s] = IF s = {} THEN base ELSE Step(it[s \ {Max(s)}], Max(s))
    BY <2>1, <2>2
  <2> QED BY <2>2, <2>3
<1>6. Eq(f)
  BY <1>5
<1>. HIDE DEF f
<1>7. Iterates(f, n, T, base, H)
  <2>1. \A s \in SUBSET (1..n) : s # {} => Max(s) \in 1..n
    BY MaxOfIndices
  <2>2. f[{}] = base
    BY <1>6
  <2>3. \A s \in SUBSET (1..n) : s # {} => f[s] = Step(f[s \ {Max(s)}], Max(s))
    BY <1>6
  <2> QED BY <1>2, <2>1, <2>2, <2>3 DEF Iterates
<1>8. EndsRun(f[1..n], n, T, base, H)
  BY <1>3, <1>7, FoldIsRun
<1> QED BY <1>1, <1>8 DEF H

-----------------------------------------------------------------------------
(* Statements and tables.                                                  *)

\* RowOps and ClaimOps split a sequence of operations.
LEMMA SplitFacts ==
    ASSUME NEW O, NEW ops \in Seq(O)
    PROVE  /\ RowOps(ops) \in Seq({o \in O : ~IsClaim(o)})
           /\ ToSet(RowOps(ops)) = {o \in ToSet(ops) : ~IsClaim(o)}
           /\ ClaimOps(ops) \in Seq(ClaimsOf(O))
           /\ ToSet(ClaimOps(ops)) = ClaimsOf(ToSet(ops))
<1>1. Len(ops) \in Nat /\ DOMAIN ops = 1..Len(ops) /\ \A i \in DOMAIN ops : ops[i] \in O
  OBVIOUS
<1>2. ASSUME NEW v \in Seq(O), NEW S, ToSet(v) \subseteq S PROVE v \in Seq(S)
  <2>1. Len(v) \in Nat /\ v = [i \in 1..Len(v) |-> v[i]] /\ \A i \in 1..Len(v) : v[i] \in S
    BY <1>2 DEF ToSet
  <2> QED BY <2>1
<1>3. /\ RowOps(ops) \in Seq(O)
      /\ ToSet(RowOps(ops)) = {o \in ToSet(ops) : ~IsClaim(o)}
  <2>. DEFINE at == {i \in DOMAIN ops : ~IsClaim(ops[i])}
  <2>1. {ops[i] : i \in at \cap DOMAIN ops} = {o \in ToSet(ops) : ~IsClaim(o)}
    BY DEF ToSet
  <2>2. Picked(ops, at) \in Seq(O) /\ ToSet(Picked(ops, at)) = {ops[i] : i \in at \cap DOMAIN ops}
    <3> HIDE DEF at
    <3> QED BY PickedFacts
  <2> QED BY <2>1, <2>2 DEF RowOps
<1>4. /\ ClaimOps(ops) \in Seq(O)
      /\ ToSet(ClaimOps(ops)) = ClaimsOf(ToSet(ops))
  <2>. DEFINE at == {i \in DOMAIN ops : IsClaim(ops[i])}
  <2>1. {ops[i] : i \in at \cap DOMAIN ops} = {o \in ToSet(ops) : IsClaim(o)}
    BY DEF ToSet
  <2>2. Picked(ops, at) \in Seq(O) /\ ToSet(Picked(ops, at)) = {ops[i] : i \in at \cap DOMAIN ops}
    <3> HIDE DEF at
    <3> QED BY PickedFacts
  <2> QED BY <2>1, <2>2 DEF ClaimOps, ClaimsOf
<1>5. ToSet(ops) \subseteq O
  BY <1>1 DEF ToSet
<1>6. ToSet(RowOps(ops)) \subseteq {o \in O : ~IsClaim(o)}
  BY <1>3, <1>5
<1>7. ToSet(ClaimOps(ops)) \subseteq ClaimsOf(O)
  BY <1>4, <1>5 DEF ClaimsOf
<1>8. RowOps(ops) \in Seq({o \in O : ~IsClaim(o)})
  BY <1>2, <1>3, <1>6
<1>9. ClaimOps(ops) \in Seq(ClaimsOf(O))
  BY <1>2, <1>4, <1>7
<1> QED BY <1>3, <1>4, <1>8, <1>9

LEMMA ForeignKeyFacts ==
    /\ Len(ForeignKeys) \in Nat /\ DOMAIN ForeignKeys = 1..Len(ForeignKeys)
    /\ \A i \in DOMAIN ForeignKeys :
          /\ ForeignKeys[i].child \in Table /\ ForeignKeys[i].parent \in Table
          /\ ForeignKeys[i].col \in Columns[ForeignKeys[i].child]
<1>. DEFINE F == [child : Table, col : STRING, parent : Table]
<1>1. ForeignKeys \in Seq(F)
  BY ForeignKeysAssumption
<1>2. /\ Len(ForeignKeys) \in Nat /\ DOMAIN ForeignKeys = 1..Len(ForeignKeys)
      /\ \A i \in DOMAIN ForeignKeys : ForeignKeys[i] \in F
  <2> HIDE DEF F
  <2> QED BY <1>1
<1>3. \A f \in F : f.child \in Table /\ f.parent \in Table
  OBVIOUS
<1>4. \A i \in DOMAIN ForeignKeys : ForeignKeys[i].col \in Columns[ForeignKeys[i].child]
  BY ForeignKeysAssumption
<1> QED BY <1>2, <1>3, <1>4

\* The stores that row operations of p on table t can make of store s: other
\* tables only lose rows, and only to a cascade.
Local(p, s, t) ==
    {x \in Store : \A u \in Table \ {t} :
        /\ Shrinks(x[u], s[u])
        /\ x[u] = s[u] \/ /\ policy[p] = "cascade"
                          /\ \E i \in DOMAIN ForeignKeys : ForeignKeys[i].child = u}

LEMMA LocalStart ==
    ASSUME NEW p, NEW s \in Store, NEW t \in Table
    PROVE  s \in Local(p, s, t)
BY DEF Local, Shrinks

\* A table that loses rows to a cascade leaves the store local.
LEMMA LocalRemoves ==
    ASSUME NEW p, policy[p] = "cascade", NEW s \in Store, NEW t \in Table,
           NEW x \in Local(p, s, t), NEW i \in DOMAIN ForeignKeys, NEW rows
    PROVE  RemoveRows(x, ForeignKeys[i].child, rows) \in Local(p, s, t)
<1>. DEFINE c == ForeignKeys[i].child
            y == RemoveRows(x, c, rows)
<1>1. c \in Table
  BY ForeignKeyFacts
<1>2. x \in Store
  BY DEF Local
<1>3. Sets(y, x, c) /\ Shrinks(y[c], x[c])
  <2> HIDE DEF c
  <2> QED BY <1>1, <1>2, RemoveRowsFacts
<1>. HIDE DEF y
<1>4. ASSUME NEW u \in Table \ {t}
      PROVE  /\ Shrinks(y[u], s[u])
             /\ y[u] = s[u] \/ \E j \in DOMAIN ForeignKeys : ForeignKeys[j].child = u
  <2>1. Shrinks(x[u], s[u])
    BY DEF Local
  <2>2. CASE u = c
    <3>1. Shrinks(y[u], x[u])
      BY <1>3, <2>2
    <3>2. Shrinks(y[u], s[u])
      BY <2>1, <3>1 DEF Shrinks
    <3> QED BY <2>2, <3>2
  <2>3. CASE u # c
    <3>1. y[u] = x[u]
      BY <1>3, <2>3 DEF Sets
    <3> QED BY <3>1 DEF Local
  <2> QED BY <2>2, <2>3
<1>5. y \in Store
  BY <1>3 DEF Sets
<1>6. y \in Local(p, s, t)
  BY <1>4, <1>5 DEF Local
<1> QED BY <1>6 DEF y, c

LEMMA LocalCascade ==
    ASSUME NEW p, policy[p] = "cascade", NEW s \in Store, NEW t \in Table,
           NEW x \in Local(p, s, t), NEW op
    PROVE  CascadeFrom(x, op) \in Local(p, s, t)
<1>. DEFINE T == Local(p, s, t)
            n == Len(ForeignKeys)
            H == [i \in 1..n |-> [y \in T |-> CascadeFromStep(op, y, ForeignKeys[i])]]
<1>1. n \in Nat /\ DOMAIN ForeignKeys = 1..n /\ x \in T
  BY ForeignKeyFacts
<1>2. \A y \in T : \A i \in 1..n : CascadeFromStep(op, y, ForeignKeys[i]) \in T
  BY <1>1, LocalRemoves DEF CascadeFromStep
<1>3. EndsRun(CascadeFrom(x, op), n, T, x, H)
  <2> HIDE DEF T, n
  <2> QED BY <1>1, <1>2, CascadeFromRun DEF CascadeFrom
<1>. HIDE DEF T, n, H
<1>4. CascadeFrom(x, op) \in T
  BY <1>1, <1>3, RunEndsIn
<1> QED BY <1>4 DEF T

LEMMA LocalApply ==
    ASSUME NEW p, NEW s \in Store, NEW t \in Table, NEW x \in Local(p, s, t),
           NEW o \in Op, ~IsClaim(o), o.table = t
    PROVE  ApplyLocally(p, x, o) \in Local(p, s, t)
<1>1. x \in Store
  BY DEF Local
<1>2. Sets(ApplyOp(x, o), x, t)
  BY <1>1, ApplyOpFacts
<1>3. ApplyOp(x, o) \in Local(p, s, t)
  <2>. DEFINE y == ApplyOp(x, o)
  <2>1. y \in Store /\ \A u \in Table \ {t} : y[u] = x[u]
    BY <1>2 DEF Sets
  <2> HIDE DEF y
  <2>2. y \in Local(p, s, t)
    BY <2>1 DEF Local
  <2> QED BY <2>2 DEF y
<1> QED BY <1>3, LocalCascade DEF ApplyLocally

\* The row operations of a statement on table t.
LEMMA LocalStatement ==
    ASSUME NEW p, NEW s \in Store, NEW t \in Table, NEW ops \in Seq(Op),
           \A o \in ToSet(ops) : o.table = t
    PROVE  FoldLeft(LAMBDA x, o : ApplyLocally(p, x, o), s, RowOps(ops)) \in Local(p, s, t)
<1>. DEFINE T == Local(p, s, t)
            r == RowOps(ops)
            n == Len(r)
            v == FoldLeft(LAMBDA x, o : ApplyLocally(p, x, o), s, r)
            H == [i \in 1..n |-> [x \in T |-> ApplyLocally(p, x, r[i])]]
<1>1. /\ r \in Seq({o \in Op : ~IsClaim(o)})
      /\ ToSet(r) = {o \in ToSet(ops) : ~IsClaim(o)}
  BY SplitFacts
<1>. HIDE DEF r
<1>2. n \in Nat /\ DOMAIN r = 1..n
  BY <1>1
<1>3. \A i \in 1..n : r[i] \in Op /\ ~IsClaim(r[i]) /\ r[i].table = t
  <2>1. \A i \in 1..n : r[i] \in {o \in Op : ~IsClaim(o)} /\ r[i] \in ToSet(r)
    BY <1>1, <1>2 DEF ToSet
  <2> QED BY <1>1, <2>1
<1>4. \A x \in T : \A i \in 1..n : ApplyLocally(p, x, r[i]) \in T
  BY <1>3, LocalApply
<1>5. s \in T
  BY LocalStart
<1>6. EndsRun(v, n, T, s, H)
  <2> HIDE DEF T, n
  <2> QED BY <1>2, <1>4, <1>5, ApplyLocallyRun
<1>. HIDE DEF T, n, H, v
<1>7. v \in T
  BY <1>2, <1>6, RunEndsIn
<1> QED BY <1>7 DEF v, T, r

\* The claims of a statement or of a replay.
LEMMA ClaimsFacts ==
    ASSUME NEW S, NEW base \in Seq(S), NEW ops \in Seq(S)
    PROVE  FoldLeft(Reserve, base, ops) \in Seq(S)
<1>. DEFINE T == Seq(S)
            n == Len(ops)
            v == FoldLeft(Reserve, base, ops)
            H == [i \in 1..n |-> [x \in T |-> Reserve(x, ops[i])]]
<1>1. n \in Nat /\ DOMAIN ops = 1..n /\ \A i \in 1..n : ops[i] \in S
  OBVIOUS
<1>2. ASSUME NEW x \in T, NEW i \in 1..n PROVE Reserve(x, ops[i]) \in T
  <2>. DEFINE o == ops[i]
  <2>1. o \in S
    BY <1>1
  <2> HIDE DEF o
  <2>2. Append(x, o) \in T
    BY <2>1
  <2>3. Reserve(x, o) \in T
    BY <2>2 DEF Reserve
  <2> QED BY <2>3 DEF o
<1>3. EndsRun(v, n, T, base, H)
  <2>1. base \in T
    OBVIOUS
  <2> HIDE DEF T, n
  <2> QED BY <1>1, <1>2, <2>1, ReserveRun
<1>. HIDE DEF T, n, H, v
<1>4. v \in T
  BY <1>1, <1>3, RunEndsIn
<1> QED BY <1>4 DEF v, T

-----------------------------------------------------------------------------
(* Rebuilds.                                                               *)

NullPairs(O) == {r \in O \X O : NullOrder(r[1], r[2])}

\* Sorting lost claims by the order of the null writes inserts them one by one.
LEMMA NullSort ==
    ASSUME NEW O, NEW s \in Seq(O)
    PROVE  SortsTo(Sorted(s, NullOrder), O, NullPairs(O), s)
<1>. DEFINE n == Len(s)
            T == Seq(O)
            R == NullPairs(O)
            H == [i \in 1..n |-> [m \in T |-> InsertionBy(R, m, s[i])]]
            Put(m, v) == InsertAt(m, 1 + Cardinality({i \in DOMAIN m : ~NullOrder(v, m[i])}), v)
            Eq(f) == f = [i \in 0..Len(s) |->
                            IF i = 0 THEN <<>> ELSE Put(f[i - 1], s[i])]
            c == CHOOSE f : Eq(f)
<1>1. Sorted(s, NullOrder) = c[n]
  BY DEF Sorted, Insertion
<1>2. n \in Nat /\ <<>> \in T /\ \A i \in 1..n : s[i] \in O
  OBVIOUS
<1>3. ASSUME NEW m \in T, NEW v \in O
      PROVE  Put(m, v) = InsertionBy(R, m, v) /\ Put(m, v) \in T
  <2>1. {i \in DOMAIN m : ~NullOrder(v, m[i])} = {i \in DOMAIN m : <<v, m[i]>> \notin R}
    <3>1. \A i \in DOMAIN m : m[i] \in O
      OBVIOUS
    <3> QED BY <3>1 DEF NullPairs
  <2>2. Put(m, v) = InsertionBy(R, m, v)
    BY <2>1 DEF InsertionBy
  <2>3. Gains(InsertionBy(R, m, v), O, m, v)
    <3> HIDE DEF R
    <3> QED BY InsertionKeeps
  <2> HIDE DEF Put
  <2> QED BY <2>2, <2>3 DEF Gains
<1>. HIDE DEF Put, R
<1>4. H \in [1..n -> [T -> T]]
  BY <1>2, <1>3
<1>5. Eq(c)
  <2>1. PICK x : IsRun(x, n, T, <<>>, H)
    <3> HIDE DEF H, T, n
    <3> QED BY <1>2, <1>4, RunExists
  <2>2. ASSUME NEW k \in 1..n PROVE x[k] = Put(x[k - 1], s[k])
    <3>1. k - 1 \in 0..n
      BY <1>2
    <3>2. x[k - 1] \in T /\ x[k] = H[k][x[k - 1]]
      <4> HIDE DEF H, T, n
      <4> QED BY <3>1, <2>1 DEF IsRun
    <3>3. H[k][x[k - 1]] = InsertionBy(R, x[k - 1], s[k])
      BY <3>2
    <3>4. s[k] \in O
      BY <1>2
    <3> QED BY <3>2, <3>3, <3>4, <1>3
  <2>3. x = [i \in 0..n |-> x[i]] /\ x[0] = <<>>
    BY <2>1 DEF IsRun
  <2>4. \A i \in 0..n : i # 0 => i \in 1..n
    BY <1>2
  <2>5. \A i \in 0..n : x[i] = IF i = 0 THEN <<>> ELSE Put(x[i - 1], s[i])
    BY <2>2, <2>3, <2>4
  <2> QED BY <2>3, <2>5
<1>6. c = [k \in 0..n |-> c[k]] /\ c[0] = <<>>
  <2>1. 0 \in 0..n
    BY <1>2
  <2> QED BY <1>5, <2>1
<1>7. \A k \in 1..n : c[k] = Put(c[k - 1], s[k])
  <2>1. \A k \in 1..n : k \in 0..n /\ k # 0
    BY <1>2
  <2> QED BY <1>5, <2>1
<1>. HIDE DEF c
<1>8. IsRun(c, n, T, <<>>, H)
  <2>1. ASSUME NEW k \in 1..n, c[k - 1] \in T PROVE c[k] = H[k][c[k - 1]]
    BY <1>2, <1>3, <1>7, <2>1
  <2> HIDE DEF H, T, n
  <2> QED BY <1>2, <1>4, <1>6, <2>1, EquationIsRun
<1>9. Inserts(c, O, R, s)
  <2>1. c \in [0..n -> T]
    BY <1>8 DEF IsRun
  <2>2. \A k \in 1..n : c[k] = InsertionBy(R, c[k - 1], s[k])
    <3>1. \A k \in 1..n : k - 1 \in 0..n /\ s[k] \in O
      BY <1>2
    <3> HIDE DEF n
    <3> QED BY <1>3, <1>7, <2>1, <3>1
  <2> QED BY <1>6, <2>1, <2>2 DEF Inserts
<1> QED BY <1>1, <1>9 DEF SortsTo, R

\* The first store of a replay.
LEMMA EmptyStoreFacts == EmptyStore \in Store
<1>1. \A t \in Table : EmptyTable(t) \in TableState(t)
  BY EntryFacts DEF EmptyTable, TableState
<1>2. EmptyStore = [t \in Table |-> EmptyTable(t)]
  BY DEF EmptyStore
<1> QED BY <1>1, <1>2 DEF Store

\* The row operations of a log, replayed.
LEMMA ReplayFacts ==
    ASSUME NEW ops \in Seq({o \in Op : ~IsClaim(o)})
    PROVE  FoldLeft(ApplyOp, EmptyStore, ops) \in Store
<1>. DEFINE n == Len(ops)
            v == FoldLeft(ApplyOp, EmptyStore, ops)
            H == [i \in 1..n |-> [x \in Store |-> ApplyOp(x, ops[i])]]
<1>1. n \in Nat /\ DOMAIN ops = 1..n /\ \A i \in 1..n : ops[i] \in {o \in Op : ~IsClaim(o)}
  <2>. DEFINE S == {o \in Op : ~IsClaim(o)}
  <2>1. ops \in Seq(S)
    OBVIOUS
  <2> HIDE DEF S
  <2> QED BY <2>1
<1>2. \A x \in Store : \A i \in 1..n : ApplyOp(x, ops[i]) \in Store
  BY <1>1, ApplyOpFacts DEF Sets
<1>3. EndsRun(v, n, Store, EmptyStore, H)
  <2> HIDE DEF n
  <2> QED BY <1>1, <1>2, EmptyStoreFacts, ApplyRun
<1>. HIDE DEF n, H, v
<1>4. v \in Store
  BY <1>1, <1>3, RunEndsIn
<1> QED BY <1>4 DEF v

\* The null write for one lost claim.
LEMMA NullLoserFacts ==
    ASSUME NEW s \in Store, NEW c \in ClaimOp
    PROVE  Sets(NullLoser(s, c), s, c.table)
<1>1. c \in Op /\ IsClaim(c)
  BY DEF Op, ClaimOp, IsClaim
<1>2. c.hlc \in Times /\ c.table \in Table /\ c.row \in Row
  BY <1>1, OpFacts
<1>3. NullStamp(c) \in Times
  <2>. DEFINE h == c.hlc
              l == h.logical + 1
  <2>1. h \in Times /\ l \in Nat /\ Arbiter \in Nat
    BY <1>2, PeersAssumption DEF Times
  <2>2. NullStamp(c) = [h EXCEPT !.logical = l, !.peer = Arbiter]
    BY DEF NullStamp
  <2> HIDE DEF h, l
  <2>3. [h EXCEPT !.logical = l, !.peer = Arbiter] \in Times
    BY <2>1 DEF Times
  <2> QED BY <2>2, <2>3
<1>. DEFINE nulls == [x \in ColumnsOf(c) |-> Null]
            t == c.table
            tab == WriteCells(s[t], c.row, NullStamp(c), nulls)
<1>4. \A x \in DOMAIN nulls : nulls[x] \in Nat
  BY DEF Null
<1>5. s[t] \in TableState(t) /\ t \in Table
  BY <1>2 DEF Store
<1>. HIDE DEF nulls
<1>6. tab \in TableState(t)
  BY <1>2, <1>3, <1>4, <1>5, WriteCellsFacts
<1>7. NullLoser(s, c) = IF IsVisible(s[t].members[c.row]) THEN [s EXCEPT ![t] = tab] ELSE s
  BY <1>5 DEF NullLoser, Store, nulls
<1>. HIDE DEF tab, t
<1>8. Sets([s EXCEPT ![t] = tab], s, t)
  BY <1>5, <1>6, SetsTable
<1>9. Sets(s, s, t)
  BY DEF Sets
<1>10. Sets(NullLoser(s, c), s, t)
  BY <1>7, <1>8, <1>9
<1> QED BY <1>10 DEF t

\* The order of the null writes.
LEMMA NullSorted ==
    ASSUME NEW losers \in Seq(ClaimOp)
    PROVE  Sorted(losers, NullOrder) \in Seq(ClaimOp)
<1>. DEFINE l == Sorted(losers, NullOrder)
            R == NullPairs(ClaimOp)
<1>1. SortsTo(l, ClaimOp, R, losers)
  BY NullSort
<1>. HIDE DEF l, R
<1>2. PICK x : Inserts(x, ClaimOp, R, losers) /\ l = x[Len(losers)]
  BY <1>1 DEF SortsTo
<1>3. x[Len(losers)] \in Seq(ClaimOp)
  BY <1>2, InsertsKeep
<1> QED BY <1>2, <1>3 DEF l

LEMMA NullLosersFacts ==
    ASSUME NEW s \in Store, NEW claimed \in Seq(ClaimOp)
    PROVE  NullLosers(s, claimed) \in Store
<1>. DEFINE at == {i \in DOMAIN claimed : Lost(claimed, claimed[i])}
            losers == Picked(claimed, at)
            l == Sorted(losers, NullOrder)
            n == Len(l)
            v == FoldLeft(NullLoser, s, l)
            H == [i \in 1..n |-> [x \in Store |-> NullLoser(x, l[i])]]
<1>1. losers \in Seq(ClaimOp)
  <2> HIDE DEF at
  <2> QED BY PickedFacts
<1>2. NullLosers(s, claimed) = v
  BY DEF NullLosers
<1>. HIDE DEF losers
<1>5. l \in Seq(ClaimOp)
  BY <1>1, NullSorted
<1>. HIDE DEF l
<1>6. n \in Nat /\ DOMAIN l = 1..n /\ \A i \in 1..n : l[i] \in ClaimOp
  BY <1>5
<1>7. \A y \in Store : \A i \in 1..n : NullLoser(y, l[i]) \in Store
  BY <1>6, NullLoserFacts DEF Sets
<1>8. EndsRun(v, n, Store, s, H)
  <2> HIDE DEF n
  <2> QED BY <1>6, <1>7, NullRun
<1>. HIDE DEF n, H, v
<1>9. v \in Store
  BY <1>6, <1>8, RunEndsIn
<1> QED BY <1>2, <1>9

LEMMA CascadeOnceFacts ==
    ASSUME NEW s \in Store
    PROVE  CascadeOnce(s) \in Store
<1>. DEFINE n == Len(ForeignKeys)
            v == FoldLeft(CascadeOver, s, ForeignKeys)
            H == [i \in 1..n |-> [x \in Store |-> CascadeOver(x, ForeignKeys[i])]]
<1>1. n \in Nat /\ DOMAIN ForeignKeys = 1..n /\ \A i \in 1..n : ForeignKeys[i].child \in Table
  BY ForeignKeyFacts
<1>2. \A x \in Store : \A i \in 1..n : CascadeOver(x, ForeignKeys[i]) \in Store
  BY <1>1, RemoveRowsFacts DEF CascadeOver, Sets
<1>3. EndsRun(v, n, Store, s, H)
  <2> HIDE DEF n
  <2> QED BY <1>1, <1>2, CascadeRun
<1>. HIDE DEF n, H, v
<1>4. v \in Store
  BY <1>1, <1>3, RunEndsIn
<1> QED BY <1>4 DEF CascadeOnce, v

\* The cascade of a rebuild from store s reaches v: v is what that many passes
\* make of s.
CascadesTo(v, s) ==
    \E x : /\ Repeats(x, Store, s, [y \in Store |-> CascadeOnce(y)])
           /\ v = x[Cardinality(Table) * Cardinality(Row)]

LEMMA CascadePasses ==
    ASSUME NEW s \in Store
    PROVE  CascadesTo(CascadeAll(s), s)
<1>. DEFINE G == [y \in Store |-> CascadeOnce(y)]
            N == Cardinality(Table) * Cardinality(Row)
            Pass1(y) == CascadeOnce(y)
            Eq(f) == f = [n \in Nat |-> IF n = 0 THEN s ELSE Pass1(f[n - 1])]
            pass == CHOOSE f : Eq(f)
<1>1. CascadeAll(s) = pass[N]
  BY DEF CascadeAll
<1>2. \A y \in Store : Pass1(y) \in Store /\ G[y] = Pass1(y)
  BY CascadeOnceFacts
<1>3. G \in [Store -> Store]
  BY <1>2
<1>. HIDE DEF G, N, Pass1
<1>4. PICK x : Repeats(x, Store, s, G)
  BY <1>3, RepeatExists
<1>5. Eq(x)
  <2>1. x = [n \in Nat |-> x[n]] /\ x[0] = s /\ \A n \in Nat : x[n] \in Store
    BY <1>4 DEF Repeats
  <2>2. \A k \in Nat : x[k + 1] = Pass1(x[k])
    BY <1>2, <1>4, <2>1 DEF Repeats
  <2>3. ASSUME NEW n \in Nat, n # 0 PROVE x[n] = Pass1(x[n - 1])
    <3>1. n - 1 \in Nat /\ (n - 1) + 1 = n
      BY <2>3
    <3> QED BY <2>2, <3>1
  <2> QED BY <2>1, <2>3
<1>6. Eq(pass)
  BY <1>5
<1>7. /\ pass = [n \in Nat |-> pass[n]] /\ pass[0] = s
      /\ \A k \in Nat : pass[k + 1] = Pass1(pass[k])
  <2>1. pass = [n \in Nat |-> IF n = 0 THEN s ELSE Pass1(pass[n - 1])]
    BY <1>6
  <2> HIDE DEF pass
  <2>2. \A k \in Nat : k + 1 \in Nat /\ k + 1 # 0 /\ (k + 1) - 1 = k
    OBVIOUS
  <2> QED BY <2>1, <2>2
<1>. HIDE DEF pass
<1>8. ASSUME NEW n \in Nat PROVE pass[n] \in Store
  <2>1. \A k \in 1..n : pass[k - 1] \in Store => pass[k] \in Store
    <3>1. \A k \in 1..n : k - 1 \in Nat /\ (k - 1) + 1 = k
      OBVIOUS
    <3> QED BY <1>2, <1>7, <3>1
  <2>2. pass[0] \in Store /\ n \in 0..n
    BY <1>7
  <2>3. \A k \in 0..n : pass[k] \in Store
    BY <2>1, <2>2, RunStays
  <2> QED BY <2>2, <2>3
<1>9. Repeats(pass, Store, s, G)
  BY <1>2, <1>7, <1>8 DEF Repeats
<1> QED BY <1>1, <1>9 DEF CascadesTo, G, N

LEMMA CascadeAllFacts ==
    ASSUME NEW s \in Store
    PROVE  CascadeAll(s) \in Store
<1>. DEFINE G == [y \in Store |-> CascadeOnce(y)]
            N == Cardinality(Table) * Cardinality(Row)
<1>1. N \in Nat
  BY TableAssumption, RowAssumption, FS_CardinalityType
<1>2. PICK x : Repeats(x, Store, s, G) /\ CascadeAll(s) = x[N]
  BY CascadePasses DEF CascadesTo
<1>. HIDE DEF G, N
<1> QED BY <1>1, <1>2 DEF Repeats

\* What Engine::rebuild_store makes of a log.
LEMMA RebuildFacts ==
    ASSUME NEW l \in Seq(Op), NEW pol
    PROVE  /\ Rebuild(l, pol).store \in Store
           /\ Rebuild(l, pol).claims \in Seq(ClaimsOf(ToSet(l)))
<1>. DEFINE O == ToSet(l)
            ops == Sorted(l, ReplayOrder)
            claimed == FoldLeft(Reserve, <<>>, ClaimOps(ops))
            rows == FoldLeft(ApplyOp, EmptyStore, RowOps(ops))
            unique == NullLosers(rows, claimed)
<1>1. l \in Seq(O) /\ O \subseteq Op
  <2>1. Len(l) \in Nat /\ l = [i \in 1..Len(l) |-> l[i]] /\ \A i \in 1..Len(l) : l[i] \in Op
    OBVIOUS
  <2>2. (\A i \in 1..Len(l) : l[i] \in O) /\ O \subseteq Op
    BY <2>1 DEF ToSet
  <2> HIDE DEF O
  <2> QED BY <2>1, <2>2
<1>. HIDE DEF O
<1>2. SortsTo(ops, O, ReplayPairs(O), l)
  BY <1>1, ReplaySort
<1>3. Rebuild(l, pol) = [store  |-> IF pol = "cascade" THEN CascadeAll(unique) ELSE unique,
                         claims |-> claimed]
  BY DEF Rebuild
<1>. HIDE DEF ops
<1>4. ops \in Seq(O)
  <2>. DEFINE R == ReplayPairs(O)
  <2>1. PICK x : Inserts(x, O, R, l) /\ ops = x[Len(l)]
    BY <1>2 DEF SortsTo
  <2> HIDE DEF R
  <2>2. x[Len(l)] \in Seq(O)
    BY <1>1, <2>1, InsertsKeep
  <2> QED BY <2>1, <2>2
<1>5. RowOps(ops) \in Seq({o \in Op : ~IsClaim(o)})
  <2>. DEFINE S == {o \in O : ~IsClaim(o)}
              T == {o \in Op : ~IsClaim(o)}
  <2>1. RowOps(ops) \in Seq(S) /\ S \subseteq T
    BY <1>1, <1>4, SplitFacts
  <2> HIDE DEF S, T
  <2>2. RowOps(ops) \in Seq(T)
    BY <2>1, SeqOfSubset
  <2> QED BY <2>2 DEF T
<1>6. rows \in Store
  BY <1>5, ReplayFacts
<1>7. claimed \in Seq(ClaimsOf(O))
  <2>. DEFINE S == ClaimsOf(O)
              c == ClaimOps(ops)
  <2>1. c \in Seq(S)
    BY <1>4, SplitFacts
  <2> HIDE DEF S, c
  <2>2. <<>> \in Seq(S)
    OBVIOUS
  <2>3. FoldLeft(Reserve, <<>>, c) \in Seq(S)
    BY <2>1, <2>2, ClaimsFacts
  <2> QED BY <2>3 DEF S, c
<1>8. ClaimsOf(O) \subseteq ClaimOp
  BY <1>1, OpFacts DEF ClaimsOf
<1>. HIDE DEF rows, claimed
<1>9. unique \in Store
  <2>1. claimed \in Seq(ClaimOp)
    BY <1>7, <1>8, SeqOfSubset
  <2> QED BY <1>6, <2>1, NullLosersFacts
<1>. HIDE DEF unique
<1>10. CascadeAll(unique) \in Store
  BY <1>9, CascadeAllFacts
<1> QED BY <1>3, <1>7, <1>9, <1>10 DEF O

-----------------------------------------------------------------------------
(* The tables of a running cluster.                                        *)

\* What IndexShowsRows says of an index ix on table t of store s, under
\* policy pol.
Shows(ix, s, t, pol) ==
    /\ IndexOf(s, t) \subseteq ix
    /\ \A e \in ix \ IndexOf(s, t) :
        /\ e[2] \notin VisibleRows(s[t])
        /\ pol = "cascade"
        /\ \E i \in DOMAIN ForeignKeys : ForeignKeys[i].child = t

LEMMA ShowsAll == IndexShowsRows <=> \A p \in Peer, t \in Table :
                                        Shows(index[p][t], store[p], t, policy[p])
BY DEF IndexShowsRows, Shows

\* An index shows what it was built from.
LEMMA ShowsBuilt ==
    ASSUME NEW s, NEW t, NEW pol
    PROVE  Shows(IndexOf(s, t), s, t, pol)
BY DEF Shows

\* A cascade leaves the entries of the rows it removes.
LEMMA ShowsShrunk ==
    ASSUME NEW p, NEW s \in Store, NEW t \in Table, NEW u \in Table \ {t},
           NEW x \in Local(p, s, t), NEW ix, Shows(ix, s, u, policy[p])
    PROVE  Shows(ix, x, u, policy[p])
<1>1. CASE x[u] = s[u]
  BY <1>1 DEF Shows, IndexOf
<1>2. CASE x[u] # s[u]
  <2>1. Shrinks(x[u], s[u]) /\ policy[p] = "cascade"
        /\ \E i \in DOMAIN ForeignKeys : ForeignKeys[i].child = u
    BY <1>2 DEF Local
  <2>. DEFINE E(y, r) == <<[c \in Columns[u] |-> Cell(y[u], r, c)], r>>
  <2>2. \A r : E(x, r) = E(s, r) /\ E(s, r)[2] = r
    BY <2>1 DEF Cell, Shrinks
  <2>3. IndexOf(x, u) = {E(x, r) : r \in VisibleRows(x[u])}
    BY DEF IndexOf
  <2>4. IndexOf(s, u) = {E(s, r) : r \in VisibleRows(s[u])}
    BY DEF IndexOf
  <2> HIDE DEF E
  <2>5. VisibleRows(x[u]) \subseteq VisibleRows(s[u])
    BY <2>1 DEF Shrinks
  <2>6. IndexOf(x, u) \subseteq ix
    BY <2>2, <2>3, <2>4, <2>5 DEF Shows
  <2>7. ASSUME NEW e \in ix \ IndexOf(x, u) PROVE e[2] \notin VisibleRows(x[u])
    <3>1. CASE e \in IndexOf(s, u)
      BY <2>2, <2>3, <2>4, <2>7, <3>1
    <3>2. CASE e \notin IndexOf(s, u)
      BY <2>5, <2>7, <3>2 DEF Shows
    <3> QED BY <3>1, <3>2
  <2> QED BY <2>1, <2>6, <2>7 DEF Shows
<1> QED BY <1>1, <1>2

LEMMA StoreInvInit == Init => StoreInv
<1>. SUFFICES ASSUME Init PROVE StoreInv
  OBVIOUS
<1>1. /\ sent = 0 /\ policy \in [Peer -> Policies]
      /\ claims = [p \in Peer |-> <<>>] /\ store = [p \in Peer |-> EmptyStore]
      /\ index = [p \in Peer |-> [t \in Table |-> {}]]
  BY DEF Init
<1>2. StoreTyped
  <2>1. sent \in 0..MaxStatements
    BY <1>1, StatementsAssumption
  <2>2. \A p \in Peer : claims[p] \in Seq(ClaimsOf(Ops(p)))
    <3>1. \A p \in Peer : claims[p] = <<>>
      BY <1>1
    <3>2. \A S : <<>> \in Seq(S)
      OBVIOUS
    <3> QED BY <3>1, <3>2
  <2>3. store \in [Peer -> Store]
    BY <1>1, EmptyStoreFacts
  <2> QED BY <1>1, <2>1, <2>2, <2>3 DEF StoreTyped
<1>3. ASSUME NEW p \in Peer, NEW t \in Table
      PROVE  Shows(index[p][t], store[p], t, policy[p])
  <2>1. index[p][t] = {} /\ store[p][t] = EmptyTable(t)
    BY <1>1 DEF EmptyStore
  <2>2. VisibleRows(EmptyTable(t)) = {}
    BY DEF VisibleRows, EmptyTable, IsVisible, IsLive, Absent
  <2>3. IndexOf(store[p], t) = {}
    BY <2>1, <2>2 DEF IndexOf
  <2> QED BY <2>1, <2>3 DEF Shows
<1> QED BY <1>2, <1>3, ShowsAll DEF StoreInv

\* Peers other than p keep what StoreInv says of them.
Others(p) ==
    \A q \in Peer \ {p} :
        /\ Ops(q)' = Ops(q) /\ claims'[q] = claims[q]
        /\ store'[q] = store[q] /\ index'[q] = index[q] /\ policy'[q] = policy[q]

LEMMA PerformsStore ==
    ASSUME LogInv, StoreInv, NEW p \in Peer, Performs(p)
    PROVE  StoreInv'
<1>1. PICK t \in Table, stamps \in Seq(Stamps), ops \in Seq(Op) :
          Perform(p, t, stamps, ops) /\ Ready(p, t, stamps, ops)
  BY DEF Performs
<1>. DEFINE x == FoldLeft(LAMBDA s, o : ApplyLocally(p, s, o), store[p], RowOps(ops))
            c == FoldLeft(Reserve, claims[p], ClaimOps(ops))
<1>2. /\ sent' = sent + 1 /\ sent < MaxStatements
      /\ policy' = policy
      /\ log' = [log EXCEPT ![p] = AppendAll(log[p], ops)]
      /\ claims' = [claims EXCEPT ![p] = c]
      /\ store' = [store EXCEPT ![p] = x]
      /\ index' = [index EXCEPT ![p][t] = IndexOf(store'[p], t)]
  BY <1>1 DEF Perform, Send
<1>3. /\ log[p] \in Seq(Op) /\ Distinct(log[p]) /\ log \in [Peer -> Seq(Op)]
      /\ StoreTyped /\ store[p] \in Store
      /\ claims[p] \in Seq(ClaimsOf(Ops(p)))
  BY DEF LogInv, LogTyped, NoDuplicates, StoreInv, StoreTyped
<1>4. Ops(p)' = Ops(p) \cup ToSet(ops)
  <2>1. log'[p] = AppendAll(log[p], ops)
    BY <1>2, <1>3
  <2> QED BY <1>3, <2>1, AppendAllFacts DEF Ops
<1>5. x \in Local(p, store[p], t)
  <2>1. \A o \in ToSet(ops) : o.table = t
    BY <1>1 DEF Ready
  <2> QED BY <1>3, <2>1, LocalStatement
<1>6. c \in Seq(ClaimsOf(Ops(p)'))
  <2>. DEFINE A == ClaimsOf(Ops(p))
              B == ClaimsOf(ToSet(ops))
              S == ClaimsOf(Ops(p)')
              a == claims[p]
              b == ClaimOps(ops)
  <2>1. A \subseteq S /\ B \subseteq S
    BY <1>4 DEF ClaimsOf
  <2>2. b \in Seq(B)
    <3>1. ops \in Seq(ToSet(ops))
      <4>1. Len(ops) \in Nat /\ ops = [i \in 1..Len(ops) |-> ops[i]]
        OBVIOUS
      <4>2. \A i \in 1..Len(ops) : ops[i] \in ToSet(ops)
        BY DEF ToSet
      <4> QED BY <4>1, <4>2
    <3> QED BY <3>1, SplitFacts
  <2>3. a \in Seq(A)
    BY <1>3
  <2> HIDE DEF A, B, S, a, b
  <2>4. a \in Seq(S) /\ b \in Seq(S)
    BY <2>1, <2>2, <2>3, SeqOfSubset
  <2>5. FoldLeft(Reserve, a, b) \in Seq(S)
    BY <2>4, ClaimsFacts
  <2> QED BY <2>5 DEF a, b, S
<1>. HIDE DEF x, c
<1>7. Others(p) /\ claims'[p] = c /\ store'[p] = x
  BY <1>2, <1>3 DEF StoreTyped, Others, Ops
<1>8. /\ index'[p][t] = IndexOf(store'[p], t)
      /\ \A u \in Table \ {t} : index'[p][u] = index[p][u]
  <2>1. index[p] = [u \in Table |-> index[p][u]] /\ index = [q \in Peer |-> index[q]]
    BY <1>3 DEF StoreTyped
  <2> QED BY <1>2, <2>1
<1>9. StoreTyped'
  <2>1. sent' \in 0..MaxStatements
    BY <1>2, <1>3, StatementsAssumption DEF StoreTyped
  <2>2. store' \in [Peer -> Store]
    BY <1>2, <1>3, <1>5 DEF StoreTyped, Local
  <2>3. claims' = [q \in Peer |-> claims'[q]]
    BY <1>2, <1>3 DEF StoreTyped
  <2>4. ASSUME NEW q \in Peer PROVE claims'[q] \in Seq(ClaimsOf(Ops(q)'))
    BY <1>3, <1>6, <1>7 DEF StoreTyped, Others
  <2>5. index' = [q \in Peer |-> [u \in Table |-> index'[q][u]]]
    BY <1>2, <1>3 DEF StoreTyped
  <2> QED BY <1>2, <1>3, <2>1, <2>2, <2>3, <2>4, <2>5 DEF StoreTyped
<1>10. \A q \in Peer, u \in Table : Shows(index'[q][u], store'[q], u, policy'[q])
  <2>1. \A q \in Peer, u \in Table : Shows(index[q][u], store[q], u, policy[q])
    BY ShowsAll DEF StoreInv
  <2>2. \A u \in Table \ {t} : Shows(index'[p][u], store'[p], u, policy'[p])
    <3>1. store[p] \in Store /\ x \in Local(p, store[p], t) /\ policy' = policy
      BY <1>2, <1>3, <1>5 DEF StoreTyped
    <3>2. \A u \in Table \ {t} : Shows(index[p][u], store[p], u, policy[p])
      BY <2>1
    <3>3. \A u \in Table \ {t} : Shows(index[p][u], x, u, policy[p])
      BY <3>1, <3>2, ShowsShrunk
    <3> QED BY <1>7, <1>8, <3>1, <3>3
  <2>3. Shows(index'[p][t], store'[p], t, policy'[p])
    BY <1>8, ShowsBuilt
  <2> QED BY <1>7, <2>1, <2>2, <2>3 DEF Others
<1>11. IndexShowsRows'
  BY <1>10 DEF Shows, IndexShowsRows
<1> QED BY <1>9, <1>11 DEF StoreInv

\* Whatever exchange of operations precedes it, a rebuild leaves tables,
\* claims and indexes that fit its log.
LEMMA RebuildAllStore ==
    ASSUME LogInv, StoreInv, NEW ps, NEW newLog, RebuildAll(ps, newLog), ps \subseteq Peer,
           newLog \in [Peer -> Seq(Op)], \A q \in Peer \ ps : newLog[q] = log[q],
           UNCHANGED <<sent, policy>>
    PROVE  StoreInv'
<1>. DEFINE b == [p \in ps |-> Rebuild(newLog[p], policy[p])]
<1>1. /\ log' = newLog
      /\ store' = [p \in Peer |-> IF p \in ps THEN b[p].store ELSE store[p]]
      /\ claims' = [p \in Peer |-> IF p \in ps THEN b[p].claims ELSE claims[p]]
      /\ index' = [p \in Peer |-> IF p \in ps THEN [t \in Table |-> IndexOf(store'[p], t)]
                                  ELSE index[p]]
  BY DEF RebuildAll
<1>2. StoreTyped /\ \A q \in Peer, u \in Table : Shows(index[q][u], store[q], u, policy[q])
  BY ShowsAll DEF StoreInv
<1>3. \A p \in ps : /\ b[p].store \in Store
                    /\ b[p].claims \in Seq(ClaimsOf(Ops(p)'))
  BY <1>1, RebuildFacts DEF Ops
<1>. HIDE DEF b
<1>4. StoreTyped'
  <2>1. \A q \in Peer \ ps : Ops(q)' = Ops(q)
    BY <1>1 DEF Ops
  <2>2. \A q \in Peer : claims'[q] \in Seq(ClaimsOf(Ops(q)'))
    BY <1>1, <1>2, <1>3, <2>1 DEF StoreTyped
  <2>3. store' \in [Peer -> Store]
    BY <1>1, <1>2, <1>3 DEF StoreTyped
  <2>4. index' = [q \in Peer |-> [u \in Table |-> index'[q][u]]]
    BY <1>1, <1>2 DEF StoreTyped
  <2>5. claims' = [q \in Peer |-> claims'[q]]
    BY <1>1
  <2> QED BY <1>2, <2>2, <2>3, <2>4, <2>5 DEF StoreTyped
<1>5. ASSUME NEW q \in Peer, NEW u \in Table
      PROVE  Shows(index'[q][u], store'[q], u, policy'[q])
  <2>1. CASE q \in ps
    BY <1>1, <2>1, ShowsBuilt
  <2>2. CASE q \notin ps
    BY <1>1, <1>2, <2>2
  <2> QED BY <2>1, <2>2
<1>6. IndexShowsRows'
  BY <1>5 DEF Shows, IndexShowsRows
<1> QED BY <1>4, <1>6 DEF StoreInv

\* A step that leaves logs, tables, claims and indexes alone.
LEMMA IdleStore ==
    ASSUME StoreInv, UNCHANGED <<log, store, claims, policy, index>>,
           sent' \in 0..MaxStatements
    PROVE  StoreInv'
BY DEF StoreInv, StoreTyped, IndexShowsRows, Ops

LEMMA StoreInvStep ==
    ASSUME LogInv, StoreInv, [Next]_vars
    PROVE  StoreInv'
<1>0. sent \in 0..MaxStatements /\ log \in [Peer -> Seq(Op)] /\ LogTyped
  BY DEF StoreInv, StoreTyped, LogInv, LogTyped
<1>1. CASE \E p \in Peer : Insert(p) \/ Update(p) \/ Delete(p)
  BY <1>0, <1>1, InsertPerforms, UpdatePerforms, DeletePerforms, PerformsStore
<1>2. CASE \E p \in Peer : InsertRejected(p)
  <2>1. sent' \in 0..MaxStatements
    BY <1>0, <1>2, StatementsAssumption DEF InsertRejected, Send
  <2> QED BY <1>2, <2>1, IdleStore DEF InsertRejected
<1>3. ASSUME NEW p \in Peer, Recover(p) PROVE StoreInv'
  <2>1. RebuildAll({p}, log) /\ UNCHANGED <<sent, policy>> /\ {p} \subseteq Peer
    BY <1>3 DEF Recover
  <2> QED BY <1>0, <2>1, RebuildAllStore
<1>4. ASSUME NEW p \in Peer, NEW q \in Peer, p < q, Sync(p, q) PROVE StoreInv'
  <2>. DEFINE a == AppendAll(log[p], MissingOps(log[q], log[p]))
              b == AppendAll(log[q], MissingOps(log[p], log[q]))
              new == [log EXCEPT ![p] = a, ![q] = b]
              ps == {p, q}
  <2>1. RebuildAll(ps, new) /\ UNCHANGED <<sent, policy>> /\ ps \subseteq Peer
    BY <1>4 DEF Sync
  <2>2. a \in Seq(Op) /\ b \in Seq(Op)
    BY ReceivesAll
  <2> HIDE DEF a, b
  <2>3. new \in [Peer -> Seq(Op)] /\ \A r \in Peer \ ps : new[r] = log[r]
    BY <1>0, <2>2
  <2> HIDE DEF new, ps
  <2> QED BY <2>1, <2>3, RebuildAllStore
<1>5. ASSUME NEW p \in Peer, NEW q \in Peer, SyncFrom(p, q) PROVE StoreInv'
  <2>. DEFINE a == AppendAll(log[p], MissingOps(log[q], log[p]))
              new == [log EXCEPT ![p] = a]
              ps == {p}
  <2>1. RebuildAll(ps, new) /\ UNCHANGED <<sent, policy>> /\ ps \subseteq Peer
    BY <1>5 DEF SyncFrom
  <2>2. a \in Seq(Op)
    BY ReceivesAll
  <2> HIDE DEF a
  <2>3. new \in [Peer -> Seq(Op)] /\ \A r \in Peer \ ps : new[r] = log[r]
    BY <1>0, <2>2
  <2> HIDE DEF new, ps
  <2> QED BY <2>1, <2>3, RebuildAllStore
<1>6. CASE Pass
  BY <1>0, <1>6, IdleStore DEF Pass
<1>7. CASE UNCHANGED vars
  BY <1>0, <1>7, IdleStore DEF vars
<1> QED BY <1>1, <1>2, <1>3, <1>4, <1>5, <1>6, <1>7 DEF Next

\* Tables, claims and indexes are well formed and fit the log.
THEOREM StoreInvariance == Spec => []StoreInv
<1>1. LogInv /\ StoreInv /\ [Next]_vars => StoreInv'
  BY StoreInvStep
<1> QED BY <1>1, StoreInvInit, LogInvariance, PTL DEF Spec

\* What an index misses is nothing, and what it has too much are rows that a
\* local cascade removed (SecondaryIndex, Engine::apply_op): StoreInv says so.
THEOREM IndexesComplete == Spec => []IndexShowsRows
<1>1. StoreInv => IndexShowsRows
  BY DEF StoreInv
<1> QED BY <1>1, StoreInvariance, PTL

\* Types; a row has at most one tombstone timestamp, a removed token was seen,
\* every claim is a logged reservation and no log repeats an operation.
THEOREM TypeCorrect == Spec => []TypeOK
<1>1. LogInv /\ StoreInv => TypeOK
  <2>. SUFFICES ASSUME LogInv, StoreInv PROVE TypeOK
    OBVIOUS
  <2>1. now \in 0..MaxTime /\ sent \in 0..MaxStatements /\ clock \in [Peer -> Clock]
    BY DEF LogInv, LogTyped, StoreInv, StoreTyped
  <2>2. ASSUME NEW p \in Peer, NEW t \in Table, NEW r \in Row
        PROVE  LET e == store[p][t].members[r]
               IN  e.removed \subseteq e.live /\ Cardinality(e.tombstone) <= 1
    <3>. DEFINE e == store[p][t].members[r]
                S == e.tombstone
    <3>1. store[p] \in Store
      BY DEF StoreInv, StoreTyped
    <3>2. store[p][t] \in TableState(t)
      BY <3>1 DEF Store
    <3>3. e \in Entry
      BY <3>2 DEF TableState
    <3> HIDE DEF e
    <3>4. e.removed \subseteq e.live /\ \A x, y \in S : x = y
      BY <3>3 DEF Entry
    <3> HIDE DEF S
    <3>5. Cardinality(S) <= 1
      <4>1. CASE S = {}
        <5>1. Cardinality(S) = 0
          BY <4>1, FS_EmptySet
        <5> QED BY <5>1
      <4>2. CASE S # {}
        <5>1. PICK x \in S : TRUE
          BY <4>2
        <5>2. S = {x}
          BY <3>4, <5>1
        <5>3. Cardinality(S) = 1
          BY <5>2, FS_Singleton
        <5> QED BY <5>3
      <4> QED BY <4>1, <4>2
    <3> QED BY <3>4, <3>5 DEF S, e
  <2>3. ASSUME NEW p \in Peer PROVE ToSet(claims[p]) \subseteq {o \in Ops(p) : IsClaim(o)}
    <3>. DEFINE S == ClaimsOf(Ops(p))
                c == claims[p]
    <3>1. c \in Seq(S)
      BY DEF StoreInv, StoreTyped
    <3> HIDE DEF S, c
    <3>2. ToSet(c) \subseteq S
      BY <3>1 DEF ToSet
    <3> QED BY <3>2 DEF S, c, ClaimsOf
  <2>4. ASSUME NEW p \in Peer PROVE Len(log[p]) = Cardinality(Ops(p))
    <3>1. log[p] \in Seq(Op) /\ Distinct(log[p])
      BY DEF LogInv, LogTyped, NoDuplicates
    <3> QED BY <3>1, DistinctLength DEF Ops
  <2> QED BY <2>1, <2>2, <2>3, <2>4 DEF TypeOK, Clock
<1> QED BY <1>1, LogInvariance, StoreInvariance, PTL

-----------------------------------------------------------------------------
(* Cascades of a rebuild.                                                  *)

\* Store y is store x after a cascade: some visible rows are deleted.
Cascaded(y, x) ==
    /\ y \in Store
    /\ \A t \in Table :
        /\ y[t].cells = x[t].cells
        /\ \A r \in Row : \/ y[t].members[r] = x[t].members[r]
                          \/ /\ IsVisible(x[t].members[r])
                             /\ IsDeleted(y[t].members[r])

\* Row r of table t refers, in store x, to a row that store y has deleted.
Orphan(x, y, t, r) ==
    \E i \in DOMAIN ForeignKeys :
        LET fk == ForeignKeys[i]
            parent == Cell(x[t], r, fk.col)
        IN  fk.child = t /\ parent \in Row /\ IsDeleted(y[fk.parent].members[parent])

\* The deleted rows are orphans.
Follows(y, x) ==
    /\ Cascaded(y, x)
    /\ \A t \in Table, r \in Row :
        y[t].members[r] # x[t].members[r] => Orphan(x, y, t, r)

DeletedRows(y, t) == {r \in Row : IsDeleted(y[t].members[r])}
Doomed(y, fk) == Children(y, fk, DeletedRows(y, fk.parent))

\* A pass of the cascade finds nothing to delete.
Settled(y) == \A i \in DOMAIN ForeignKeys : Doomed(y, ForeignKeys[i]) = {}

Shown(y) == {s \in Table \X Row : IsVisible(y[s[1]].members[s[2]])}

LEMMA RemovedEntry ==
    ASSUME NEW e \in Entry
    PROVE  /\ IsVisible(e) => IsDeleted(RemoveTokens(e, <<>>, FALSE))
           /\ IsDeleted(e) => ~IsVisible(e)
<1>1. IsDeleted(e) => ~IsVisible(e)
  BY DEF IsDeleted, IsVisible
<1>2. ASSUME IsVisible(e) PROVE IsDeleted(RemoveTokens(e, <<>>, FALSE))
  <2>. DEFINE d == RemoveTokens(e, <<>>, FALSE)
  <2>1. e # Absent /\ e.live # {}
    BY <1>2 DEF IsVisible, IsLive, Absent
  <2>2. d.live = e.live /\ d.removed = e.removed \cup e.live
    BY <2>1 DEF RemoveTokens, Entry
  <2> HIDE DEF d
  <2>3. d # Absent
    BY <2>1, <2>2 DEF Absent
  <2>4. IsDeleted(d)
    BY <2>2, <2>3 DEF IsDeleted, IsLive
  <2> QED BY <2>4 DEF d
<1> QED BY <1>1, <1>2

LEMMA CascadedReflexive ==
    ASSUME NEW x \in Store
    PROVE  Cascaded(x, x) /\ Follows(x, x)
BY DEF Cascaded, Follows

LEMMA CascadedTransitive ==
    ASSUME NEW x \in Store, NEW y \in Store, NEW z, Cascaded(y, x), Cascaded(z, y)
    PROVE  Cascaded(z, x)
<1>1. ASSUME NEW t \in Table, NEW r \in Row
      PROVE  \/ z[t].members[r] = x[t].members[r]
             \/ IsVisible(x[t].members[r]) /\ IsDeleted(z[t].members[r])
  <2>. DEFINE a == x[t].members[r]
              b == y[t].members[r]
              c == z[t].members[r]
  <2>1. b \in Entry
    BY DEF Store, TableState
  <2>2. b = a \/ (IsVisible(a) /\ IsDeleted(b))
    BY DEF Cascaded
  <2>3. c = b \/ (IsVisible(b) /\ IsDeleted(c))
    BY DEF Cascaded
  <2> HIDE DEF a, b, c
  <2>4. c = a \/ (IsVisible(a) /\ IsDeleted(c))
    BY <2>1, <2>2, <2>3, RemovedEntry
  <2> QED BY <2>4 DEF a, c
<1>2. z \in Store /\ \A t \in Table : z[t].cells = x[t].cells
  BY DEF Cascaded
<1> QED BY <1>1, <1>2 DEF Cascaded

\* One foreign key of a pass.
LEMMA CascadeOverFacts ==
    ASSUME NEW y \in Store, NEW i \in DOMAIN ForeignKeys
    PROVE  LET fk == ForeignKeys[i]
               z == CascadeOver(y, fk)
           IN  /\ Cascaded(z, y)
               /\ \A t \in Table, r \in Row :
                    z[t].members[r] # y[t].members[r] => t = fk.child /\ r \in Doomed(y, fk)
               /\ \A r \in Doomed(y, fk) : ~IsVisible(z[fk.child].members[r])
               /\ Doomed(y, fk) = {} => z = y
<1>. DEFINE fk == ForeignKeys[i]
            c == fk.child
            D == Doomed(y, fk)
            z == CascadeOver(y, fk)
            m == [r \in Row |-> IF r \in D THEN RemoveTokens(y[c].members[r], <<>>, FALSE)
                                ELSE y[c].members[r]]
            tab == [y[c] EXCEPT !.members = m]
<1>1. c \in Table
  BY ForeignKeyFacts
<1>2. y[c] \in TableState(c) /\ y[c].members \in [Row -> Entry]
  BY <1>1 DEF Store, TableState
<1>3. D \subseteq Row /\ \A r \in D : IsVisible(y[c].members[r])
  BY DEF Doomed, Children, VisibleRows
<1>4. z = RemoveRows(y, c, D)
  BY DEF CascadeOver, Doomed, DeletedRows
<1>5. z = [y EXCEPT ![c] = tab]
  BY <1>1, <1>2, <1>4 DEF RemoveRows, Store
<1>6. z \in Store
  BY <1>1, <1>4, RemoveRowsFacts DEF Sets
<1>. HIDE DEF D
<1>7. \A r \in Row : m[r] = y[c].members[r] \/ (r \in D /\ IsDeleted(m[r]) /\ ~IsVisible(m[r]))
  BY <1>2, <1>3, RemovedEntry, EntryFacts
<1>8. \A r \in D : ~IsVisible(m[r])
  BY <1>2, <1>3, EntryFacts
<1>9. D = {} => m = y[c].members
  BY <1>2
<1>. HIDE DEF m
<1>10. tab.members = m /\ tab.cells = y[c].cells /\ (m = y[c].members => tab = y[c])
  BY <1>2 DEF TableState
<1>. HIDE DEF tab
<1>11. z[c] = tab /\ \A t \in Table \ {c} : z[t] = y[t]
  BY <1>1, <1>5 DEF Store
<1>12. tab = y[c] => z = y
  BY <1>5 DEF Store
<1>. HIDE DEF z, c
<1>13. Cascaded(z, y)
  BY <1>3, <1>6, <1>7, <1>10, <1>11 DEF Cascaded
<1>14. \A t \in Table, r \in Row : z[t].members[r] # y[t].members[r] => t = c /\ r \in D
  BY <1>7, <1>10, <1>11
<1>15. \A r \in D : ~IsVisible(z[c].members[r])
  BY <1>8, <1>10, <1>11
<1>16. D = {} => z = y
  BY <1>9, <1>10, <1>12
<1> QED BY <1>13, <1>14, <1>15, <1>16 DEF z, c, D

LEMMA CascadeOverFollows ==
    ASSUME NEW x \in Store, NEW y \in Store, Follows(y, x), NEW i \in DOMAIN ForeignKeys
    PROVE  Follows(CascadeOver(y, ForeignKeys[i]), x)
<1>. DEFINE fk == ForeignKeys[i]
            z == CascadeOver(y, fk)
<1>1. /\ Cascaded(z, y)
      /\ \A t \in Table, r \in Row :
            z[t].members[r] # y[t].members[r] => t = fk.child /\ r \in Doomed(y, fk)
  BY CascadeOverFacts
<1>2. fk.parent \in Table /\ fk.child \in Table
  BY ForeignKeyFacts
<1>. HIDE DEF z
<1>3. Cascaded(y, x)
  BY DEF Follows
<1>4. Cascaded(z, x)
  BY <1>1, <1>3, CascadedTransitive
<1>5. ASSUME NEW t \in Table, NEW r \in Row, IsDeleted(y[t].members[r])
      PROVE  IsDeleted(z[t].members[r])
  BY <1>1, <1>5, RemovedEntry DEF Cascaded
<1>6. ASSUME NEW t \in Table, NEW r \in Row, Orphan(x, y, t, r) PROVE Orphan(x, z, t, r)
  <2>1. PICK j \in DOMAIN ForeignKeys :
            LET parent == Cell(x[t], r, ForeignKeys[j].col)
            IN  /\ ForeignKeys[j].child = t /\ parent \in Row
                /\ IsDeleted(y[ForeignKeys[j].parent].members[parent])
    BY <1>6 DEF Orphan
  <2>2. ForeignKeys[j].parent \in Table
    BY ForeignKeyFacts
  <2>3. LET parent == Cell(x[t], r, ForeignKeys[j].col)
        IN  IsDeleted(z[ForeignKeys[j].parent].members[parent])
    BY <1>5, <2>1, <2>2
  <2> QED BY <2>1, <2>3 DEF Orphan
<1>7. ASSUME NEW t \in Table, NEW r \in Row, z[t].members[r] # x[t].members[r]
      PROVE  Orphan(x, z, t, r)
  <2>1. CASE z[t].members[r] = y[t].members[r]
    BY <1>6, <1>7, <2>1 DEF Follows
  <2>2. CASE z[t].members[r] # y[t].members[r]
    <3>. DEFINE parent == Cell(y[t], r, fk.col)
    <3>1. t = fk.child /\ r \in Doomed(y, fk)
      BY <1>1, <2>2
    <3>2. parent \in Row /\ IsDeleted(y[fk.parent].members[parent])
      BY <3>1 DEF Doomed, DeletedRows, Children
    <3>3. parent = Cell(x[t], r, fk.col)
      BY <1>3 DEF Cascaded, Cell
    <3> HIDE DEF parent
    <3>4. IsDeleted(z[fk.parent].members[parent])
      BY <1>2, <1>5, <3>2
    <3> QED BY <3>1, <3>2, <3>3, <3>4 DEF Orphan
  <2> QED BY <2>1, <2>2
<1> QED BY <1>4, <1>7 DEF Follows, z

LEMMA CascadeOnceFollows ==
    ASSUME NEW x \in Store, NEW y \in Store, Follows(y, x)
    PROVE  Follows(CascadeOnce(y), x)
<1>. DEFINE n == Len(ForeignKeys)
            T == {z \in Store : Follows(z, x)}
            v == FoldLeft(CascadeOver, y, ForeignKeys)
            H == [i \in 1..n |-> [z \in T |-> CascadeOver(z, ForeignKeys[i])]]
<1>1. n \in Nat /\ DOMAIN ForeignKeys = 1..n /\ y \in T
  BY ForeignKeyFacts
<1>2. \A z \in T : \A i \in 1..n : CascadeOver(z, ForeignKeys[i]) \in T
  <2>1. ASSUME NEW z \in T, NEW i \in 1..n PROVE Follows(CascadeOver(z, ForeignKeys[i]), x)
    BY <1>1, CascadeOverFollows
  <2> QED BY <2>1 DEF Follows, Cascaded
<1>3. EndsRun(v, n, T, y, H)
  <2> HIDE DEF n, T
  <2> QED BY <1>1, <1>2, CascadeRun
<1>. HIDE DEF n, H, v, T
<1>4. v \in T
  BY <1>1, <1>3, RunEndsIn
<1> QED BY <1>4 DEF CascadeOnce, v, T

\* A pass that hides no row finds nothing to delete and changes nothing.
LEMMA CascadeOnceShows ==
    ASSUME NEW y \in Store
    PROVE  /\ Shown(CascadeOnce(y)) \subseteq Shown(y)
           /\ Shown(CascadeOnce(y)) = Shown(y) => Settled(y) /\ CascadeOnce(y) = y
<1>. DEFINE n == Len(ForeignKeys)
            v == FoldLeft(CascadeOver, y, ForeignKeys)
            H == [i \in 1..n |-> [z \in Store |-> CascadeOver(z, ForeignKeys[i])]]
            Quiet(i) == Doomed(y, ForeignKeys[i]) = {}
            Less(z) == Shown(z) \subseteq Shown(y) /\ Shown(z) # Shown(y)
<1>1. n \in Nat /\ DOMAIN ForeignKeys = 1..n
      /\ \A i \in 1..n : ForeignKeys[i].child \in Table
  BY ForeignKeyFacts
<1>2. \A z \in Store : \A i \in 1..n :
        Cascaded(CascadeOver(z, ForeignKeys[i]), z)
  BY <1>1, CascadeOverFacts
<1>3. \A z \in Store : \A i \in 1..n : CascadeOver(z, ForeignKeys[i]) \in Store
  BY <1>2 DEF Cascaded
<1>4. ASSUME NEW a \in Store, NEW b \in Store, Cascaded(b, a)
      PROVE  Shown(b) \subseteq Shown(a)
  <2>1. \A t \in Table : \A r \in Row : b[t].members[r] \in Entry
    BY DEF Store, TableState
  <2>2. \A t \in Table : \A r \in Row :
            IsVisible(b[t].members[r]) => IsVisible(a[t].members[r])
    BY <1>4, <2>1, RemovedEntry DEF Cascaded
  <2> QED BY <2>2 DEF Shown
<1>5. ASSUME NEW i \in 1..n
      PROVE  \/ Quiet(i) /\ CascadeOver(y, ForeignKeys[i]) = y
             \/ Less(CascadeOver(y, ForeignKeys[i]))
  <2>. DEFINE fk == ForeignKeys[i]
              z == CascadeOver(y, fk)
  <2>1. /\ Doomed(y, fk) = {} => z = y
        /\ \A r \in Doomed(y, fk) : ~IsVisible(z[fk.child].members[r])
    BY <1>1, CascadeOverFacts
  <2>2. Shown(z) \subseteq Shown(y)
    BY <1>2, <1>3, <1>4
  <2>3. ASSUME NEW r \in Doomed(y, fk) PROVE Shown(z) # Shown(y)
    <3>1. r \in Row /\ IsVisible(y[fk.child].members[r]) /\ fk.child \in Table
      BY <1>1 DEF Doomed, Children, VisibleRows
    <3>2. ~IsVisible(z[fk.child].members[r])
      BY <2>1
    <3> HIDE DEF z
    <3>3. <<fk.child, r>> \in Shown(y) /\ <<fk.child, r>> \notin Shown(z)
      BY <3>1, <3>2 DEF Shown
    <3> QED BY <3>3
  <2> HIDE DEF z
  <2> QED BY <2>1, <2>2, <2>3 DEF z
<1>6. EndsRun(v, n, Store, y, H)
  <2> HIDE DEF n
  <2> QED BY <1>1, <1>3, CascadeRun
<1>7. PICK x : IsRun(x, n, Store, y, H) /\ x[n] = v
  BY <1>6 DEF EndsRun
<1>8. x[0] = y /\ \A k \in 0..n : x[k] \in Store
  BY <1>7 DEF IsRun
<1>9. ASSUME NEW k \in 1..n
      PROVE  k - 1 \in 0..n /\ x[k] = CascadeOver(x[k - 1], ForeignKeys[k])
  <2>1. k - 1 \in 0..n
    BY <1>1
  <2>2. x[k] = H[k][x[k - 1]]
    BY <1>7 DEF IsRun
  <2>3. x[k - 1] \in Store
    BY <1>8, <2>1
  <2> QED BY <2>1, <2>2, <2>3
<1>. DEFINE K == {k \in 0..n : (x[k] = y /\ \A i \in 1..k : Quiet(i)) \/ Less(x[k])}
<1>10. 0 \in K
  BY <1>1, <1>8
<1>11. ASSUME NEW k \in 1..n, k - 1 \in K PROVE k \in K
  <2>1. /\ k \in 0..n /\ x[k - 1] \in Store /\ x[k] \in Store
        /\ x[k] = CascadeOver(x[k - 1], ForeignKeys[k])
    BY <1>1, <1>8, <1>9
  <2>2. CASE x[k - 1] = y /\ \A i \in 1..(k - 1) : Quiet(i)
    <3>1. \A i \in 1..k : i = k \/ i \in 1..(k - 1)
      OBVIOUS
    <3> HIDE DEF Quiet, Less
    <3> QED BY <1>5, <2>1, <2>2, <3>1
  <2>3. CASE Less(x[k - 1])
    <3>1. Shown(x[k]) \subseteq Shown(x[k - 1])
      BY <1>2, <1>4, <2>1
    <3>2. Less(x[k])
      BY <2>3, <3>1
    <3> QED BY <2>1, <3>2
  <2> QED BY <1>11, <2>2, <2>3
<1>12. n \in K
  <2>1. 0..n \subseteq K
    <3> HIDE DEF K, n
    <3> QED BY <1>1, <1>10, <1>11, Induction
  <2> QED BY <1>1, <2>1
<1>13. v = CascadeOnce(y)
  BY DEF CascadeOnce
<1>. HIDE DEF v
<1> QED BY <1>1, <1>7, <1>12, <1>13 DEF Settled

LEMMA ShownFinite ==
    ASSUME NEW y
    PROVE  /\ IsFiniteSet(Shown(y)) /\ Cardinality(Shown(y)) \in Nat
           /\ Cardinality(Table) * Cardinality(Row) \in Nat
           /\ Cardinality(Shown(y)) <= Cardinality(Table) * Cardinality(Row)
<1>1. /\ IsFiniteSet(Table \X Row)
      /\ Cardinality(Table \X Row) = Cardinality(Table) * Cardinality(Row)
  BY TableAssumption, RowAssumption, FS_Product
<1>2. Shown(y) \in SUBSET (Table \X Row)
  BY DEF Shown
<1> QED BY <1>1, <1>2, FS_Subset, FS_CardinalityType

\* There are enough passes: each but the last hides a row.
LEMMA CascadeSettles ==
    ASSUME NEW s \in Store
    PROVE  Follows(CascadeAll(s), s) /\ Settled(CascadeAll(s))
<1>. DEFINE G == [y \in Store |-> CascadeOnce(y)]
            N == Cardinality(Table) * Cardinality(Row)
            Left(y) == Cardinality(Shown(y))
<1>1. PICK x : Repeats(x, Store, s, G) /\ CascadeAll(s) = x[N]
  BY CascadePasses DEF CascadesTo
<1>2. N \in Nat /\ \A y : Left(y) \in Nat /\ Left(y) <= N
  BY ShownFinite
<1>3. /\ x[0] = s /\ \A k \in Nat : x[k] \in Store
      /\ \A k \in Nat : x[k + 1] = CascadeOnce(x[k])
  BY <1>1 DEF Repeats
<1>. HIDE DEF G, N
<1>. DEFINE Still(j) == x[j + 1] = x[j] /\ Settled(x[j])
            K == {k \in 0..(N + 1) : \/ \E j \in 0..N : j < k /\ Still(j)
                                     \/ Left(x[k]) + k <= N}
<1>4. ASSUME NEW k \in Nat
      PROVE  Still(k) \/ Left(x[k + 1]) < Left(x[k])
  <2>. DEFINE y == x[k]
              z == x[k + 1]
  <2>1. y \in Store /\ z = CascadeOnce(y)
    BY <1>3
  <2>2. Shown(z) \subseteq Shown(y) /\ (Shown(z) = Shown(y) => Settled(y) /\ z = y)
    BY <2>1, CascadeOnceShows
  <2> HIDE DEF y, z
  <2>3. CASE Shown(z) = Shown(y)
    BY <2>2, <2>3 DEF y, z
  <2>4. CASE Shown(z) # Shown(y)
    <3>1. Shown(z) \in SUBSET Shown(y) /\ IsFiniteSet(Shown(y))
      BY <2>2, ShownFinite
    <3>2. Left(z) <= Left(y) /\ Left(z) # Left(y)
      BY <2>4, <3>1, FS_Subset
    <3>3. Left(z) \in Nat /\ Left(y) \in Nat
      BY ShownFinite
    <3> HIDE DEF Left
    <3> QED BY <3>2, <3>3 DEF y, z
  <2> QED BY <2>3, <2>4
<1>. HIDE DEF Left, Still
<1>5. 0 \in K
  BY <1>2
<1>6. ASSUME NEW k \in 1..(N + 1), k - 1 \in K PROVE k \in K
  <2>1. k - 1 \in Nat /\ (k - 1) + 1 = k /\ k \in 0..(N + 1) /\ k - 1 \in 0..N /\ k - 1 < k
    BY <1>2
  <2>2. CASE \E j \in 0..N : j < k - 1 /\ Still(j)
    <3>1. \A j \in 0..N : j < k - 1 => j < k
      BY <2>1
    <3> QED BY <2>1, <2>2, <3>1
  <2>3. CASE Still(k - 1)
    BY <2>1, <2>3
  <2>4. CASE Left(x[k]) < Left(x[k - 1]) /\ Left(x[k - 1]) + (k - 1) <= N
    <3>1. Left(x[k]) \in Nat /\ Left(x[k - 1]) \in Nat
      BY <1>2
    <3>2. Left(x[k]) + k <= N
      BY <1>2, <2>1, <2>4, <3>1
    <3> QED BY <2>1, <3>2
  <2>5. Still(k - 1) \/ Left(x[k]) < Left(x[k - 1])
    <3>1. Still(k - 1) \/ Left(x[(k - 1) + 1]) < Left(x[k - 1])
      BY <1>4, <2>1
    <3> QED BY <2>1, <3>1
  <2> QED BY <1>6, <2>2, <2>3, <2>4, <2>5
<1>7. N + 1 \in K
  <2>1. N + 1 \in Nat /\ N + 1 \in 0..(N + 1)
    BY <1>2
  <2>2. 0..(N + 1) \subseteq K
    <3>. DEFINE M == N + 1
    <3>1. M \in Nat /\ \A k \in 1..M : k - 1 \in K => k \in K
      BY <1>6, <2>1
    <3> HIDE DEF K, M
    <3>2. 0..M \subseteq K
      BY <1>5, <3>1, Induction
    <3> QED BY <3>2 DEF M
  <2> QED BY <2>1, <2>2
<1>8. PICK j \in 0..N : Still(j)
  <2>1. Left(x[N + 1]) \in Nat
    BY <1>2
  <2>2. ~(Left(x[N + 1]) + (N + 1) <= N)
    BY <1>2, <2>1
  <2> QED BY <1>7, <2>2
<1>9. x[N] = x[j]
  <2>. DEFINE M == N - j
              L == {k \in 0..M : x[j + k] = x[j]}
  <2>1. M \in Nat /\ j \in Nat /\ j + M = N /\ M \in 0..M
    BY <1>2
  <2>2. 0 \in L
    BY <2>1
  <2>3. ASSUME NEW k \in 1..M, k - 1 \in L PROVE k \in L
    <3>1. k \in 0..M /\ j + (k - 1) \in Nat /\ (j + (k - 1)) + 1 = j + k /\ j + 1 \in Nat
      BY <2>1
    <3>2. x[j + k] = CascadeOnce(x[j + (k - 1)])
      <4>1. x[(j + (k - 1)) + 1] = CascadeOnce(x[j + (k - 1)])
        BY <1>3, <3>1
      <4> QED BY <3>1, <4>1
    <3>3. x[j + (k - 1)] = x[j] /\ x[j + 1] = CascadeOnce(x[j])
      BY <1>3, <2>1, <2>3
    <3>4. x[j + k] = x[j]
      BY <1>8, <3>2, <3>3 DEF Still
    <3> QED BY <3>1, <3>4
  <2>4. 0..M \subseteq L
    <3> HIDE DEF L, M
    <3> QED BY <2>1, <2>2, <2>3, Induction
  <2>5. x[j + M] = x[j]
    <3>1. M \in L
      BY <2>1, <2>4
    <3> HIDE DEF M
    <3> QED BY <3>1
  <2> HIDE DEF M
  <2> QED BY <2>1, <2>5
<1>10. Settled(x[N])
  BY <1>8, <1>9 DEF Still
<1>11. Follows(x[N], s)
  <2>. DEFINE J == {y \in Store : Follows(y, s)}
  <2>1. x[0] \in J
    BY <1>3, CascadedReflexive
  <2>2. ASSUME NEW k \in 1..N, x[k - 1] \in J PROVE x[k] \in J
    <3>1. k - 1 \in Nat /\ (k - 1) + 1 = k
      BY <1>2
    <3>. DEFINE y == x[k - 1]
    <3>2. y \in Store /\ Follows(y, s)
      BY <2>2
    <3>3. x[k] = CascadeOnce(y)
      <4>1. x[(k - 1) + 1] = CascadeOnce(x[k - 1])
        BY <1>3, <3>1
      <4> QED BY <3>1, <4>1
    <3> HIDE DEF y
    <3>4. Follows(CascadeOnce(y), s)
      BY <3>2, CascadeOnceFollows
    <3> QED BY <3>3, <3>4 DEF Follows, Cascaded
  <2>3. \A k \in 0..N : x[k] \in J
    <3> HIDE DEF J
    <3> QED BY <1>2, <2>1, <2>2, RunStays
  <2>4. N \in 0..N
    BY <1>2
  <2> QED BY <2>3, <2>4
<1> QED BY <1>1, <1>10, <1>11

\* A rebuild under the cascade policy deletes exactly the rows that refer to a
\* row deleted before or by it, through chains of any length, and changes
\* nothing else (Engine::rebuild_store): the passes end in a store in which no
\* visible row refers to a deleted one.
THEOREM CascadesExact == Spec => []CascadeExact
<1>1. ASSUME LogInv PROVE CascadeExact
  <2>. SUFFICES ASSUME NEW p \in Peer
                PROVE  LET all  == Rebuild(log[p], "tombstone").store
                           kept == CascadeAll(all)
                           Orphaned(t, r) ==
                               \E i \in DOMAIN ForeignKeys :
                                   LET fk == ForeignKeys[i]
                                       parent == Cell(all[t], r, fk.col)
                                   IN  /\ fk.child = t /\ parent \in Row
                                       /\ IsDeleted(kept[fk.parent].members[parent])
                       IN  \A t \in Table :
                             /\ kept[t].cells = all[t].cells
                             /\ VisibleRows(kept[t]) =
                                    {r \in VisibleRows(all[t]) : ~Orphaned(t, r)}
    BY DEF CascadeExact
  <2>. DEFINE x == Rebuild(log[p], "tombstone").store
              y == CascadeAll(x)
  <2>1. x \in Store
    BY <1>1, RebuildFacts DEF LogInv, LogTyped
  <2>2. Follows(y, x) /\ Settled(y)
    <3> HIDE DEF x
    <3> QED BY <2>1, CascadeSettles
  <2>. HIDE DEF x, y
  <2>3. ASSUME NEW t \in Table
        PROVE  /\ y[t].cells = x[t].cells
               /\ VisibleRows(y[t]) = {r \in VisibleRows(x[t]) : ~Orphan(x, y, t, r)}
    <3>1. y[t].cells = x[t].cells
      BY <2>2 DEF Follows, Cascaded
    <3>2. \A r \in Row : y[t].members[r] \in Entry
      BY <2>2 DEF Follows, Cascaded, Store, TableState
    <3>3. ASSUME NEW r \in Row, IsVisible(y[t].members[r])
          PROVE  IsVisible(x[t].members[r]) /\ ~Orphan(x, y, t, r)
      <4>1. IsVisible(x[t].members[r])
        BY <2>2, <3>2, <3>3, RemovedEntry DEF Follows, Cascaded
      <4>2. ASSUME NEW i \in DOMAIN ForeignKeys, ForeignKeys[i].child = t
            PROVE  LET parent == Cell(x[t], r, ForeignKeys[i].col)
                   IN  ~(/\ parent \in Row
                         /\ IsDeleted(y[ForeignKeys[i].parent].members[parent]))
        <5>1. r \in VisibleRows(y[t]) /\ Doomed(y, ForeignKeys[i]) = {}
          BY <2>2, <3>3 DEF VisibleRows, Settled
        <5>2. Cell(y[t], r, ForeignKeys[i].col) = Cell(x[t], r, ForeignKeys[i].col)
          BY <3>1 DEF Cell
        <5> QED BY <4>2, <5>1, <5>2 DEF Doomed, Children, DeletedRows
      <4> QED BY <4>1, <4>2 DEF Orphan
    <3>4. ASSUME NEW r \in Row, IsVisible(x[t].members[r]), ~Orphan(x, y, t, r)
          PROVE  IsVisible(y[t].members[r])
      BY <2>2, <3>4 DEF Follows
    <3> QED BY <3>1, <3>3, <3>4 DEF VisibleRows
  <2> QED BY <2>3 DEF Orphan, x, y
<1> QED BY <1>1, LogInvariance, PTL

-----------------------------------------------------------------------------
(* Cascades of a statement.                                                *)

\* Store y is store x with some rows hidden and all cells kept.
Fades(y, x) == y \in Store /\ \A t \in Table : Shrinks(y[t], x[t])

\* No visible row of store y refers to row r of table t.
Unreferenced(y, t, r) ==
    \A i \in DOMAIN ForeignKeys :
        ForeignKeys[i].parent = t => Children(y, ForeignKeys[i], {r}) = {}

LEMMA FadesFacts ==
    ASSUME NEW x \in Store, NEW y, Fades(y, x), NEW i \in DOMAIN ForeignKeys, NEW R
    PROVE  Children(y, ForeignKeys[i], R) \subseteq Children(x, ForeignKeys[i], R)
<1>1. ForeignKeys[i].child \in Table
  BY ForeignKeyFacts
<1> QED BY <1>1 DEF Fades, Shrinks, Children, Cell

LEMMA FadesTransitive ==
    ASSUME NEW x, NEW y, NEW z, Fades(y, x), Fades(z, y)
    PROVE  Fades(z, x)
BY DEF Fades, Shrinks

LEMMA FadesReflexive ==
    ASSUME NEW x \in Store
    PROVE  Fades(x, x)
BY DEF Fades, Shrinks

\* A table that loses rows no longer shows them.
LEMMA RemoveRowsFades ==
    ASSUME NEW s \in Store, NEW t \in Table, NEW rows
    PROVE  /\ Fades(RemoveRows(s, t, rows), s)
           /\ VisibleRows(RemoveRows(s, t, rows)[t]) \cap rows = {}
<1>. DEFINE y == RemoveRows(s, t, rows)
            m == [r \in Row |-> IF r \in rows
                                THEN RemoveTokens(s[t].members[r], <<>>, FALSE)
                                ELSE s[t].members[r]]
<1>1. Sets(y, s, t) /\ Shrinks(y[t], s[t])
  BY RemoveRowsFacts
<1>2. y[t].members = m
  BY DEF RemoveRows, Store, TableState
<1>3. \A r \in Row : s[t].members[r] \in Entry
  BY DEF Store, TableState
<1>4. \A r \in Row \cap rows : ~IsVisible(m[r])
  BY <1>3, EntryFacts
<1>. HIDE DEF y, m
<1>5. VisibleRows(y[t]) \cap rows = {}
  BY <1>2, <1>4 DEF VisibleRows
<1>6. Fades(y, s)
  BY <1>1 DEF Fades, Sets, Shrinks
<1> QED BY <1>5, <1>6 DEF y

LEMMA DeleteFades ==
    ASSUME NEW s \in Store, NEW o \in Op, o.type = "delete"
    PROVE  Fades(ApplyOp(s, o), s)
<1>. DEFINE t == o.table
            e == s[t].members[o.row]
            d == RemoveTokens(e, o.hlc, o.fkTombstone)
            tab == [s[t] EXCEPT !.members[o.row] = d]
            y == ApplyOp(s, o)
<1>1. ~IsClaim(o) /\ t \in Table /\ o.row \in Row
  BY OpFacts DEF IsClaim
<1>2. Sets(y, s, t)
  BY <1>1, ApplyOpFacts
<1>3. s[t] \in TableState(t) /\ e \in Entry
  BY <1>1 DEF Store, TableState
<1>4. y[t] = tab
  <2>1. y = [s EXCEPT ![t] = DeleteRow(s[t], o.row, o.hlc, o.fkTombstone)]
    BY DEF ApplyOp
  <2> QED BY <1>1, <2>1 DEF Store, DeleteRow
<1>5. IsVisible(d) => IsVisible(e)
  <2>. HIDE DEF e
  <2>1. e \in [live : SUBSET Times, removed : SUBSET Times, tombstone : SUBSET Times]
    BY <1>3 DEF Entry
  <2>2. e # Absent => d.live = e.live /\ d.removed = e.removed \cup e.live
    BY <2>1 DEF RemoveTokens
  <2>3. e = Absent => d = e
    BY DEF RemoveTokens
  <2> HIDE DEF d
  <2> QED BY <2>2, <2>3 DEF IsVisible, IsLive
<1>. HIDE DEF d, e
<1>6. tab.cells = s[t].cells /\ tab.members = [s[t].members EXCEPT ![o.row] = d]
  BY <1>3 DEF TableState
<1>. HIDE DEF tab
<1>7. \A r \in Row : IsVisible(tab.members[r]) => IsVisible(s[t].members[r])
  BY <1>1, <1>3, <1>5, <1>6 DEF TableState, e
<1>8. Shrinks(tab, s[t])
  BY <1>6, <1>7 DEF Shrinks, VisibleRows
<1>. HIDE DEF y, t
<1>9. Fades(y, s)
  BY <1>2, <1>4, <1>8 DEF Fades, Sets, Shrinks
<1> QED BY <1>9 DEF y

\* The cascade of a local delete leaves no reference to the deleted row.
LEMMA CascadeFromHides ==
    ASSUME NEW s \in Store, NEW op
    PROVE  Fades(CascadeFrom(s, op), s) /\ Unreferenced(CascadeFrom(s, op), op.table, op.row)
<1>. DEFINE n == Len(ForeignKeys)
            v == CascadeFrom(s, op)
            H == [i \in 1..n |-> [y \in Store |-> CascadeFromStep(op, y, ForeignKeys[i])]]
            Clear(y, i) == ForeignKeys[i].parent = op.table =>
                              Children(y, ForeignKeys[i], {op.row}) = {}
<1>1. /\ n \in Nat /\ DOMAIN ForeignKeys = 1..n
      /\ \A i \in 1..n : ForeignKeys[i].child \in Table
  BY ForeignKeyFacts
<1>2. ASSUME NEW y \in Store, NEW i \in 1..n
      PROVE  Fades(CascadeFromStep(op, y, ForeignKeys[i]), y)
             /\ Clear(CascadeFromStep(op, y, ForeignKeys[i]), i)
  <2>. DEFINE fk == ForeignKeys[i]
              c == fk.child
              R == Children(y, fk, {op.row})
              z == RemoveRows(y, c, R)
  <2>1. CASE fk.parent # op.table
    BY <2>1, FadesReflexive DEF CascadeFromStep
  <2>2. CASE fk.parent = op.table
    <3>1. Fades(z, y) /\ VisibleRows(z[c]) \cap R = {}
      <4> HIDE DEF R
      <4> QED BY <1>1, RemoveRowsFades
    <3>2. CascadeFromStep(op, y, fk) = z
      BY <2>2 DEF CascadeFromStep
    <3> HIDE DEF z
    <3>3. Children(z, fk, {op.row}) \subseteq R
      BY <1>1, <3>1, FadesFacts
    <3>4. Children(z, fk, {op.row}) \subseteq VisibleRows(z[c])
      BY DEF Children
    <3>5. Children(z, fk, {op.row}) = {}
      <4> HIDE DEF R, c
      <4> QED BY <3>1, <3>3, <3>4
    <3> QED BY <3>1, <3>2, <3>5
  <2> QED BY <2>1, <2>2
<1>3. \A y \in Store : \A i \in 1..n : CascadeFromStep(op, y, ForeignKeys[i]) \in Store
  BY <1>2 DEF Fades
<1>4. EndsRun(v, n, Store, s, H)
  <2> HIDE DEF n
  <2> QED BY <1>1, <1>3, CascadeFromRun DEF CascadeFrom
<1>5. PICK x : IsRun(x, n, Store, s, H) /\ x[n] = v
  BY <1>4 DEF EndsRun
<1>6. x[0] = s /\ \A k \in 0..n : x[k] \in Store
  BY <1>5 DEF IsRun
<1>7. ASSUME NEW k \in 1..n
      PROVE  k - 1 \in 0..n /\ x[k] = CascadeFromStep(op, x[k - 1], ForeignKeys[k])
  <2>1. k - 1 \in 0..n
    BY <1>1
  <2>2. x[k] = H[k][x[k - 1]]
    BY <1>5 DEF IsRun
  <2>3. x[k - 1] \in Store
    BY <1>6, <2>1
  <2> QED BY <2>1, <2>2, <2>3
<1>. HIDE DEF v, H
<1>. DEFINE K == {k \in 0..n : Fades(x[k], s) /\ \A i \in 1..k : Clear(x[k], i)}
<1>8. 0 \in K
  BY <1>1, <1>6, FadesReflexive
<1>9. ASSUME NEW k \in 1..n, k - 1 \in K PROVE k \in K
  <2>. DEFINE y == x[k - 1]
              z == x[k]
  <2>1. k \in 0..n /\ k - 1 \in 0..n /\ \A i \in 1..k : i \in 1..n /\ (i = k \/ i \in 1..(k - 1))
    BY <1>1
  <2>2. y \in Store /\ z = CascadeFromStep(op, y, ForeignKeys[k])
    BY <1>6, <1>7
  <2>3. Fades(z, y) /\ Clear(z, k)
    <3> HIDE DEF y, z, Clear
    <3> QED BY <1>2, <2>2
  <2>4. Fades(y, s) /\ \A i \in 1..(k - 1) : Clear(y, i)
    BY <1>9
  <2> HIDE DEF y, z
  <2>5. ASSUME NEW i \in 1..(k - 1) PROVE Clear(z, i)
    <3>1. i \in DOMAIN ForeignKeys
      BY <1>1
    <3>2. Children(z, ForeignKeys[i], {op.row}) \subseteq Children(y, ForeignKeys[i], {op.row})
      BY <2>2, <2>3, <3>1, FadesFacts
    <3> QED BY <2>4, <3>2
  <2>6. Fades(z, s)
    BY <2>3, <2>4, FadesTransitive
  <2> HIDE DEF Clear
  <2>7. \A i \in 1..k : Clear(z, i)
    BY <2>1, <2>3, <2>5
  <2> QED BY <2>1, <2>6, <2>7 DEF z
<1>10. n \in K
  <2>1. 0..n \subseteq K
    <3> HIDE DEF K, n
    <3> QED BY <1>1, <1>8, <1>9, Induction
  <2>2. n \in 0..n
    BY <1>1
  <2> HIDE DEF K
  <2> QED BY <2>1, <2>2
<1>11. Fades(v, s) /\ \A i \in 1..n : Clear(v, i)
  BY <1>5, <1>10
<1> QED BY <1>1, <1>11 DEF Unreferenced, v
\* The tables after the row operations of a statement of p.
Performed(p, s, ops) == FoldLeft(LAMBDA x, o : ApplyLocally(p, x, o), s, RowOps(ops))

HidesAll(y, t, ops) == \A o \in ToSet(ops) : Unreferenced(y, t, o.row)

\* The row operations of a DELETE leave no reference to a row it deletes.
LEMMA StatementHides ==
    ASSUME NEW p, policy[p] = "cascade", NEW s \in Store, NEW t \in Table, NEW ops \in Seq(Op),
           \A o \in ToSet(ops) : o.table = t /\ o.type = "delete"
    PROVE  HidesAll(Performed(p, s, ops), t, ops)
<1>. DEFINE r == RowOps(ops)
            n == Len(r)
            v == FoldLeft(LAMBDA x, o : ApplyLocally(p, x, o), s, r)
            H == [i \in 1..n |-> [x \in Store |-> ApplyLocally(p, x, r[i])]]
<1>1. /\ r \in Seq({o \in Op : ~IsClaim(o)})
      /\ ToSet(r) = ToSet(ops)
  <2>1. \A o \in ToSet(ops) : ~IsClaim(o)
    BY DEF IsClaim
  <2> QED BY <2>1, SplitFacts
<1>. HIDE DEF r
<1>2. n \in Nat /\ DOMAIN r = 1..n
  BY <1>1
<1>3. \A i \in 1..n : r[i] \in Op /\ r[i].table = t /\ r[i].type = "delete"
  <2>1. \A i \in 1..n : r[i] \in {o \in Op : ~IsClaim(o)} /\ r[i] \in ToSet(r)
    BY <1>1, <1>2 DEF ToSet
  <2> QED BY <1>1, <2>1
<1>4. ASSUME NEW x \in Store, NEW i \in 1..n
      PROVE  /\ Fades(ApplyLocally(p, x, r[i]), x)
             /\ Unreferenced(ApplyLocally(p, x, r[i]), t, r[i].row)
  <2>. DEFINE o == r[i]
              y == ApplyOp(x, o)
              z == CascadeFrom(y, o)
  <2>1. o \in Op /\ o.table = t /\ o.type = "delete"
    BY <1>3
  <2> HIDE DEF o
  <2>2. Fades(y, x) /\ y \in Store
    BY <2>1, DeleteFades DEF Fades
  <2>3. ApplyLocally(p, x, o) = z
    BY <2>1 DEF ApplyLocally
  <2> HIDE DEF y
  <2>4. Fades(z, y) /\ Unreferenced(z, o.table, o.row)
    BY <2>2, CascadeFromHides
  <2> HIDE DEF z
  <2>5. Fades(z, x)
    BY <2>2, <2>4, FadesTransitive
  <2> QED BY <2>1, <2>3, <2>4, <2>5 DEF o
<1>5. \A x \in Store : \A i \in 1..n : ApplyLocally(p, x, r[i]) \in Store
  BY <1>4 DEF Fades
<1>6. EndsRun(v, n, Store, s, H)
  <2> HIDE DEF n
  <2> QED BY <1>2, <1>5, ApplyLocallyRun
<1>7. PICK x : IsRun(x, n, Store, s, H) /\ x[n] = v
  BY <1>6 DEF EndsRun
<1>8. x[0] = s /\ \A k \in 0..n : x[k] \in Store
  BY <1>7 DEF IsRun
<1>9. ASSUME NEW k \in 1..n
      PROVE  k - 1 \in 0..n /\ x[k] = ApplyLocally(p, x[k - 1], r[k])
  <2>1. k - 1 \in 0..n
    BY <1>2
  <2>2. x[k] = H[k][x[k - 1]]
    BY <1>7 DEF IsRun
  <2>3. x[k - 1] \in Store
    BY <1>8, <2>1
  <2> QED BY <2>1, <2>2, <2>3
<1>. HIDE DEF v, H, n
<1>. DEFINE K == {k \in 0..n : \A j \in 1..k : Unreferenced(x[k], t, r[j].row)}
<1>10. 0 \in K
  BY <1>2
<1>11. ASSUME NEW k \in 1..n, k - 1 \in K PROVE k \in K
  <2>. DEFINE y == x[k - 1]
              z == x[k]
  <2>1. k \in 0..n /\ k - 1 \in 0..n /\ \A j \in 1..k : j = k \/ j \in 1..(k - 1)
    BY <1>2
  <2>2. y \in Store /\ z = ApplyLocally(p, y, r[k])
    BY <1>8, <1>9
  <2>3. Fades(z, y) /\ Unreferenced(z, t, r[k].row)
    <3> HIDE DEF y, z
    <3> QED BY <1>4, <2>2
  <2>4. \A j \in 1..(k - 1) : Unreferenced(y, t, r[j].row)
    BY <1>11
  <2> HIDE DEF y, z
  <2>5. \A j \in 1..(k - 1) : Unreferenced(z, t, r[j].row)
    BY <2>2, <2>3, <2>4, FadesFacts DEF Unreferenced
  <2>6. \A j \in 1..k : Unreferenced(z, t, r[j].row)
    BY <2>1, <2>3, <2>5
  <2> QED BY <2>1, <2>6 DEF z
<1>12. n \in K
  <2>1. 0..n \subseteq K
    <3> HIDE DEF K
    <3> QED BY <1>2, <1>10, <1>11, Induction
  <2>2. n \in 0..n
    BY <1>2
  <2> HIDE DEF K
  <2> QED BY <2>1, <2>2
<1>13. \A j \in 1..n : Unreferenced(v, t, r[j].row)
  BY <1>7, <1>12
<1>14. \A o \in ToSet(r) : \E j \in 1..n : o = r[j]
  BY <1>2 DEF ToSet
<1>15. Performed(p, s, ops) = v
  BY DEF Performed, v, r
<1> QED BY <1>1, <1>13, <1>14, <1>15 DEF HidesAll

\* A rebuild under the cascade policy leaves nothing to cascade to.
LEMMA RebuildSettles ==
    ASSUME NEW l \in Seq(Op)
    PROVE  Settled(Rebuild(l, "cascade").store)
<1>. DEFINE x == Rebuild(l, "tombstone").store
<1>1. x \in Store
  BY RebuildFacts
<1>2. Rebuild(l, "cascade").store = CascadeAll(x)
  BY DEF Rebuild
<1>. HIDE DEF x
<1> QED BY <1>1, <1>2, CascadeSettles

\* The peers in ps rebuild after they have received all of other logs.
Rebuilds(ps, newLog) ==
    /\ RebuildAll(ps, newLog)
    /\ ps \in SUBSET Peer
    /\ newLog \in [Peer -> Seq(Op)]
    /\ \A q \in Peer \ ps : newLog[q] = log[q]
    /\ \A q \in Peer : \E r \in Peer : ToSet(newLog[q]) = Ops(q) \cup Ops(r)
    /\ policy' = policy

\* The kinds of steps, as far as the tables are concerned.
LEMMA StoreSteps ==
    ASSUME LogInv, [Next]_vars
    PROVE  \/ \E p \in Peer : Performs(p)
           \/ \E ps, newLog : Rebuilds(ps, newLog)
           \/ UNCHANGED <<log, store, claims, policy, index>>
<1>0. log \in [Peer -> Seq(Op)] /\ LogTyped
  BY DEF LogInv, LogTyped
<1>1. CASE \E p \in Peer : Insert(p) \/ Update(p) \/ Delete(p)
  BY <1>0, <1>1, InsertPerforms, UpdatePerforms, DeletePerforms
<1>2. CASE \E p \in Peer : InsertRejected(p)
  BY <1>2 DEF InsertRejected
<1>3. ASSUME NEW p \in Peer, Recover(p) PROVE \E ps, newLog : Rebuilds(ps, newLog)
  <2>1. RebuildAll({p}, log) /\ policy' = policy /\ {p} \in SUBSET Peer
    BY <1>3 DEF Recover
  <2>2. \A q \in Peer : ToSet(log[q]) = Ops(q) \cup Ops(q)
    BY DEF Ops
  <2> QED BY <1>0, <2>1, <2>2 DEF Rebuilds
<1>4. ASSUME NEW p \in Peer, NEW q \in Peer, p # q, Sync(p, q)
      PROVE  \E ps, newLog : Rebuilds(ps, newLog)
  <2>. DEFINE a == AppendAll(log[p], MissingOps(log[q], log[p]))
              b == AppendAll(log[q], MissingOps(log[p], log[q]))
              new == [log EXCEPT ![p] = a, ![q] = b]
              ps == {p, q}
  <2>1. RebuildAll(ps, new) /\ policy' = policy /\ ps \in SUBSET Peer
    BY <1>4 DEF Sync
  <2>2. /\ a \in Seq(Op) /\ ToSet(a) = Ops(p) \cup Ops(q)
        /\ b \in Seq(Op) /\ ToSet(b) = Ops(q) \cup Ops(p)
    BY ReceivesAll
  <2> HIDE DEF a, b
  <2>3. /\ new \in [Peer -> Seq(Op)] /\ new[p] = a /\ new[q] = b
        /\ \A r \in Peer \ ps : new[r] = log[r]
    BY <1>0, <1>4, <2>2
  <2> HIDE DEF new
  <2>4. \A r \in Peer : \E u \in Peer : ToSet(new[r]) = Ops(r) \cup Ops(u)
    <3>1. \A r \in Peer \ ps : ToSet(new[r]) = Ops(r) \cup Ops(r)
      BY <2>3 DEF Ops
    <3> QED BY <2>2, <2>3, <3>1
  <2> HIDE DEF ps
  <2> QED BY <2>1, <2>3, <2>4 DEF Rebuilds
<1>5. ASSUME NEW p \in Peer, NEW q \in Peer, SyncFrom(p, q)
      PROVE  \E ps, newLog : Rebuilds(ps, newLog)
  <2>. DEFINE a == AppendAll(log[p], MissingOps(log[q], log[p]))
              new == [log EXCEPT ![p] = a]
              ps == {p}
  <2>1. RebuildAll(ps, new) /\ policy' = policy /\ ps \in SUBSET Peer
    BY <1>5 DEF SyncFrom
  <2>2. a \in Seq(Op) /\ ToSet(a) = Ops(p) \cup Ops(q)
    BY ReceivesAll
  <2> HIDE DEF a
  <2>3. new \in [Peer -> Seq(Op)] /\ new[p] = a /\ \A r \in Peer \ ps : new[r] = log[r]
    BY <1>0, <2>2
  <2> HIDE DEF new
  <2>4. \A r \in Peer : \E u \in Peer : ToSet(new[r]) = Ops(r) \cup Ops(u)
    <3>1. \A r \in Peer \ ps : ToSet(new[r]) = Ops(r) \cup Ops(r)
      BY <2>3 DEF Ops
    <3> QED BY <2>2, <2>3, <3>1
  <2> HIDE DEF ps
  <2> QED BY <2>1, <2>3, <2>4 DEF Rebuilds
<1>6. CASE Pass \/ UNCHANGED vars
  BY <1>6 DEF Pass, vars
<1>7. \A p, q \in Peer : p < q => p # q
  BY PeersAssumption
<1> QED BY <1>1, <1>2, <1>3, <1>4, <1>5, <1>6, <1>7 DEF Next

\* What CascadesAtOnce says of a step of peer p and one foreign key.
HidesAtOnce(p, fk) ==
    LET new == {o \in Ops(p)' \ Ops(p) : o.type = "delete" /\ o.table = fk.parent}
        gone == {r \in {o.row : o \in new} : IsDeleted(store'[p][fk.parent].members[r])}
    IN  Children(store'[p], fk, gone) = {}

LEMMA NothingNew ==
    ASSUME NEW p, NEW fk,
           ~ \E o \in Ops(p)' \ Ops(p) : o.type = "delete" /\ o.table = fk.parent
    PROVE  HidesAtOnce(p, fk)
<1>. DEFINE new == {o \in Ops(p)' \ Ops(p) : o.type = "delete" /\ o.table = fk.parent}
            gone == {r \in {o.row : o \in new} : IsDeleted(store'[p][fk.parent].members[r])}
<1>1. new = {}
  OBVIOUS
<1>2. gone = {}
  BY <1>1
<1>. HIDE DEF gone
<1>3. Children(store'[p], fk, gone) = {}
  BY <1>2 DEF Children
<1> QED BY <1>3 DEF HidesAtOnce, gone

\* Right after a delete reaches a peer with the cascade policy no visible row
\* there refers to the deleted one (Engine::apply_op, rebuild_store): each
\* deleted row takes its children along, and neither the deletes that follow
\* nor a rebuild bring one back.
THEOREM CascadesImmediate == Spec => CascadesAtOnce
<1>1. ASSUME LogInv, StoreInv, [Next]_vars, NEW p \in Peer, policy[p] = "cascade",
             NEW i \in DOMAIN ForeignKeys
      PROVE  HidesAtOnce(p, ForeignKeys[i])
  <2>. DEFINE fk == ForeignKeys[i]
              new == {o \in Ops(p)' \ Ops(p) : o.type = "delete" /\ o.table = fk.parent}
              rows == {o.row : o \in new}
              gone == {r \in rows : IsDeleted(store'[p][fk.parent].members[r])}
  <2>0. fk.parent \in Table /\ fk.child \in Table
    BY <1>1, ForeignKeyFacts
  <2>1. ASSUME NEW q \in Peer, Performs(q) PROVE HidesAtOnce(p, fk)
    <3>1. PICK t \in Table, stamps \in Seq(Stamps), ops \in Seq(Op) :
              Perform(q, t, stamps, ops) /\ Ready(q, t, stamps, ops)
      BY <2>1 DEF Performs
    <3>. DEFINE x == Performed(q, store[q], ops)
    <3>2. /\ log' = [log EXCEPT ![q] = AppendAll(log[q], ops)]
          /\ store' = [store EXCEPT ![q] = x]
      BY <3>1 DEF Perform, Performed
    <3>3. /\ log[q] \in Seq(Op) /\ Distinct(log[q]) /\ log \in [Peer -> Seq(Op)]
          /\ store \in [Peer -> Store]
      BY <1>1 DEF LogInv, LogTyped, NoDuplicates, StoreInv, StoreTyped
    <3>4. Ops(q)' = Ops(q) \cup ToSet(ops)
      <4>1. log'[q] = AppendAll(log[q], ops)
        BY <3>2, <3>3
      <4> QED BY <3>3, <4>1, AppendAllFacts DEF Ops
    <3>5. store'[q] = x
      BY <3>2, <3>3
    <3>6. PICK deletes \in BOOLEAN : \A o \in ToSet(ops) : Fits(q, t, deletes, o)
      BY <3>1 DEF Ready
    <3>7. \A o \in ToSet(ops) : o.table = t
      BY <3>1 DEF Ready
    <3> HIDE DEF x
    <3>8. CASE p # q
      <4>1. Ops(p)' = Ops(p)
        BY <3>2, <3>3, <3>8 DEF Ops
      <4> QED BY <4>1, NothingNew
    <3>9. CASE p = q /\ ~deletes
      <4>1. \A o \in ToSet(ops) : o.type # "delete"
        BY <3>6, <3>9 DEF Fits
      <4>2. ~ \E o \in Ops(p)' \ Ops(p) : o.type = "delete" /\ o.table = fk.parent
        BY <3>4, <3>9, <4>1
      <4> QED BY <4>2, NothingNew
    <3>10. CASE p = q /\ fk.parent # t
      <4>1. ~ \E o \in Ops(p)' \ Ops(p) : o.type = "delete" /\ o.table = fk.parent
        BY <3>4, <3>7, <3>10
      <4> QED BY <4>1, NothingNew
    <3>11. CASE p = q /\ deletes /\ fk.parent = t
      <4>1. \A o \in ToSet(ops) : o.table = t /\ o.type = "delete"
        BY <3>6, <3>7, <3>11 DEF Fits
      <4>2. \A o \in ToSet(ops) : Unreferenced(x, t, o.row)
        <5>1. policy[q] = "cascade" /\ store[q] \in Store
          BY <1>1, <3>3, <3>11
        <5>2. HidesAll(x, t, ops)
          BY <4>1, <5>1, StatementHides DEF x
        <5> QED BY <5>2 DEF HidesAll
      <4>3. \A r \in gone : \E o \in ToSet(ops) : r = o.row
        BY <3>4, <3>11
      <4> HIDE DEF gone
      <4>4. \A r \in gone : Children(x, fk, {r}) = {}
        BY <1>1, <3>11, <4>2, <4>3 DEF Unreferenced
      <4>5. Children(x, fk, gone) = {}
        <5>1. \A c \in Children(x, fk, gone) : \E r \in gone : c \in Children(x, fk, {r})
          BY DEF Children
        <5> QED BY <4>4, <5>1
      <4> QED BY <3>5, <3>11, <4>5 DEF HidesAtOnce, gone
    <3> QED BY <3>6, <3>8, <3>9, <3>10, <3>11
  <2>2. ASSUME NEW ps, NEW newLog, Rebuilds(ps, newLog) PROVE HidesAtOnce(p, fk)
    <3>1. /\ RebuildAll(ps, newLog) /\ ps \in SUBSET Peer
          /\ newLog \in [Peer -> Seq(Op)] /\ \A q \in Peer \ ps : newLog[q] = log[q]
      BY <2>2 DEF Rebuilds
    <3>. DEFINE b == [q \in ps |-> Rebuild(newLog[q], policy[q])]
    <3>2. /\ log' = newLog
          /\ store' = [q \in Peer |-> IF q \in ps THEN b[q].store ELSE store[q]]
      BY <3>1 DEF RebuildAll
    <3>3. CASE p \notin ps
      <4>1. Ops(p)' = Ops(p)
        BY <3>1, <3>2, <3>3 DEF Ops
      <4> QED BY <4>1, NothingNew
    <3>4. CASE p \in ps
      <4>1. store'[p] = Rebuild(newLog[p], "cascade").store
        BY <1>1, <3>2, <3>4
      <4>2. Settled(store'[p])
        BY <3>1, <4>1, RebuildSettles
      <4>3. rows \subseteq Row
        <5>1. Ops(p)' \subseteq Op
          <6>1. log'[p] \in Seq(Op)
            BY <3>1, <3>2
          <6> QED BY <6>1 DEF Ops, ToSet
        <5> QED BY <5>1, OpFacts
      <4> HIDE DEF rows
      <4>4. gone \subseteq DeletedRows(store'[p], fk.parent)
        BY <4>3 DEF DeletedRows
      <4> HIDE DEF gone
      <4>5. Children(store'[p], fk, gone) \subseteq Doomed(store'[p], fk)
        BY <4>4 DEF Doomed, Children
      <4>6. Doomed(store'[p], fk) = {}
        BY <1>1, <4>2 DEF Settled
      <4>7. Children(store'[p], fk, gone) = {}
        BY <4>5, <4>6
      <4> QED BY <4>7 DEF HidesAtOnce, gone, rows
    <3> QED BY <3>3, <3>4
  <2>3. CASE UNCHANGED <<log, store, claims, policy, index>>
    <3>1. Ops(p)' = Ops(p)
      BY <2>3 DEF Ops
    <3> QED BY <3>1, NothingNew
  <2> QED BY <1>1, <2>1, <2>2, <2>3, StoreSteps
<1>. DEFINE A == \A p \in Peer : policy[p] = "cascade" =>
                   \A i \in DOMAIN ForeignKeys : HidesAtOnce(p, ForeignKeys[i])
<1>2. LogInv /\ StoreInv /\ [Next]_vars => A
  BY <1>1
<1>3. [A]_vars => [\A p \in Peer : policy[p] = "cascade" =>
        \A i \in DOMAIN ForeignKeys :
            LET fk == ForeignKeys[i]
                new == {o \in Ops(p)' \ Ops(p) : o.type = "delete" /\ o.table = fk.parent}
                gone == {r \in {o.row : o \in new} :
                            IsDeleted(store'[p][fk.parent].members[r])}
            IN  Children(store'[p], fk, gone) = {}]_vars
  BY DEF HidesAtOnce
<1>. HIDE DEF A
<1> QED BY <1>2, <1>3, LogInvariance, StoreInvariance, PTL DEF Spec, CascadesAtOnce
-----------------------------------------------------------------------------
(* One row under one operation.                                            *)

EntryAfter(e, o) ==
    CASE o.type = "insert" -> AddToken(e, o.hlc)
      [] o.type = "update" -> e
      [] o.type = "delete" -> RemoveTokens(e, o.hlc, o.fkTombstone)

RegisterAfter(reg, o, c) ==
    IF o.type \in {"insert", "update"} /\ c \in DOMAIN o.cells
    THEN WriteCell(reg, o.hlc, o.cells[c])
    ELSE reg

\* Store y is store x after row operation o.
Applied(y, x, o) ==
    /\ y \in Store
    /\ y[o.table].members[o.row] = EntryAfter(x[o.table].members[o.row], o)
    /\ \A c \in Columns[o.table] :
          y[o.table].cells[o.row][c] = RegisterAfter(x[o.table].cells[o.row][c], o, c)
    /\ \A t \in Table, r \in Row : t # o.table \/ r # o.row =>
          y[t].members[r] = x[t].members[r] /\ y[t].cells[r] = x[t].cells[r]

LEMMA WriteCellsShape ==
    ASSUME NEW t \in Table, NEW tab \in TableState(t), NEW r \in Row, NEW h, NEW cells
    PROVE  LET y == WriteCells(tab, r, h, cells)
           IN  /\ y.members = tab.members
               /\ \A c \in Columns[t] :
                     y.cells[r][c] = IF c \in DOMAIN cells
                                     THEN WriteCell(tab.cells[r][c], h, cells[c])
                                     ELSE tab.cells[r][c]
               /\ \A u \in Row \ {r} : y.cells[u] = tab.cells[u]
<1>. DEFINE old == tab.cells[r]
            new == [c \in Columns[t] |-> IF c \in DOMAIN cells
                                         THEN WriteCell(old[c], h, cells[c]) ELSE old[c]]
            y == [tab EXCEPT !.cells[r] = new]
<1>1. old \in [Columns[t] -> SUBSET Write] /\ DOMAIN old = Columns[t]
  BY DEF TableState
<1>2. WriteCells(tab, r, h, cells) = y
  BY <1>1 DEF WriteCells
<1>3. \A c \in Columns[t] : new[c] = IF c \in DOMAIN cells
                                     THEN WriteCell(old[c], h, cells[c]) ELSE old[c]
  OBVIOUS
<1>. HIDE DEF new
<1>4. y.members = tab.members /\ y.cells[r] = new /\ \A u \in Row \ {r} : y.cells[u] = tab.cells[u]
  BY DEF TableState
<1>. HIDE DEF y
<1> QED BY <1>2, <1>3, <1>4

LEMMA ApplyOpApplies ==
    ASSUME NEW x \in Store, NEW o \in Op, ~IsClaim(o)
    PROVE  Applied(ApplyOp(x, o), x, o)
<1>. DEFINE t == o.table
            tab == CASE o.type = "insert" -> InsertRow(x[t], o.row, o.hlc, o.cells)
                     [] o.type = "update" -> WriteCells(x[t], o.row, o.hlc, o.cells)
                     [] o.type = "delete" -> DeleteRow(x[t], o.row, o.hlc, o.fkTombstone)
            y == ApplyOp(x, o)
<1>1. /\ t \in Table /\ o.row \in Row
      /\ o.type \in {"insert", "update", "delete"}
  BY OpFacts
<1>2. Sets(y, x, t)
  BY ApplyOpFacts
<1>3. x[t] \in TableState(t)
  BY <1>1 DEF Store
<1>4. y[t] = tab
  BY <1>1 DEF ApplyOp, Store
<1>. HIDE DEF y, t
<1>5. /\ tab.members[o.row] = EntryAfter(x[t].members[o.row], o)
      /\ \A c \in Columns[t] : tab.cells[o.row][c] = RegisterAfter(x[t].cells[o.row][c], o, c)
      /\ \A r \in Row \ {o.row} :
            tab.members[r] = x[t].members[r] /\ tab.cells[r] = x[t].cells[r]
  <2>. DEFINE w == WriteCells(x[t], o.row, o.hlc, o.cells)
  <2>1. /\ w.members = x[t].members
        /\ \A c \in Columns[t] :
              w.cells[o.row][c] = IF c \in DOMAIN o.cells
                                  THEN WriteCell(x[t].cells[o.row][c], o.hlc, o.cells[c])
                                  ELSE x[t].cells[o.row][c]
        /\ \A u \in Row \ {o.row} : w.cells[u] = x[t].cells[u]
    BY <1>1, <1>3, WriteCellsShape DEF t
  <2>2. CASE o.type = "insert"
    <3>1. w \in TableState(t)
      <4>1. o.hlc \in Times /\ \A c \in DOMAIN o.cells : o.cells[c] \in Nat
        BY <2>2, OpFacts
      <4> QED BY <1>1, <1>3, <4>1, WriteCellsFacts DEF t
    <3>. DEFINE d == AddToken(w.members[o.row], o.hlc)
    <3>2. tab = [w EXCEPT !.members[o.row] = d]
      BY <2>2 DEF InsertRow
    <3>3. d = EntryAfter(x[t].members[o.row], o)
      BY <2>1, <2>2 DEF EntryAfter
    <3> HIDE DEF w, d, tab
    <3>4. /\ tab.cells = w.cells /\ tab.members[o.row] = d
          /\ \A r \in Row \ {o.row} : tab.members[r] = w.members[r]
      BY <1>1, <3>1, <3>2 DEF TableState
    <3> QED BY <2>1, <2>2, <3>3, <3>4 DEF RegisterAfter
  <2>3. CASE o.type = "update"
    <3>1. tab = w
      BY <2>3
    <3> HIDE DEF w, tab
    <3> QED BY <2>1, <2>3, <3>1 DEF RegisterAfter, EntryAfter
  <2>4. CASE o.type = "delete"
    <3>. DEFINE d == RemoveTokens(x[t].members[o.row], o.hlc, o.fkTombstone)
    <3>1. tab = [x[t] EXCEPT !.members[o.row] = d]
      BY <2>4 DEF DeleteRow
    <3>2. d = EntryAfter(x[t].members[o.row], o)
      BY <2>4 DEF EntryAfter
    <3> HIDE DEF d, tab
    <3>3. /\ tab.cells = x[t].cells /\ tab.members[o.row] = d
          /\ \A r \in Row \ {o.row} : tab.members[r] = x[t].members[r]
      BY <1>1, <1>3, <3>1 DEF TableState
    <3> QED BY <2>4, <3>2, <3>3 DEF RegisterAfter
  <2> QED BY <1>1, <2>2, <2>3, <2>4
<1>. HIDE DEF tab
<1>6. \A u \in Table, r \in Row : u # o.table \/ r # o.row =>
          y[u].members[r] = x[u].members[r] /\ y[u].cells[r] = x[u].cells[r]
  BY <1>2, <1>4, <1>5 DEF Sets, t
<1>7. Applied(y, x, o)
  BY <1>2, <1>4, <1>5, <1>6 DEF Applied, Sets, t
<1> QED BY <1>7 DEF y
-----------------------------------------------------------------------------
(* What the tables stem from.                                              *)

Creates(o, t, r) == o.type = "insert" /\ o.table = t /\ o.row = r

\* A write that o makes to column c of row r of table t.
Stems(w, o, t, r, c) ==
    /\ o.type \in {"insert", "update"} /\ o.table = t /\ o.row = r
    /\ o.hlc = w.hlc /\ c \in DOMAIN o.cells /\ o.cells[c] = w.value

\* The tokens of a row are the timestamps of its inserts among S.
Seeded(e, S, t, r) ==
    /\ \A h \in e.live : \E o \in S : Creates(o, t, r) /\ o.hlc = h
    /\ e.tombstone # {} => e.live # {}

\* A row that S inserts exists, if only as a tombstone.
Alive(e, S, t, r) == (\E o \in S : Creates(o, t, r)) => ExistsForFk(e)

\* A register holds writes of S and null writes of the arbiter.
Written(reg, S, t, r, c) ==
    \A w \in reg : w.hlc.peer = Arbiter \/ \E o \in S : Stems(w, o, t, r, c)

\* What store x holds stems from operations S.
Backed(x, S) ==
    \A t \in Table, r \in Row :
        /\ Seeded(x[t].members[r], S, t, r)
        /\ Alive(x[t].members[r], S, t, r)
        /\ \A c \in Columns[t] : Written(x[t].cells[r][c], S, t, r, c)

LEMMA EntryBacked ==
    ASSUME NEW e \in Entry, NEW S, NEW o \in Op, ~IsClaim(o), NEW t, NEW r,
           o.table = t, o.row = r, Seeded(e, S, t, r), Alive(e, S, t, r),
           o.type = "insert" => o.hlc \notin e.removed, o.type = "delete" => o.fkTombstone
    PROVE  /\ Seeded(EntryAfter(e, o), S \cup {o}, t, r)
           /\ Alive(EntryAfter(e, o), S \cup {o}, t, r)
<1>. DEFINE d == EntryAfter(e, o)
<1>1. o.type \in {"insert", "update", "delete"}
  BY OpFacts
<1>2. e \in [live : SUBSET Times, removed : SUBSET Times, tombstone : SUBSET Times]
      /\ e.removed \subseteq e.live
  BY DEF Entry
<1>3. CASE o.type = "insert"
  <2>1. d.live = e.live \cup {o.hlc} /\ d.removed = e.removed /\ d.tombstone = {}
    BY <1>2, <1>3 DEF EntryAfter, AddToken
  <2> HIDE DEF d
  <2>2. Creates(o, t, r)
    BY <1>3 DEF Creates
  <2>3. Seeded(d, S \cup {o}, t, r)
    BY <2>1, <2>2 DEF Seeded
  <2>4. ExistsForFk(d)
    BY <1>3, <2>1 DEF ExistsForFk, IsLive
  <2> QED BY <2>3, <2>4 DEF Alive, d
<1>4. CASE o.type = "update"
  <2>1. d = e /\ ~Creates(o, t, r)
    BY <1>4 DEF EntryAfter, Creates
  <2> HIDE DEF d
  <2> QED BY <2>1 DEF Seeded, Alive, d
<1>5. CASE o.type = "delete"
  <2>1. d = RemoveTokens(e, o.hlc, o.fkTombstone) /\ ~Creates(o, t, r)
    BY <1>5 DEF EntryAfter, Creates
  <2>2. CASE e = Absent
    <3>1. d = e
      BY <2>1, <2>2 DEF RemoveTokens
    <3> HIDE DEF d
    <3> QED BY <2>1, <3>1 DEF Seeded, Alive, d
  <2>3. CASE e # Absent
    <3>1. d.live = e.live /\ d.tombstone = {o.hlc}
      BY <1>2, <1>5, <2>1, <2>3 DEF RemoveTokens
    <3>2. e.live # {}
      <4>1. SUFFICES ASSUME e.live = {} PROVE FALSE
        OBVIOUS
      <4>2. e.live = {} /\ e.removed = {} /\ e.tombstone = {}
        BY <1>2, <4>1 DEF Seeded
      <4> QED BY <1>2, <2>3, <4>2 DEF Absent
    <3> HIDE DEF d
    <3>3. Seeded(d, S \cup {o}, t, r)
      BY <3>1, <3>2 DEF Seeded
    <3>4. ExistsForFk(d)
      BY <3>1 DEF ExistsForFk
    <3> QED BY <3>3, <3>4 DEF Alive, d
  <2> QED BY <2>2, <2>3
<1> QED BY <1>1, <1>3, <1>4, <1>5

LEMMA RegisterBacked ==
    ASSUME NEW S, NEW o, NEW t, NEW r, NEW c, o.table = t, o.row = r,
           NEW reg, Written(reg, S, t, r, c)
    PROVE  Written(RegisterAfter(reg, o, c), S \cup {o}, t, r, c)
<1>1. CASE o.type \in {"insert", "update"} /\ c \in DOMAIN o.cells
  <2>. DEFINE w == [hlc |-> o.hlc, value |-> o.cells[c]]
  <2>1. w.hlc = o.hlc /\ w.value = o.cells[c]
    OBVIOUS
  <2>2. \A u \in RegisterAfter(reg, o, c) : u \in reg \/ u = w
    BY <1>1 DEF RegisterAfter, WriteCell
  <2> HIDE DEF w
  <2>3. Stems(w, o, t, r, c)
    BY <1>1, <2>1 DEF Stems
  <2> QED BY <2>2, <2>3 DEF Written
<1>2. CASE ~(o.type \in {"insert", "update"} /\ c \in DOMAIN o.cells)
  <2>1. RegisterAfter(reg, o, c) = reg
    BY <1>2 DEF RegisterAfter
  <2> QED BY <2>1 DEF Written
<1> QED BY <1>1, <1>2

LEMMA ApplyBacked ==
    ASSUME NEW x \in Store, NEW S, NEW o \in Op, ~IsClaim(o), Backed(x, S),
           o.type = "insert" => o.hlc \notin x[o.table].members[o.row].removed,
           o.type = "delete" => o.fkTombstone
    PROVE  Backed(ApplyOp(x, o), S \cup {o})
<1>. DEFINE y == ApplyOp(x, o)
            Z == S \cup {o}
<1>1. Applied(y, x, o)
  BY ApplyOpApplies
<1>2. o.table \in Table /\ o.row \in Row
  BY OpFacts
<1>. HIDE DEF y
<1>3. ASSUME NEW t \in Table, NEW r \in Row
      PROVE  /\ Seeded(y[t].members[r], Z, t, r)
             /\ Alive(y[t].members[r], Z, t, r)
             /\ \A c \in Columns[t] : Written(y[t].cells[r][c], Z, t, r, c)
  <2>0. /\ Seeded(x[t].members[r], S, t, r) /\ Alive(x[t].members[r], S, t, r)
        /\ \A c \in Columns[t] : Written(x[t].cells[r][c], S, t, r, c)
    BY DEF Backed
  <2>1. CASE t = o.table /\ r = o.row
    <3>. DEFINE e == x[t].members[r]
    <3>1. e \in Entry
      BY DEF Store, TableState
    <3>2. y[t].members[r] = EntryAfter(e, o)
          /\ \A c \in Columns[t] : y[t].cells[r][c] = RegisterAfter(x[t].cells[r][c], o, c)
      BY <1>1, <2>1 DEF Applied
    <3>3. /\ o.type = "insert" => o.hlc \notin e.removed
      BY <2>1
    <3> HIDE DEF e
    <3>4. Seeded(EntryAfter(e, o), Z, t, r) /\ Alive(EntryAfter(e, o), Z, t, r)
      BY <2>0, <2>1, <3>1, <3>3, EntryBacked DEF e
    <3>5. \A c \in Columns[t] : Written(RegisterAfter(x[t].cells[r][c], o, c), Z, t, r, c)
      BY <2>0, <2>1, RegisterBacked
    <3> QED BY <3>2, <3>4, <3>5
  <2>2. CASE ~(t = o.table /\ r = o.row)
    <3>1. y[t].members[r] = x[t].members[r] /\ y[t].cells[r] = x[t].cells[r]
      BY <1>1, <2>2 DEF Applied
    <3>2. ~Creates(o, t, r)
      BY <2>2 DEF Creates
    <3> QED BY <2>0, <3>1, <3>2 DEF Seeded, Alive, Written
  <2> QED BY <2>1, <2>2
<1> QED BY <1>3 DEF Backed, y, Z

\* The tokens of the inserts still to come are not yet removed.
Unspent(x, v, k, n) ==
    \A j \in (k + 1)..n :
        v[j].type = "insert" => v[j].hlc \notin x[v[j].table].members[v[j].row].removed

\* x goes from one store to another through the n operations of v.
Replays(x, v, n) ==
    /\ \A k \in 0..n : x[k] \in Store
    /\ \A k \in 1..n : x[k] = ApplyOp(x[k - 1], v[k])

UpTo(S, v, k) == S \cup {v[i] : i \in 1..k}

\* Operations v that can follow operations S: no token comes twice, unless
\* nothing is deleted meanwhile, and deletes leave tombstones.
Follow(v, n, S) ==
    /\ \A i \in 1..n : v[i] \in Op /\ ~IsClaim(v[i])
    /\ \A i \in 1..n : v[i].type = "delete" => v[i].fkTombstone
    /\ \A j \in 1..n : \A a \in S :
          v[j].type = "insert" /\ a.type = "insert" => a.hlc # v[j].hlc
    /\ \/ \A i \in 1..n : v[i].type # "delete"
       \/ \A i, j \in 1..n :
             i < j /\ v[i].type = "insert" /\ v[j].type = "insert" => v[i].hlc # v[j].hlc

LEMMA ReplaysBacked ==
    ASSUME NEW n \in Nat, NEW v, NEW x, NEW S,
           Replays(x, v, n), Backed(x[0], S), Follow(v, n, S)
    PROVE  Backed(x[n], UpTo(S, v, n))
<1>. DEFINE K == {k \in 0..n : Backed(x[k], UpTo(S, v, k)) /\ Unspent(x[k], v, k, n)}
<1>1. 0 \in K
  <2>1. UpTo(S, v, 0) = S
    BY DEF UpTo
  <2>2. ASSUME NEW j \in (0 + 1)..n, v[j].type = "insert"
        PROVE  v[j].hlc \notin x[0][v[j].table].members[v[j].row].removed
    <3>. DEFINE e == x[0][v[j].table].members[v[j].row]
    <3>1. j \in 1..n
      OBVIOUS
    <3>2. v[j].table \in Table /\ v[j].row \in Row
      BY <3>1, OpFacts DEF Follow
    <3>3. Seeded(e, S, v[j].table, v[j].row)
      BY <3>2 DEF Backed
    <3>4. e \in Entry
      <4>1. x[0] \in Store
        BY DEF Replays
      <4> QED BY <3>2, <4>1 DEF Store, TableState
    <3> HIDE DEF e
    <3>5. e.removed \subseteq e.live
      BY <3>4 DEF Entry
    <3>6. v[j].hlc \notin e.live
      BY <2>2, <3>1, <3>3 DEF Seeded, Creates, Follow
    <3> QED BY <3>5, <3>6 DEF e
  <2>3. 0 \in 0..n
    OBVIOUS
  <2> QED BY <2>1, <2>2, <2>3 DEF Unspent
<1>2. ASSUME NEW k \in 1..n, k - 1 \in K PROVE k \in K
  <2>. DEFINE y == x[k - 1]
              z == x[k]
              o == v[k]
              Z == UpTo(S, v, k - 1)
  <2>1. k \in 0..n /\ k - 1 \in 0..n
    OBVIOUS
  <2>2. y \in Store /\ z = ApplyOp(y, o) /\ Backed(y, Z) /\ Unspent(y, v, k - 1, n)
    BY <1>2, <2>1 DEF Replays
  <2>3. o \in Op /\ ~IsClaim(o) /\ (o.type = "delete" => o.fkTombstone)
    BY DEF Follow
  <2>4. o.type = "insert" => o.hlc \notin y[o.table].members[o.row].removed
    <3>1. k \in ((k - 1) + 1)..n
      OBVIOUS
    <3> HIDE DEF y
    <3> QED BY <2>2, <3>1 DEF Unspent
  <2>5. UpTo(S, v, k) = Z \cup {o}
    <3>1. \A i \in Int : i \in 1..k <=> i = k \/ i \in 1..(k - 1)
      OBVIOUS
    <3> QED BY <3>1 DEF UpTo
  <2>6. \A a \in Z : a \in S \/ \E i \in 1..(k - 1) : a = v[i]
    BY DEF UpTo
  <2>. HIDE DEF y, z, o, Z
  <2>7. Backed(z, Z \cup {o})
    BY <2>2, <2>3, <2>4, ApplyBacked
  <2>8. ASSUME NEW j \in (k + 1)..n, v[j].type = "insert"
        PROVE  v[j].hlc \notin z[v[j].table].members[v[j].row].removed
    <3>. DEFINE t == v[j].table
                r == v[j].row
                e == y[t].members[r]
                d == z[t].members[r]
    <3>1. j \in 1..n /\ j \in ((k - 1) + 1)..n /\ j > k
      OBVIOUS
    <3>2. t \in Table /\ r \in Row
      BY <3>1, OpFacts DEF Follow
    <3>3. v[j].hlc \notin e.removed
      BY <2>2, <2>8, <3>1 DEF Unspent
    <3>4. Applied(z, y, o)
      BY <2>2, <2>3, ApplyOpApplies
    <3>5. e \in Entry
      BY <2>2, <3>2 DEF Store, TableState
    <3>6. Seeded(e, Z, t, r)
      BY <2>2, <3>2 DEF Backed
    <3>. HIDE DEF t, r
    <3>7. d = e \/ d = EntryAfter(e, o)
      BY <3>2, <3>4 DEF Applied
    <3>8. v[j].hlc \notin e.live \/ o.type # "delete"
      <4>1. SUFFICES ASSUME v[j].hlc \in e.live, o.type = "delete" PROVE FALSE
        OBVIOUS
      <4>2. PICK a \in Z : a.type = "insert" /\ a.hlc = v[j].hlc
        BY <3>6, <4>1 DEF Seeded, Creates
      <4>3. CASE a \in S
        BY <2>8, <3>1, <4>2, <4>3 DEF Follow
      <4>4. ASSUME NEW i \in 1..(k - 1), a = v[i] PROVE FALSE
        <5>1. i \in 1..n /\ i < j
          BY <3>1
        <5>2. \E m \in 1..n : v[m].type = "delete"
          BY <4>1 DEF o
        <5>3. v[i].type = "insert" /\ v[i].hlc = v[j].hlc
          BY <4>2, <4>4
        <5>4. \A l, m \in 1..n : l < m /\ v[l].type = "insert" /\ v[m].type = "insert"
                                => v[l].hlc # v[m].hlc
          BY <5>2 DEF Follow
        <5> QED BY <2>8, <3>1, <5>1, <5>3, <5>4
      <4> QED BY <2>6, <4>3, <4>4
    <3>. HIDE DEF e, d
    <3>9. \A h \in d.removed : h \in e.removed \/ (h \in e.live /\ o.type = "delete")
      <4>1. o.type \in {"insert", "update", "delete"}
        BY <2>3, OpFacts
      <4>2. e \in [live : SUBSET Times, removed : SUBSET Times, tombstone : SUBSET Times]
        BY <3>5 DEF Entry
      <4>3. CASE d = e
        BY <4>3
      <4>4. CASE o.type = "insert" /\ d = EntryAfter(e, o)
        BY <4>2, <4>4 DEF EntryAfter, AddToken
      <4>5. CASE o.type = "update" /\ d = EntryAfter(e, o)
        BY <4>5 DEF EntryAfter
      <4>6. CASE o.type = "delete" /\ d = EntryAfter(e, o)
        <5>1. d = RemoveTokens(e, o.hlc, o.fkTombstone)
          BY <4>6 DEF EntryAfter
        <5> QED BY <4>2, <4>6, <5>1 DEF RemoveTokens
      <4> QED BY <3>7, <4>1, <4>3, <4>4, <4>5, <4>6
    <3> QED BY <3>3, <3>8, <3>9 DEF d, t, r
  <2>9. Unspent(z, v, k, n)
    BY <2>8 DEF Unspent
  <2> QED BY <2>1, <2>5, <2>7, <2>9 DEF z
<1>3. n \in K
  <2>1. 0..n \subseteq K
    <3> HIDE DEF K
    <3> QED BY <1>1, <1>2, Induction
  <2>2. n \in 0..n
    OBVIOUS
  <2> HIDE DEF K
  <2> QED BY <2>1, <2>2
<1> QED BY <1>3
LEMMA UpToAll ==
    ASSUME NEW S, NEW v, NEW n, DOMAIN v = 1..n
    PROVE  UpTo(S, v, n) = S \cup ToSet(v)
<1>1. \A x : x \in {v[i] : i \in 1..n} <=> x \in {v[i] : i \in DOMAIN v}
  OBVIOUS
<1>2. \A x : x \in UpTo(S, v, n) <=> x \in S \/ x \in {v[i] : i \in 1..n}
  BY DEF UpTo
<1> QED BY <1>1, <1>2 DEF ToSet

\* Claims change no row.
LEMMA BackedClaims ==
    ASSUME NEW x, NEW S, NEW Z, Backed(x, S), S \subseteq Z, \A o \in Z \ S : IsClaim(o)
    PROVE  Backed(x, Z)
<1>1. \A o \in Z : \A t, r : Creates(o, t, r) => o \in S
  BY DEF Creates, IsClaim
<1>2. ASSUME NEW t \in Table, NEW r \in Row
      PROVE  /\ Seeded(x[t].members[r], Z, t, r)
             /\ Alive(x[t].members[r], Z, t, r)
             /\ \A c \in Columns[t] : Written(x[t].cells[r][c], Z, t, r, c)
  <2>1. /\ Seeded(x[t].members[r], S, t, r) /\ Alive(x[t].members[r], S, t, r)
        /\ \A c \in Columns[t] : Written(x[t].cells[r][c], S, t, r, c)
    BY DEF Backed
  <2> QED BY <1>1, <2>1 DEF Seeded, Alive, Written
<1> QED BY <1>2 DEF Backed

LEMMA EmptyBacked == Backed(EmptyStore, {})
BY DEF Backed, EmptyStore, EmptyTable, Absent, Seeded, Alive, Written

\* The operations on rows of a replay.
LEMMA ReplayBacked ==
    ASSUME NEW v, Len(v) \in Nat, DOMAIN v = 1..Len(v), Follow(v, Len(v), {})
    PROVE  Backed(FoldLeft(ApplyOp, EmptyStore, v), ToSet(v))
<1>. DEFINE n == Len(v)
            y == FoldLeft(ApplyOp, EmptyStore, v)
            H == [i \in 1..n |-> [x \in Store |-> ApplyOp(x, v[i])]]
<1>1. \A x \in Store : \A i \in 1..n : ApplyOp(x, v[i]) \in Store
  BY ApplyOpFacts DEF Follow, Sets
<1>2. EndsRun(y, n, Store, EmptyStore, H)
  <2> HIDE DEF n
  <2> QED BY <1>1, EmptyStoreFacts, ApplyRun DEF n
<1>3. PICK x : IsRun(x, n, Store, EmptyStore, H) /\ x[n] = y
  BY <1>2 DEF EndsRun
<1>4. x[0] = EmptyStore /\ \A k \in 0..n : x[k] \in Store
  BY <1>3 DEF IsRun
<1>5. ASSUME NEW k \in 1..n PROVE x[k] = ApplyOp(x[k - 1], v[k])
  <2>1. k - 1 \in 0..n
    OBVIOUS
  <2>2. x[k] = H[k][x[k - 1]]
    BY <1>3 DEF IsRun
  <2>3. x[k - 1] \in Store
    BY <1>4, <2>1
  <2> QED BY <2>2, <2>3
<1>6. Replays(x, v, n)
  BY <1>4, <1>5 DEF Replays
<1>. HIDE DEF y, H
<1>7. Backed(x[n], UpTo({}, v, n))
  BY <1>4, <1>6, EmptyBacked, ReplaysBacked
<1>8. UpTo({}, v, n) = ToSet(v)
  <2>. DEFINE Z == ToSet(v)
  <2>1. UpTo({}, v, n) = {} \cup Z
    BY UpToAll
  <2> HIDE DEF Z
  <2>2. {} \cup Z = Z
    OBVIOUS
  <2> QED BY <2>1, <2>2 DEF Z
<1> QED BY <1>3, <1>7, <1>8 DEF y

\* Where the policy does not cascade, a statement applies its operations on rows
\* as a replay does.
LEMMA PerformedRun ==
    ASSUME NEW p, policy[p] # "cascade", NEW s \in Store, NEW ops, NEW v, v = RowOps(ops),
           Len(v) \in Nat, DOMAIN v = 1..Len(v),
           \A i \in 1..Len(v) : v[i] \in Op /\ ~IsClaim(v[i])
    PROVE  \E x : Replays(x, v, Len(v)) /\ x[0] = s /\ x[Len(v)] = Performed(p, s, ops)
<1>. DEFINE n == Len(v)
            y == FoldLeft(LAMBDA x, o : ApplyLocally(p, x, o), s, v)
            H == [i \in 1..n |-> [x \in Store |-> ApplyLocally(p, x, v[i])]]
<1>1. \A x \in Store : \A i \in 1..n : /\ ApplyLocally(p, x, v[i]) = ApplyOp(x, v[i])
                                       /\ ApplyLocally(p, x, v[i]) \in Store
  BY ApplyOpFacts DEF Sets, ApplyLocally
<1>2. EndsRun(y, n, Store, s, H)
  <2>1. n \in Nat /\ DOMAIN v = 1..n
    OBVIOUS
  <2>2. \A x \in Store : \A i \in 1..n : ApplyLocally(p, x, v[i]) \in Store
    BY <1>1
  <2> HIDE DEF n
  <2> QED BY <2>1, <2>2, ApplyLocallyRun
<1>3. PICK x : IsRun(x, n, Store, s, H) /\ x[n] = y
  BY <1>2 DEF EndsRun
<1>4. x[0] = s /\ \A k \in 0..n : x[k] \in Store
  BY <1>3 DEF IsRun
<1>5. ASSUME NEW k \in 1..n PROVE x[k] = ApplyOp(x[k - 1], v[k])
  <2>1. k - 1 \in 0..n
    OBVIOUS
  <2>2. x[k] = H[k][x[k - 1]]
    BY <1>3 DEF IsRun
  <2>3. x[k - 1] \in Store
    BY <1>4, <2>1
  <2> QED BY <1>1, <2>2, <2>3
<1>6. Replays(x, v, n)
  BY <1>4, <1>5 DEF Replays
<1>7. Performed(p, s, ops) = y
  BY DEF Performed
<1>. HIDE DEF y, H
<1> QED BY <1>3, <1>4, <1>6, <1>7

\* The operations on rows of a statement where no policy cascades.
LEMMA PerformedBacked ==
    ASSUME NEW p, policy[p] # "cascade", NEW s \in Store, NEW S, NEW ops, NEW v, v = RowOps(ops),
           Len(v) \in Nat, DOMAIN v = 1..Len(v), Follow(v, Len(v), S), Backed(s, S)
    PROVE  Backed(Performed(p, s, ops), S \cup ToSet(v))
<1>. DEFINE n == Len(v)
<1>1. PICK x : Replays(x, v, n) /\ x[0] = s /\ x[n] = Performed(p, s, ops)
  BY PerformedRun DEF Follow
<1>2. Backed(x[n], UpTo(S, v, n))
  BY <1>1, ReplaysBacked
<1>3. UpTo(S, v, n) = S \cup ToSet(v)
  BY UpToAll
<1> QED BY <1>1, <1>2, <1>3

\* A null write is the arbiter's.
LEMMA NullLoserBacked ==
    ASSUME NEW x \in Store, NEW S, Backed(x, S), NEW c \in ClaimOp
    PROVE  Backed(NullLoser(x, c), S)
<1>. DEFINE nulls == [k \in ColumnsOf(c) |-> Null]
            h == NullStamp(c)
            y == NullLoser(x, c)
            tab == WriteCells(x[c.table], c.row, h, nulls)
<1>1. c.table \in Table /\ c.row \in Row
  BY DEF ClaimOp
<1>2. x[c.table] \in TableState(c.table)
  BY <1>1 DEF Store
<1>3. h.peer = Arbiter
  <2>. DEFINE g == c.hlc
              l == g.logical + 1
  <2>1. g \in Stamps
    BY DEF ClaimOp
  <2>2. h = [g EXCEPT !.logical = l, !.peer = Arbiter]
    BY DEF NullStamp
  <2> HIDE DEF g, l, h
  <2> QED BY <2>1, <2>2 DEF Stamps
<1>4. /\ tab.members = x[c.table].members
      /\ \A k \in Columns[c.table] :
            tab.cells[c.row][k] = IF k \in DOMAIN nulls
                                  THEN WriteCell(x[c.table].cells[c.row][k], h, nulls[k])
                                  ELSE x[c.table].cells[c.row][k]
      /\ \A u \in Row \ {c.row} : tab.cells[u] = x[c.table].cells[u]
  <2> HIDE DEF nulls, h
  <2> QED BY <1>1, <1>2, WriteCellsShape
<1>5. y = x \/ y = [x EXCEPT ![c.table] = tab]
  BY DEF NullLoser
<1>6. CASE y = x
  BY <1>6
<1>7. CASE y = [x EXCEPT ![c.table] = tab]
  <2>1. y[c.table] = tab /\ \A t \in Table \ {c.table} : y[t] = x[t]
    BY <1>1, <1>7 DEF Store
  <2> HIDE DEF y, tab, nulls
  <2>2. ASSUME NEW t \in Table, NEW r \in Row
        PROVE  /\ Seeded(y[t].members[r], S, t, r)
               /\ Alive(y[t].members[r], S, t, r)
               /\ \A k \in Columns[t] : Written(y[t].cells[r][k], S, t, r, k)
    <3>1. /\ Seeded(x[t].members[r], S, t, r) /\ Alive(x[t].members[r], S, t, r)
          /\ \A k \in Columns[t] : Written(x[t].cells[r][k], S, t, r, k)
      BY DEF Backed
    <3>2. y[t].members[r] = x[t].members[r]
      BY <1>4, <2>1
    <3>3. ASSUME NEW k \in Columns[t]
          PROVE  \A w \in y[t].cells[r][k] : w \in x[t].cells[r][k] \/ w.hlc.peer = Arbiter
      <4>1. CASE t = c.table /\ r = c.row
        <5>1. CASE k \in DOMAIN nulls
          <6>1. y[t].cells[r][k] = WriteCell(x[t].cells[r][k], h, nulls[k])
            BY <1>4, <2>1, <4>1, <5>1
          <6> HIDE DEF h
          <6> QED BY <1>3, <6>1 DEF WriteCell
        <5>2. CASE k \notin DOMAIN nulls
          BY <1>4, <2>1, <4>1, <5>2
        <5> QED BY <5>1, <5>2
      <4>2. CASE ~(t = c.table /\ r = c.row)
        BY <1>4, <2>1, <4>2
      <4> QED BY <4>1, <4>2
    <3> QED BY <3>1, <3>2, <3>3 DEF Written
  <2>3. Backed(y, S)
    BY <2>2 DEF Backed
  <2> QED BY <2>3 DEF y
<1> QED BY <1>5, <1>6, <1>7
LEMMA NullLosersBacked ==
    ASSUME NEW s \in Store, NEW S, Backed(s, S), NEW claimed \in Seq(ClaimOp)
    PROVE  Backed(NullLosers(s, claimed), S)
<1>. DEFINE at == {i \in DOMAIN claimed : Lost(claimed, claimed[i])}
            losers == Picked(claimed, at)
            l == Sorted(losers, NullOrder)
            n == Len(l)
            T == {x \in Store : Backed(x, S)}
            v == FoldLeft(NullLoser, s, l)
            H == [i \in 1..n |-> [x \in T |-> NullLoser(x, l[i])]]
<1>1. losers \in Seq(ClaimOp)
  <2> HIDE DEF at
  <2> QED BY PickedFacts
<1>2. NullLosers(s, claimed) = v
  BY DEF NullLosers
<1>. HIDE DEF losers
<1>3. l \in Seq(ClaimOp)
  BY <1>1, NullSorted
<1>. HIDE DEF l
<1>4. n \in Nat /\ DOMAIN l = 1..n /\ \A i \in 1..n : l[i] \in ClaimOp
  BY <1>3
<1>5. \A y \in T : \A i \in 1..n : NullLoser(y, l[i]) \in T
  <2>1. ASSUME NEW y \in T, NEW i \in 1..n PROVE NullLoser(y, l[i]) \in T
    <3>1. NullLoser(y, l[i]) \in Store
      BY <1>4, NullLoserFacts DEF Sets
    <3>2. Backed(NullLoser(y, l[i]), S)
      BY <1>4, NullLoserBacked
    <3> QED BY <3>1, <3>2
  <2> QED BY <2>1
<1>6. EndsRun(v, n, T, s, H)
  <2>1. s \in T
    OBVIOUS
  <2> HIDE DEF n, T
  <2> QED BY <1>4, <1>5, <2>1, NullRun
<1>. HIDE DEF n, H, v, T
<1>7. v \in T
  BY <1>4, <1>6, RunEndsIn
<1> QED BY <1>2, <1>7 DEF T

\* A rebuild where no policy cascades and all deletes leave tombstones.
LEMMA RebuildBacked ==
    ASSUME NEW l, Untied(l), \A o \in ToSet(l) : o.type = "delete" => o.fkTombstone
    PROVE  Backed(Rebuild(l, "tombstone").store, ToSet(l))
<1>. DEFINE O == ToSet(l)
            ops == Sorted(l, ReplayOrder)
            v == RowOps(ops)
            n == Len(v)
            claimed == FoldLeft(Reserve, <<>>, ClaimOps(ops))
            rows == FoldLeft(ApplyOp, EmptyStore, v)
<1>1. ops \in Seq(O) /\ ToSet(ops) = O /\ InOrderOf(ReplayPairs(O), ops)
  BY LogSorted
<1>2. Rebuild(l, "tombstone").store = NullLosers(rows, claimed)
  BY DEF Rebuild
<1>3. l \in Seq(Op) /\ O \subseteq Op /\ \A a, b \in O : Tie(a, b) => a = b
  <2>1. l \in Seq(Op)
    BY DEF Untied
  <2>2. O \subseteq Op
    BY <2>1 DEF ToSet
  <2> QED BY <2>1, <2>2 DEF Untied
<1>4. \A o \in O : o.type = "delete" => o.fkTombstone
  OBVIOUS
<1>. HIDE DEF O, ops
<1>5. Distinct(ops)
  <2>1. DOMAIN ops = 1..Len(ops) /\ Len(ops) \in Nat /\ \A i \in DOMAIN ops : ops[i] \in O
    BY <1>1
  <2>2. ASSUME NEW i \in DOMAIN ops, NEW j \in DOMAIN ops, i < j PROVE ops[i] # ops[j]
    <3>1. ReplayOrder(ops[i], ops[j])
      BY <1>1, <2>2 DEF InOrderOf, ReplayPairs
    <3>2. ops[i] \in Op
      BY <1>3, <2>1
    <3>3. ~ReplayOrder(ops[i], ops[i])
      <4>1. ops[i].hlc \in Stamps
        BY <3>2 DEF Op, RowOp, ClaimOp
      <4>2. ~Before(ops[i].hlc, ops[i].hlc)
        <5>. DEFINE h == ops[i].hlc
        <5>1. h.wall \in Nat /\ h.logical \in Nat /\ h.peer \in Nat
          BY <4>1, PeersAssumption DEF Stamps
        <5> HIDE DEF h
        <5>2. ~Before(h, h)
          BY <5>1 DEF Before, Earlier
        <5> QED BY <5>2 DEF h
      <4>3. IsClaim(ops[i]) => ops[i].constraint \in Nat
        BY <3>2 DEF Op, RowOp, ClaimOp, IsClaim
      <4>4. Tier(ops[i]) \in Nat
        BY DEF Tier
      <4> QED BY <4>2, <4>3, <4>4 DEF ReplayOrder
    <3> QED BY <3>1, <3>3
  <2>3. \A i, j \in DOMAIN ops : i = j \/ i < j \/ j < i
    BY <2>1
  <2> QED BY <2>2, <2>3 DEF Distinct
<1>6. /\ v \in Seq(O) /\ Distinct(v)
      /\ ToSet(v) = {o \in O : ~IsClaim(o)}
  <2>. DEFINE at == {i \in DOMAIN ops : ~IsClaim(ops[i])}
  <2>1. Picked(ops, at) \in Seq(O) /\ Distinct(Picked(ops, at))
    <3> HIDE DEF at
    <3> QED BY <1>1, <1>5, PickedFacts
  <2>2. ToSet(v) = {o \in O : ~IsClaim(o)}
    BY <1>1, SplitFacts
  <2> QED BY <2>1, <2>2 DEF RowOps
<1>. HIDE DEF v
<1>7. n \in Nat /\ DOMAIN v = 1..n /\ \A i \in 1..n : v[i] \in {o \in O : ~IsClaim(o)}
  <2>1. n \in Nat /\ DOMAIN v = 1..n
    BY <1>6
  <2>2. \A i \in 1..n : v[i] \in ToSet(v)
    BY <2>1 DEF ToSet
  <2> QED BY <1>6, <2>1, <2>2
<1>8. Follow(v, n, {})
  <2>1. ASSUME NEW i \in 1..n, NEW j \in 1..n, i < j PROVE v[i].hlc # v[j].hlc
    <3>1. SUFFICES ASSUME v[i].hlc = v[j].hlc PROVE FALSE
      OBVIOUS
    <3>2. Tie(v[i], v[j])
      BY <1>7, <3>1 DEF Tie, Tier
    <3>3. v[i] = v[j]
      BY <1>3, <1>7, <3>2
    <3>4. i \in DOMAIN v /\ j \in DOMAIN v /\ i # j
      BY <1>7, <2>1
    <3> QED BY <1>6, <3>3, <3>4 DEF Distinct
  <2> QED BY <1>3, <1>4, <1>7, <2>1 DEF Follow
<1>9. Backed(rows, ToSet(v))
  <2> HIDE DEF rows
  <2> QED BY <1>7, <1>8, ReplayBacked DEF rows
<1>10. Backed(rows, O)
  <2>1. ToSet(v) \subseteq O /\ \A o \in O \ ToSet(v) : IsClaim(o)
    BY <1>6
  <2> HIDE DEF rows
  <2> QED BY <1>9, <2>1, BackedClaims
<1>11. rows \in Store
  <2>1. v \in Seq({o \in Op : ~IsClaim(o)})
    <3>. DEFINE Z == {o \in Op : ~IsClaim(o)}
    <3>1. v = [i \in 1..n |-> v[i]]
      BY <1>6
    <3>2. \A i \in 1..n : v[i] \in Z
      BY <1>3, <1>7
    <3> HIDE DEF Z
    <3>3. v \in [1..n -> Z]
      BY <3>1, <3>2
    <3> QED BY <1>7, <3>3 DEF Z
  <2> QED BY <2>1, ReplayFacts
<1>12. claimed \in Seq(ClaimOp)
  <2>. DEFINE Z == ClaimsOf(O)
              c == ClaimOps(ops)
  <2>1. c \in Seq(Z)
    BY <1>1, SplitFacts
  <2>2. Z \subseteq ClaimOp
    BY <1>3, OpFacts DEF ClaimsOf
  <2> HIDE DEF Z, c
  <2>3. <<>> \in Seq(Z)
    OBVIOUS
  <2>4. FoldLeft(Reserve, <<>>, c) \in Seq(Z)
    BY <2>1, <2>3, ClaimsFacts
  <2>5. FoldLeft(Reserve, <<>>, c) \in Seq(ClaimOp)
    BY <2>2, <2>4, SeqOfSubset
  <2> QED BY <2>5 DEF c
<1>. HIDE DEF rows, claimed
<1>13. Backed(NullLosers(rows, claimed), O)
  BY <1>10, <1>11, <1>12, NullLosersBacked
<1> QED BY <1>2, <1>13 DEF O
-----------------------------------------------------------------------------
(* References among peers with the tombstone policy.                       *)

\* Insert o refers to rows that S inserts.
Grounded(o, S) ==
    \A i \in DOMAIN ForeignKeys :
        LET fk == ForeignKeys[i]
        IN  fk.child = o.table /\ o.cells[fk.col] # Null =>
                /\ o.cells[fk.col] \in Row
                /\ \E b \in S : Creates(b, fk.parent, o.cells[fk.col])

\* The parents that S refers to are among S, and stay known.
Known(S) ==
    \A o \in S : /\ o.type = "delete" => o.fkTombstone
                 /\ o.type = "insert" => Grounded(o, S)

AllTombstone == policy = [p \in Peer |-> "tombstone"]

ParentInv ==
    AllTombstone => \A p \in Peer : Known(Ops(p)) /\ Backed(store[p], Ops(p))

LEMMA GroundedIn ==
    ASSUME NEW o, NEW S, NEW Z, S \subseteq Z, Grounded(o, S)
    PROVE  Grounded(o, Z)
BY DEF Grounded

LEMMA KnownUnion ==
    ASSUME NEW A, NEW B, Known(A), Known(B)
    PROVE  Known(A \cup B)
<1>1. A \subseteq A \cup B /\ B \subseteq A \cup B
  OBVIOUS
<1>2. ASSUME NEW o \in A \cup B
      PROVE  /\ o.type = "delete" => o.fkTombstone
             /\ o.type = "insert" => Grounded(o, A \cup B)
  BY <1>1, GroundedIn DEF Known
<1> QED BY <1>2 DEF Known

\* A row that a foreign key may refer to was inserted.
LEMMA ExistsIfInserted ==
    ASSUME NEW e, NEW S, NEW t, NEW r, Seeded(e, S, t, r), ExistsForFk(e)
    PROVE  \E o \in S : Creates(o, t, r)
<1>1. e.live # {}
  BY DEF Seeded, ExistsForFk, IsLive
<1> QED BY <1>1 DEF Seeded

\* A statement of a peer with the tombstone policy, on top of what it has.
LEMMA PerformsKnown ==
    ASSUME NEW p \in Peer, NEW t \in Table, NEW stamps, NEW ops \in Seq(Op),
           Ready(p, t, stamps, ops), policy[p] = "tombstone",
           Known(Ops(p)), Backed(store[p], Ops(p))
    PROVE  Known(Ops(p) \cup ToSet(ops))
<1>. DEFINE S == Ops(p)
            Z == Ops(p) \cup ToSet(ops)
<1>1. PICK deletes \in BOOLEAN : \A o \in ToSet(ops) : Fits(p, t, deletes, o)
  BY DEF Ready
<1>2. \A o \in ToSet(ops) : o.table = t
  BY DEF Ready
<1>3. S \subseteq Z
  OBVIOUS
<1>4. ASSUME NEW o \in ToSet(ops), o.type = "insert" PROVE Grounded(o, S)
  <2>1. ASSUME NEW i \in DOMAIN ForeignKeys, ForeignKeys[i].child = o.table,
               o.cells[ForeignKeys[i].col] # Null
        PROVE  /\ o.cells[ForeignKeys[i].col] \in Row
               /\ \E b \in S : Creates(b, ForeignKeys[i].parent, o.cells[ForeignKeys[i].col])
    <3>. DEFINE q == ForeignKeys[i].parent
                r == o.cells[ForeignKeys[i].col]
                e == store[p][q].members[r]
    <3>1. FkValid(store[p], policy[p], t, o.cells) /\ References(t, o.cells)
      BY <1>1, <1>4 DEF Fits
    <3>2. r \in Row
      BY <1>2, <2>1, <3>1 DEF References
    <3>3. ExistsForFk(e)
      BY <1>2, <2>1, <3>1 DEF FkValid
    <3>4. q \in Table
      BY ForeignKeyFacts
    <3>5. Seeded(e, S, q, r)
      BY <3>2, <3>4 DEF Backed
    <3> HIDE DEF e, S
    <3> QED BY <3>2, <3>3, <3>5, ExistsIfInserted
  <2> QED BY <2>1 DEF Grounded
<1>. HIDE DEF S, Z
<1>5. ASSUME NEW o \in ToSet(ops)
      PROVE  /\ o.type = "delete" => o.fkTombstone
             /\ o.type = "insert" => Grounded(o, Z)
  <2>1. o.type = "delete" => o.fkTombstone
    BY <1>1 DEF Fits
  <2>2. o.type = "insert" => Grounded(o, Z)
    BY <1>3, <1>4, GroundedIn
  <2> QED BY <2>1, <2>2
<1>6. ASSUME NEW o \in S
      PROVE  /\ o.type = "delete" => o.fkTombstone
             /\ o.type = "insert" => Grounded(o, Z)
  BY <1>3, GroundedIn DEF Known, S
<1> QED BY <1>5, <1>6 DEF Known, S, Z

LEMMA PerformsBacked ==
    ASSUME LogInv, NEW p \in Peer, NEW t \in Table, NEW stamps, NEW ops \in Seq(Op),
           Ready(p, t, stamps, ops), policy[p] = "tombstone", store[p] \in Store,
           Backed(store[p], Ops(p))
    PROVE  Backed(Performed(p, store[p], ops), Ops(p) \cup ToSet(ops))
<1>. DEFINE S == Ops(p)
            O == ToSet(ops)
            v == RowOps(ops)
            n == Len(v)
            x == Performed(p, store[p], ops)
<1>1. PICK deletes \in BOOLEAN : \A o \in O : Fits(p, t, deletes, o)
  BY DEF Ready
<1>2. v \in Seq({o \in Op : ~IsClaim(o)}) /\ ToSet(v) = {o \in O : ~IsClaim(o)}
  BY SplitFacts
<1>3. \A a \in S, o \in O : a.hlc # o.hlc
  <2>1. SUFFICES ASSUME NEW a \in S, NEW o \in O, a.hlc = o.hlc PROVE FALSE
    OBVIOUS
  <2>2. PICK m \in Nat \ {0} : Stamped(stamps, p, m, clock[p])
    BY DEF Ready
  <2>3. PICK i \in DOMAIN stamps : o.hlc = stamps[i]
    BY DEF Ready
  <2>4. a.hlc.peer = p /\ Earlier(clock[p], a.hlc)
    BY <2>1, <2>2, <2>3 DEF Stamped
  <2> QED BY <2>4 DEF LogInv, Floor
<1>. HIDE DEF v
<1>4. n \in Nat /\ DOMAIN v = 1..n
  BY <1>2
<1>5. \A i \in 1..n : v[i] \in Op /\ ~IsClaim(v[i]) /\ v[i] \in O
  <2>1. \A i \in 1..n : v[i] \in {o \in Op : ~IsClaim(o)} /\ v[i] \in ToSet(v)
    BY <1>2, <1>4 DEF ToSet
  <2> QED BY <1>2, <2>1
<1>. HIDE DEF S, O, n
<1>6. \A i \in 1..n : /\ v[i].type = "delete" => v[i].fkTombstone
                      /\ deletes = (v[i].type = "delete")
  BY <1>1, <1>5 DEF Fits
<1>7. Follow(v, n, S)
  BY <1>3, <1>5, <1>6 DEF Follow
<1>8. Backed(x, S \cup ToSet(v))
  <2>1. policy[p] # "cascade"
    OBVIOUS
  <2> HIDE DEF x
  <2> QED BY <1>4, <1>7, <2>1, PerformedBacked DEF n, v, S, x
<1>9. /\ S \cup ToSet(v) \subseteq S \cup O
      /\ \A o \in (S \cup O) \ (S \cup ToSet(v)) : IsClaim(o)
  BY <1>2
<1>. HIDE DEF x
<1>10. Backed(x, S \cup O)
  BY <1>8, <1>9, BackedClaims
<1> QED BY <1>10 DEF x, S, O

LEMMA ParentInvInit == Init => ParentInv
<1>. SUFFICES ASSUME Init PROVE ParentInv
  OBVIOUS
<1>1. \A p \in Peer : Ops(p) = {} /\ store[p] = EmptyStore
  BY DEF Init, Ops, ToSet
<1>2. Known({})
  BY DEF Known
<1> QED BY <1>1, <1>2, EmptyBacked DEF ParentInv

LEMMA ParentInvStep ==
    ASSUME LogInv, StoreInv, ParentInv, [Next]_vars
    PROVE  ParentInv'
<1>1. ASSUME NEW q \in Peer, Performs(q) PROVE ParentInv'
  <2>1. PICK t \in Table, stamps \in Seq(Stamps), ops \in Seq(Op) :
            Perform(q, t, stamps, ops) /\ Ready(q, t, stamps, ops)
    BY <1>1 DEF Performs
  <2>. DEFINE x == Performed(q, store[q], ops)
  <2>2. /\ log' = [log EXCEPT ![q] = AppendAll(log[q], ops)]
        /\ store' = [store EXCEPT ![q] = x] /\ policy' = policy
    BY <2>1 DEF Perform, Performed
  <2>3. /\ log[q] \in Seq(Op) /\ Distinct(log[q]) /\ log \in [Peer -> Seq(Op)]
        /\ store \in [Peer -> Store]
    BY DEF LogInv, LogTyped, NoDuplicates, StoreInv, StoreTyped
  <2>4. Ops(q)' = Ops(q) \cup ToSet(ops)
    <3>1. log'[q] = AppendAll(log[q], ops)
      BY <2>2, <2>3
    <3> QED BY <2>3, <3>1, AppendAllFacts DEF Ops
  <2>5. store'[q] = x /\ \A p \in Peer \ {q} : store'[p] = store[p] /\ Ops(p)' = Ops(p)
    BY <2>2, <2>3 DEF Ops
  <2>6. SUFFICES ASSUME AllTombstone, NEW p \in Peer
                 PROVE  Known(Ops(p)') /\ Backed(store'[p], Ops(p)')
    BY <2>2 DEF ParentInv, AllTombstone
  <2>7. \A r \in Peer : Known(Ops(r)) /\ Backed(store[r], Ops(r))
    BY <2>6 DEF ParentInv
  <2>8. policy[q] = "tombstone"
    BY <2>6 DEF AllTombstone
  <2>. HIDE DEF x
  <2>9. CASE p # q
    BY <2>5, <2>7, <2>9
  <2>10. CASE p = q
    <3>1. Known(Ops(q) \cup ToSet(ops))
      BY <2>1, <2>7, <2>8, PerformsKnown
    <3>2. Backed(x, Ops(q) \cup ToSet(ops))
      BY <2>1, <2>3, <2>7, <2>8, PerformsBacked DEF x
    <3> QED BY <2>4, <2>5, <2>10, <3>1, <3>2
  <2> QED BY <2>9, <2>10
<1>2. ASSUME NEW ps, NEW newLog, Rebuilds(ps, newLog) PROVE ParentInv'
  <2>1. /\ RebuildAll(ps, newLog) /\ ps \in SUBSET Peer /\ policy' = policy
        /\ newLog \in [Peer -> Seq(Op)] /\ \A q \in Peer \ ps : newLog[q] = log[q]
        /\ \A q \in Peer : \E r \in Peer : ToSet(newLog[q]) = Ops(q) \cup Ops(r)
    BY <1>2 DEF Rebuilds
  <2>. DEFINE b == [q \in ps |-> Rebuild(newLog[q], policy[q])]
  <2>2. /\ log' = newLog
        /\ store' = [q \in Peer |-> IF q \in ps THEN b[q].store ELSE store[q]]
    BY <2>1 DEF RebuildAll
  <2>3. SUFFICES ASSUME AllTombstone, NEW p \in Peer
                 PROVE  Known(Ops(p)') /\ Backed(store'[p], Ops(p)')
    BY <2>1 DEF ParentInv, AllTombstone
  <2>4. \A r \in Peer : Known(Ops(r)) /\ Backed(store[r], Ops(r))
    BY <2>3 DEF ParentInv
  <2>5. Ops(p)' = ToSet(newLog[p])
    BY <2>2 DEF Ops
  <2>6. Known(ToSet(newLog[p]))
    BY <2>1, <2>4, KnownUnion
  <2>7. CASE p \notin ps
    BY <2>1, <2>2, <2>4, <2>6, <2>7 DEF Ops
  <2>8. CASE p \in ps
    <3>. DEFINE l == newLog[p]
    <3>1. store'[p] = Rebuild(l, "tombstone").store
      BY <2>2, <2>3, <2>8 DEF AllTombstone
    <3>2. Untied(l)
      <4>1. LogInv'
        BY LogInvStep
      <4>2. l \in Seq(Op) /\ Distinct(l) /\ \A u, w \in Ops(p)' : Tie(u, w) => u = w
        BY <2>1, <2>2, <4>1 DEF LogInv, NoDuplicates, NoTies
      <4> QED BY <2>5, <4>2 DEF Untied
    <3>3. \A o \in ToSet(l) : o.type = "delete" => o.fkTombstone
      BY <2>6 DEF Known
    <3> HIDE DEF l
    <3>4. Backed(Rebuild(l, "tombstone").store, ToSet(l))
      BY <3>2, <3>3, RebuildBacked
    <3> QED BY <2>5, <2>6, <3>1, <3>4 DEF l
  <2> QED BY <2>7, <2>8
<1>3. CASE UNCHANGED <<log, store, claims, policy, index>>
  <2>1. /\ policy' = policy /\ \A p \in Peer : Ops(p)' = Ops(p)
        /\ store' = store
    BY <1>3 DEF Ops
  <2>2. AllTombstone' <=> AllTombstone
    BY <2>1 DEF AllTombstone
  <2> QED BY <2>1, <2>2 DEF ParentInv
<1> QED BY <1>1, <1>2, <1>3, StoreSteps

\* Where all peers follow the tombstone policy, tables hold what their logs
\* justify and inserts refer to inserted rows (Engine::execute_with_params,
\* sync_with, rebuild_store).
THEOREM ParentInvariance == Spec => []ParentInv
<1>1. LogInv /\ StoreInv /\ ParentInv /\ [Next]_vars => ParentInv'
  BY ParentInvStep
<1> QED BY <1>1, ParentInvInit, LogInvariance, StoreInvariance, PTL DEF Spec

\* Where all peers follow the tombstone policy no visible row refers, by the
\* cells of an insert, to a row its peer has not heard of (FkResolver): the
\* insert was accepted where its parent was known, every exchange brings both,
\* and neither a delete nor a replay takes the last trace of a parent away.
THEOREM ParentsExist == Spec => []ParentsKnown
<1>1. LogInv /\ ParentInv => ParentsKnown
  <2>. SUFFICES ASSUME LogInv, ParentInv, AllTombstone, NEW p \in Peer,
                       NEW i \in DOMAIN ForeignKeys,
                       NEW r \in VisibleRows(store[p][ForeignKeys[i].child]),
                       NEW w \in Canonical(store[p][ForeignKeys[i].child].cells[r][ForeignKeys[i].col]),
                       w.value # Null,
                       NEW o \in Ops(p), o.type = "insert", o.hlc = w.hlc
                PROVE  ExistsForFk(store[p][ForeignKeys[i].parent].members[w.value])
    BY DEF ParentsKnown, AllTombstone
  <2>. DEFINE fk == ForeignKeys[i]
              S == Ops(p)
  <2>1. /\ fk.child \in Table /\ fk.parent \in Table /\ fk.col \in Columns[fk.child]
        /\ r \in Row /\ w \in store[p][fk.child].cells[r][fk.col]
    BY ForeignKeyFacts DEF VisibleRows, Canonical
  <2>2. Known(S) /\ Backed(store[p], S)
    BY DEF ParentInv
  <2>3. w.hlc.peer # Arbiter
    <3>1. o.hlc \in Stamps
      BY OpsTyped DEF LogInv
    <3> QED BY <3>1, PeersAssumption DEF Stamps
  <2>4. Written(store[p][fk.child].cells[r][fk.col], S, fk.child, r, fk.col)
    BY <2>1, <2>2 DEF Backed
  <2>5. PICK a \in S : Stems(w, a, fk.child, r, fk.col)
    BY <2>1, <2>3, <2>4 DEF Written
  <2>6. a = o
    <3>1. Tie(a, o)
      BY <2>5 DEF Stems, Tie, Tier, IsClaim
    <3> QED BY <3>1 DEF LogInv, NoTies
  <2>7. o.table = fk.child /\ o.cells[fk.col] = w.value
    BY <2>5, <2>6 DEF Stems
  <2>8. w.value \in Row /\ \E b \in S : Creates(b, fk.parent, w.value)
    BY <2>2, <2>7 DEF Known, Grounded
  <2>9. Alive(store[p][fk.parent].members[w.value], S, fk.parent, w.value)
    BY <2>1, <2>2, <2>8 DEF Backed
  <2> QED BY <2>8, <2>9 DEF Alive
<1> QED BY <1>1, LogInvariance, ParentInvariance, PTL

-----------------------------------------------------------------------------
(* Claims and the writes they are for.                                     *)

PairedInv == \A p \in Peer : Paired(Ops(p))

LEMMA PairedUnion ==
    ASSUME NEW A, NEW B, Paired(A), Paired(B)
    PROVE  Paired(A \cup B)
<1>1. ASSUME NEW o \in A \cup B, IsClaim(o)
      PROVE  Sound(o) /\ \E b \in A \cup B : Supports(b, o)
  BY <1>1 DEF Paired
<1>2. ASSUME NEW o \in A \cup B, o.type = "insert" PROVE ClaimsAll(o, A \cup B)
  BY <1>2 DEF Paired, ClaimsAll
<1> QED BY <1>1, <1>2 DEF Paired

LEMMA PairedStep ==
    ASSUME LogInv, PairedInv, [Next]_vars
    PROVE  PairedInv'
<1>1. ASSUME NEW q \in Peer, Performs(q) PROVE PairedInv'
  <2>1. PICK t \in Table, stamps \in Seq(Stamps), ops \in Seq(Op) :
            Perform(q, t, stamps, ops) /\ Ready(q, t, stamps, ops)
    BY <1>1 DEF Performs
  <2>2. log' = [log EXCEPT ![q] = AppendAll(log[q], ops)]
    BY <2>1 DEF Perform
  <2>3. log[q] \in Seq(Op) /\ log \in [Peer -> Seq(Op)]
    BY DEF LogInv, LogTyped
  <2>4. Ops(q)' = Ops(q) \cup ToSet(ops)
    <3>1. log'[q] = AppendAll(log[q], ops)
      BY <2>2, <2>3
    <3> QED BY <2>3, <3>1, AppendAllFacts DEF Ops
  <2>5. \A p \in Peer \ {q} : Ops(p)' = Ops(p)
    BY <2>2, <2>3 DEF Ops
  <2>6. Paired(Ops(q) \cup ToSet(ops))
    BY <2>1, PairedUnion DEF Ready, PairedInv
  <2> QED BY <2>4, <2>5, <2>6 DEF PairedInv
<1>2. ASSUME NEW ps, NEW newLog, Rebuilds(ps, newLog) PROVE PairedInv'
  <2>1. /\ RebuildAll(ps, newLog)
        /\ \A q \in Peer : \E r \in Peer : ToSet(newLog[q]) = Ops(q) \cup Ops(r)
    BY <1>2 DEF Rebuilds
  <2>2. log' = newLog
    BY <2>1 DEF RebuildAll
  <2>3. \A q \in Peer : Paired(ToSet(newLog[q]))
    BY <2>1, PairedUnion DEF PairedInv
  <2> QED BY <2>2, <2>3 DEF PairedInv, Ops
<1>3. CASE UNCHANGED <<log, store, claims, policy, index>>
  <2>1. \A p \in Peer : Ops(p)' = Ops(p)
    BY <1>3 DEF Ops
  <2> QED BY <2>1 DEF PairedInv
<1> QED BY <1>1, <1>2, <1>3, StoreSteps

\* A claim never reaches a peer without the write it is for, nor an insert
\* without its claims (Planner::plan_insert, plan_update; sync_peers).
THEOREM ClaimsPaired == Spec => []PairedInv
<1>1. Init => PairedInv
  <2>1. Init => \A p \in Peer : Ops(p) = {}
    BY DEF Init, Ops, ToSet
  <2>2. Paired({})
    BY DEF Paired
  <2> QED BY <2>1, <2>2 DEF PairedInv
<1>2. LogInv /\ PairedInv /\ [Next]_vars => PairedInv'
  BY PairedStep
<1> QED BY <1>1, <1>2, LogInvariance, PTL DEF Spec

-----------------------------------------------------------------------------
(* The orders of a rebuild.                                                *)

\* Timestamps are strictly and totally ordered, the arbiter's included.
LEMMA BeforeOrders ==
    /\ \A a \in Times : ~Before(a, a)
    /\ \A a, b, c \in Times : Before(a, b) /\ Before(b, c) => Before(a, c)
    /\ \A a, b \in Times : a = b \/ Before(a, b) \/ Before(b, a)
<1>1. ASSUME NEW a \in Times PROVE ~Before(a, a)
  BY DEF Times, Before, Earlier
<1>2. ASSUME NEW a \in Times, NEW b \in Times, NEW c \in Times, Before(a, b), Before(b, c)
      PROVE  Before(a, c)
  BY <1>2 DEF Times, Before, Earlier
<1>3. ASSUME NEW a \in Times, NEW b \in Times PROVE a = b \/ Before(a, b) \/ Before(b, a)
  <2>1. a.wall = b.wall /\ a.logical = b.logical /\ a.peer = b.peer => a = b
    BY DEF Times
  <2> QED BY <2>1 DEF Times, Before, Earlier
<1> QED BY <1>1, <1>2, <1>3

LEMMA StampsAreTimes == Stamps \subseteq Times
BY PeersAssumption DEF Stamps, Times

LEMMA LessTransitive == \A a, b, c \in Nat : a < b /\ b < c => a < c
OBVIOUS

\* The values of claims are strictly and totally ordered.
LEMMA ValuesOrdered ==
    /\ \A v \in Seq(Nat) : ~ValueLess(v, v)
    /\ \A v, w, u \in Seq(Nat) : ValueLess(v, w) /\ ValueLess(w, u) => ValueLess(v, u)
    /\ \A v, w \in Seq(Nat) : v = w \/ ValueLess(v, w) \/ ValueLess(w, v)
<1>0. ASSUME NEW v \in Seq(Nat)
      PROVE  /\ Len(v) \in Nat /\ DOMAIN v = 1..Len(v) /\ v = [i \in 1..Len(v) |-> v[i]]
             /\ \A i \in DOMAIN v : v[i] \in Nat
  OBVIOUS
<1>1. ASSUME NEW v \in Seq(Nat) PROVE ~ValueLess(v, v)
  BY <1>0 DEF ValueLess
<1>2. ASSUME NEW v \in Seq(Nat), NEW w \in Seq(Nat), NEW u \in Seq(Nat),
             ValueLess(v, w), ValueLess(w, u)
      PROVE  ValueLess(v, u)
  <2>1. PICK i \in DOMAIN w : /\ \A m \in 1..(i - 1) : m \in DOMAIN v /\ v[m] = w[m]
                              /\ i \in DOMAIN v => v[i] < w[i]
    BY <1>2 DEF ValueLess
  <2>2. PICK j \in DOMAIN u : /\ \A m \in 1..(j - 1) : m \in DOMAIN w /\ w[m] = u[m]
                              /\ j \in DOMAIN w => w[j] < u[j]
    BY <1>2 DEF ValueLess
  <2>3. i \in Nat \ {0} /\ j \in Nat \ {0} /\ DOMAIN u = 1..Len(u) /\ Len(u) \in Nat
    BY <1>0
  <2>4. CASE i < j
    <3>1. i \in 1..(j - 1) /\ i \in DOMAIN u
      BY <2>3, <2>4
    <3>2. \A m \in 1..(i - 1) : m \in 1..(j - 1)
      BY <2>3, <2>4
    <3>3. \A m \in 1..(i - 1) : m \in DOMAIN v /\ v[m] = u[m]
      BY <2>1, <2>2, <3>2
    <3>4. i \in DOMAIN v => v[i] < u[i]
      BY <2>1, <2>2, <3>1
    <3> QED BY <3>1, <3>3, <3>4 DEF ValueLess
  <2>5. CASE j < i
    <3>1. j \in 1..(i - 1)
      BY <2>3, <2>5
    <3>2. \A m \in 1..(j - 1) : m \in 1..(i - 1)
      BY <2>3, <2>5
    <3>3. \A m \in 1..(j - 1) : m \in DOMAIN v /\ v[m] = u[m]
      BY <2>1, <2>2, <3>2
    <3>4. j \in DOMAIN w
      <4>1. DOMAIN w = 1..Len(w) /\ Len(w) \in Nat
        BY <1>0
      <4> QED BY <2>1, <2>3, <2>5, <4>1
    <3>5. j \in DOMAIN v => v[j] < u[j]
      BY <2>1, <2>2, <3>1, <3>4
    <3> QED BY <3>3, <3>5 DEF ValueLess
  <2>6. CASE i = j
    <3>1. \A m \in 1..(i - 1) : m \in DOMAIN v /\ v[m] = u[m]
      BY <2>1, <2>2, <2>6
    <3>2. ASSUME i \in DOMAIN v PROVE v[i] < u[i]
      <4>1. v[i] \in Nat /\ w[i] \in Nat /\ u[i] \in Nat
        BY <1>0, <2>6, <3>2
      <4>2. v[i] < w[i] /\ w[i] < u[i]
        BY <2>1, <2>2, <2>6, <3>2
      <4> QED BY <4>1, <4>2, LessTransitive
    <3> QED BY <2>6, <3>1, <3>2 DEF ValueLess
  <2> QED BY <2>3, <2>4, <2>5, <2>6
<1>3. ASSUME NEW v \in Seq(Nat), NEW w \in Seq(Nat), v # w
      PROVE  ValueLess(v, w) \/ ValueLess(w, v)
  <2>. DEFINE D == {i \in Nat \ {0} : \/ i \in DOMAIN v /\ i \notin DOMAIN w
                                      \/ i \in DOMAIN w /\ i \notin DOMAIN v
                                      \/ i \in DOMAIN v /\ i \in DOMAIN w /\ v[i] # w[i]}
  <2>0. /\ Len(v) \in Nat /\ DOMAIN v = 1..Len(v) /\ v = [i \in 1..Len(v) |-> v[i]]
        /\ Len(w) \in Nat /\ DOMAIN w = 1..Len(w) /\ w = [i \in 1..Len(w) |-> w[i]]
    BY <1>0
  <2>1. D # {}
    <3>1. SUFFICES ASSUME D = {} PROVE FALSE
      OBVIOUS
    <3>2. \A i \in Nat \ {0} : /\ i \in DOMAIN v <=> i \in DOMAIN w
                               /\ i \in DOMAIN v => v[i] = w[i]
      BY <3>1
    <3>3. Len(v) = Len(w)
      <4>1. ~(Len(v) < Len(w))
        <5>1. Len(w) \in DOMAIN w /\ Len(w) \in Nat \ {0} => Len(w) \in DOMAIN v
          BY <3>2
        <5> QED BY <2>0, <5>1
      <4>2. ~(Len(w) < Len(v))
        <5>1. Len(v) \in DOMAIN v /\ Len(v) \in Nat \ {0} => Len(v) \in DOMAIN w
          BY <3>2
        <5> QED BY <2>0, <5>1
      <4>3. Len(v) \in Nat /\ Len(w) \in Nat
        BY <2>0
      <4> QED BY <4>1, <4>2, <4>3
    <3>4. \A i \in 1..Len(v) : v[i] = w[i]
      BY <2>0, <3>2
    <3> QED BY <1>3, <2>0, <3>3, <3>4
  <2>2. PICK i \in D : \A m \in D : i <= m
    <3>1. D \subseteq Nat
      OBVIOUS
    <3> HIDE DEF D
    <3> QED BY <2>1, <3>1, LeastNat
  <2>3. i \in Nat \ {0} /\ (i \in DOMAIN v \/ i \in DOMAIN w)
    OBVIOUS
  <2>4. ASSUME NEW m \in 1..(i - 1)
        PROVE  m \in DOMAIN v /\ m \in DOMAIN w /\ v[m] = w[m]
    <3>1. m \in Nat \ {0} /\ m < i
      BY <2>3
    <3>2. m \notin D
      BY <2>2, <3>1
    <3>3. m \in DOMAIN v \/ m \in DOMAIN w
      BY <2>0, <2>3, <3>1
    <3> QED BY <3>1, <3>2, <3>3
  <2>5. CASE i \notin DOMAIN v
    BY <2>3, <2>4, <2>5 DEF ValueLess
  <2>6. CASE i \notin DOMAIN w
    BY <2>3, <2>4, <2>6 DEF ValueLess
  <2>7. CASE i \in DOMAIN v /\ i \in DOMAIN w
    <3>1. v[i] # w[i] /\ v[i] \in Nat /\ w[i] \in Nat
      BY <1>0, <2>7
    <3>2. v[i] < w[i] \/ w[i] < v[i]
      BY <3>1
    <3> QED BY <2>4, <2>7, <3>2 DEF ValueLess
  <2> QED BY <2>5, <2>6, <2>7
<1> QED BY <1>1, <1>2, <1>3

\* The order of the null writes, for claims that do not tie.
LEMMA NullOrders ==
    ASSUME NEW O, O \subseteq ClaimOp, \A a, b \in O : Tie(a, b) => a = b
    PROVE  Orders(NullPairs(O), O)
<1>1. \A a \in O : /\ a.hlc \in Times /\ a.value \in Seq(Nat) /\ a.constraint \in Nat
                   /\ IsClaim(a)
  BY StampsAreTimes DEF ClaimOp, IsClaim
<1>2. ASSUME NEW a \in O PROVE ~NullOrder(a, a)
  <2>1. ~ValueLess(a.value, a.value) /\ ~Before(a.hlc, a.hlc) /\ a.constraint \in Nat
    BY <1>1, ValuesOrdered, BeforeOrders
  <2> QED BY <2>1 DEF NullOrder
<1>3. ASSUME NEW a \in O, NEW b \in O, NEW c \in O, NullOrder(a, b), NullOrder(b, c)
      PROVE  NullOrder(a, c)
  <2>1. /\ Before(a.hlc, b.hlc) /\ Before(b.hlc, c.hlc) => Before(a.hlc, c.hlc)
        /\ ValueLess(a.value, b.value) /\ ValueLess(b.value, c.value)
              => ValueLess(a.value, c.value)
    BY <1>1, ValuesOrdered, BeforeOrders
  <2>2. a.constraint \in Nat /\ b.constraint \in Nat /\ c.constraint \in Nat
    BY <1>1
  <2> QED BY <1>3, <2>1, <2>2 DEF NullOrder
<1>4. ASSUME NEW a \in O, NEW b \in O PROVE a = b \/ NullOrder(a, b) \/ NullOrder(b, a)
  <2>1. /\ a.hlc = b.hlc \/ Before(a.hlc, b.hlc) \/ Before(b.hlc, a.hlc)
        /\ a.value = b.value \/ ValueLess(a.value, b.value) \/ ValueLess(b.value, a.value)
        /\ a.constraint \in Nat /\ b.constraint \in Nat
    BY <1>1, ValuesOrdered, BeforeOrders
  <2>2. a.hlc = b.hlc /\ a.constraint = b.constraint => a = b
    <3>1. Tier(a) = Tier(b)
      BY <1>1 DEF Tier
    <3> QED BY <3>1 DEF Tie
  <2> QED BY <2>1, <2>2 DEF NullOrder
<1> QED BY <1>2, <1>3, <1>4 DEF Orders, NullPairs

\* Picking entries keeps their order.
LEMMA PickedInOrder ==
    ASSUME NEW O, NEW R, NEW s \in Seq(O), NEW at, InOrderOf(R, s)
    PROVE  InOrderOf(R, Picked(s, at))
<1>. DEFINE n == Len(s)
            Done(k, m) == /\ m \in Seq(O) /\ InOrderOf(R, m)
                          /\ \A j \in DOMAIN m : \E i \in 1..k : m[j] = s[i]
            K(x) == {k \in 0..n : Done(k, x[k])}
<1>1. n \in Nat /\ DOMAIN s = 1..n /\ \A i \in 1..n : s[i] \in O
  OBVIOUS
<1>2. PICK x : Picks(x, O, s, at) /\ Picked(s, at) = x[n]
  BY PickedRun
<1>3. 0 \in K(x)
  <2>1. x[0] = <<>>
    BY <1>2 DEF Picks
  <2>2. Done(0, <<>>)
    <3>1. <<>> \in Seq(O) /\ DOMAIN <<>> = {}
      OBVIOUS
    <3> QED BY <3>1 DEF InOrderOf
  <2>3. 0 \in 0..n
    BY <1>1
  <2> HIDE DEF Done, n
  <2> QED BY <2>1, <2>2, <2>3
<1>4. ASSUME NEW k \in 1..n, k - 1 \in K(x) PROVE k \in K(x)
  <2>. DEFINE m == x[k - 1]
  <2>1. Done(k - 1, m)
    BY <1>4
  <2>2. k \in 0..n /\ x[k] = IF k \in at THEN Append(m, s[k]) ELSE m
    BY <1>1, <1>2 DEF Picks
  <2>3. \A i \in 1..(k - 1) : i \in 1..k /\ i < k /\ i \in 1..n
    BY <1>1
  <2>. HIDE DEF m
  <2>4. CASE k \notin at
    <3>1. Done(k, m)
      BY <2>1, <2>3
    <3> QED BY <2>2, <2>4, <3>1
  <2>5. CASE k \in at
    <3>. DEFINE y == Append(m, s[k])
    <3>1. /\ y \in Seq(O) /\ Len(m) \in Nat /\ DOMAIN m = 1..Len(m)
          /\ DOMAIN y = 1..(Len(m) + 1) /\ y[Len(m) + 1] = s[k]
          /\ \A i \in 1..Len(m) : y[i] = m[i]
      BY <1>1, <2>1
    <3> HIDE DEF y
    <3>2. \A j \in DOMAIN y : j \in DOMAIN m \/ j = Len(m) + 1
      BY <3>1
    <3>3. k \in 1..k
      OBVIOUS
    <3>4. \A j \in DOMAIN y : \E i \in 1..k : y[j] = s[i]
      BY <2>1, <2>3, <3>1, <3>2, <3>3
    <3>5. ASSUME NEW i \in DOMAIN y, NEW j \in DOMAIN y, i < j PROVE <<y[i], y[j]>> \in R
      <4>1. i \in DOMAIN m
        BY <3>1, <3>5
      <4>2. CASE j \in DOMAIN m
        BY <2>1, <3>1, <3>5, <4>1, <4>2 DEF InOrderOf
      <4>3. CASE j = Len(m) + 1
        <5>1. PICK l \in 1..(k - 1) : m[i] = s[l]
          BY <2>1, <4>1
        <5>2. <<s[l], s[k]>> \in R
          BY <1>1, <2>3 DEF InOrderOf
        <5> QED BY <3>1, <4>1, <4>3, <5>1, <5>2
      <4> QED BY <3>2, <4>2, <4>3
    <3>6. Done(k, y)
      BY <3>1, <3>4, <3>5 DEF InOrderOf
    <3> QED BY <2>2, <2>5, <3>6 DEF y
  <2> QED BY <2>4, <2>5
<1>5. 0..n \subseteq K(x)
  <2> HIDE DEF K, n
  <2> QED BY <1>1, <1>3, <1>4, Induction
<1>6. n \in K(x)
  <2> HIDE DEF K
  <2> QED BY <1>1, <1>5
<1> QED BY <1>2, <1>6

-----------------------------------------------------------------------------
(* What a run of writes leaves of a register.                              *)

\* Any entries of reg have a largest one.
Topped(reg) == \A S \in SUBSET reg : S # {} => Canonical(S) # {}

\* The register g is written with entry e[k] in the steps k in W.
Overwrites(g, n, W, e) ==
    \A k \in 1..n :
        g[k] = IF k \in W
               THEN {f \in g[k - 1] : f.hlc.peer # e[k].hlc.peer} \cup {e[k]}
               ELSE g[k - 1]

\* Register reg is what the first k steps make of register old: every write
\* is there unless a later one is, and old entries of other peers are kept.
Overwritten(reg, old, k, W, e) ==
    /\ \A f \in reg : f \in old \/ \E j \in 1..k : j \in W /\ f = e[j]
    /\ \A i \in 1..k : i \in W => \E j \in 1..k : j \in W /\ i <= j /\ e[j] \in reg
    /\ \A f \in old : (\A j \in 1..k : j \in W => e[j].hlc.peer # f.hlc.peer) => f \in reg
    /\ Topped(reg)

LEMMA ToppedAdds ==
    ASSUME NEW reg, Topped(reg), NEW e, e.hlc \in Times, \A f \in reg : f.hlc \in Times,
           NEW new, new \subseteq reg \cup {e}
    PROVE  Topped(new)
<1>1. SUFFICES ASSUME NEW S \in SUBSET new, S # {} PROVE \E m : m \in Canonical(S)
  BY DEF Topped
<1>2. CASE e \notin S
  <2>1. S \in SUBSET reg
    BY <1>2
  <2> QED BY <1>1, <2>1 DEF Topped
<1>3. CASE S = {e}
  <2>1. ~Before(e.hlc, e.hlc)
    BY BeforeOrders
  <2>2. e \in Canonical(S)
    BY <1>3, <2>1 DEF Canonical
  <2> QED BY <2>2
<1>4. CASE e \in S /\ S # {e}
  <2>. DEFINE Z == S \ {e}
  <2>1. Z \in SUBSET reg /\ Z # {}
    BY <1>4
  <2>2. PICK m : m \in Canonical(Z)
    <3> HIDE DEF Z
    <3> QED BY <2>1 DEF Topped
  <2>3. m \in Z /\ m \in S /\ \A f \in Z : ~Before(m.hlc, f.hlc)
    BY <2>2 DEF Canonical
  <2>4. \A f \in S : f \in Z \/ f = e
    OBVIOUS
  <2>5. m.hlc \in Times /\ \A f \in Z : f.hlc \in Times
    BY <2>1, <2>3
  <2>. HIDE DEF Z
  <2>6. CASE Before(m.hlc, e.hlc)
    <3>1. \A f \in Z : ~Before(e.hlc, f.hlc)
      BY <2>3, <2>5, <2>6, BeforeOrders
    <3>2. ~Before(e.hlc, e.hlc)
      BY BeforeOrders
    <3>3. e \in Canonical(S)
      BY <1>4, <2>4, <3>1, <3>2 DEF Canonical
    <3> QED BY <3>3
  <2>7. CASE ~Before(m.hlc, e.hlc)
    <3>1. m \in Canonical(S)
      BY <2>3, <2>4, <2>7 DEF Canonical
    <3> QED BY <3>1
  <2> QED BY <2>6, <2>7
<1> QED BY <1>2, <1>3, <1>4

LEMMA OverwritesFacts ==
    ASSUME NEW n \in Nat, NEW g, NEW W, NEW e, Overwrites(g, n, W, e), Topped(g[0]),
           \A f \in g[0] : f.hlc \in Times, \A k \in 1..n : k \in W => e[k].hlc \in Times
    PROVE  Overwritten(g[n], g[0], n, W, e)
<1>. DEFINE K == {k \in 0..n : Overwritten(g[k], g[0], k, W, e)}
<1>1. 0 \in K
  <2>1. 0 \in 0..n /\ \A j \in 1..0 : FALSE
    OBVIOUS
  <2>2. Overwritten(g[0], g[0], 0, W, e)
    BY <2>1 DEF Overwritten
  <2> QED BY <2>1, <2>2
<1>2. ASSUME NEW k \in 1..n, k - 1 \in K PROVE k \in K
  <2>. DEFINE a == g[k - 1]
              b == g[k]
              old == g[0]
  <2>1. Overwritten(a, old, k - 1, W, e) /\ k \in 0..n
    BY <1>2
  <2>2. b = IF k \in W THEN {f \in a : f.hlc.peer # e[k].hlc.peer} \cup {e[k]} ELSE a
    BY DEF Overwrites
  <2>3. /\ \A j \in 1..(k - 1) : j \in 1..k /\ j \in 1..n /\ j <= k
        /\ \A j \in 1..k : j = k \/ j \in 1..(k - 1)
        /\ k \in 1..k /\ k <= k
    OBVIOUS
  <2>4. \A f \in old : f.hlc \in Times
    OBVIOUS
  <2>. HIDE DEF a, b, old
  <2>5. CASE k \notin W
    <3>1. \A i \in 1..k : i \in W => i \in 1..(k - 1)
      BY <2>3, <2>5
    <3>2. Overwritten(b, old, k, W, e)
      BY <2>1, <2>2, <2>3, <2>5, <3>1 DEF Overwritten
    <3> QED BY <2>1, <3>2 DEF b, old
  <2>6. CASE k \in W
    <3>1. /\ \A f \in b : f = e[k] \/ f \in a
          /\ e[k] \in b
          /\ \A f \in a : f.hlc.peer # e[k].hlc.peer => f \in b
      BY <2>2, <2>6
    <3>2. \A f \in b : f \in old \/ \E j \in 1..k : j \in W /\ f = e[j]
      BY <2>1, <2>3, <2>6, <3>1 DEF Overwritten
    <3>3. \A i \in 1..k : i \in W => \E j \in 1..k : j \in W /\ i <= j /\ e[j] \in b
      BY <2>3, <2>6, <3>1
    <3>4. ASSUME NEW f \in old, \A j \in 1..k : j \in W => e[j].hlc.peer # f.hlc.peer
          PROVE  f \in b
      <4>1. f \in a
        BY <2>1, <2>3, <3>4 DEF Overwritten
      <4> QED BY <2>3, <2>6, <3>1, <3>4, <4>1
    <3>5. \A f \in a : f.hlc \in Times
      <4>1. \A f \in a : f \in old \/ \E j \in 1..(k - 1) : j \in W /\ f = e[j]
        BY <2>1 DEF Overwritten
      <4> QED BY <2>3, <2>4, <4>1
    <3>6. Topped(b)
      <4>1. b \subseteq a \cup {e[k]} /\ Topped(a) /\ e[k].hlc \in Times
        BY <2>1, <2>6, <3>1 DEF Overwritten
      <4> QED BY <3>5, <4>1, ToppedAdds
    <3>7. Overwritten(b, old, k, W, e)
      BY <3>2, <3>3, <3>4, <3>6 DEF Overwritten
    <3> QED BY <2>1, <3>7 DEF b, old
  <2> QED BY <2>5, <2>6
<1>3. 0..n \subseteq K
  <2> HIDE DEF K
  <2> QED BY <1>1, <1>2, Induction
<1>4. n \in K
  <2>1. n \in 0..n
    OBVIOUS
  <2> HIDE DEF K
  <2> QED BY <1>3, <2>1
<1> QED BY <1>4

\* Operation o writes column c of row r of table t.
Writes(o, t, r, c) ==
    o.type \in {"insert", "update"} /\ o.table = t /\ o.row = r /\ c \in DOMAIN o.cells

\* What a replay of the row operations v leaves of a register.
Replayed(reg, v, t, r, c) ==
    /\ \A f \in reg : \E j \in DOMAIN v : Stems(f, v[j], t, r, c)
    /\ \A i \in DOMAIN v : Writes(v[i], t, r, c) =>
          \E j \in DOMAIN v : i <= j /\ \E f \in reg : Stems(f, v[j], t, r, c)
    /\ Topped(reg)

LEMMA ReplayRun ==
    ASSUME NEW v \in Seq({o \in Op : ~IsClaim(o)})
    PROVE  \E x : /\ Replays(x, v, Len(v)) /\ x[0] = EmptyStore
                  /\ x[Len(v)] = FoldLeft(ApplyOp, EmptyStore, v)
<1>. DEFINE n == Len(v)
            y == FoldLeft(ApplyOp, EmptyStore, v)
            H == [i \in 1..n |-> [x \in Store |-> ApplyOp(x, v[i])]]
<1>0. n \in Nat /\ DOMAIN v = 1..n /\ \A i \in 1..n : v[i] \in Op /\ ~IsClaim(v[i])
  OBVIOUS
<1>1. \A x \in Store : \A i \in 1..n : ApplyOp(x, v[i]) \in Store
  BY <1>0, ApplyOpFacts DEF Sets
<1>2. EndsRun(y, n, Store, EmptyStore, H)
  <2> HIDE DEF n
  <2> QED BY <1>0, <1>1, EmptyStoreFacts, ApplyRun
<1>3. PICK x : IsRun(x, n, Store, EmptyStore, H) /\ x[n] = y
  BY <1>2 DEF EndsRun
<1>4. x[0] = EmptyStore /\ \A k \in 0..n : x[k] \in Store
  BY <1>3 DEF IsRun
<1>5. ASSUME NEW k \in 1..n PROVE x[k] = ApplyOp(x[k - 1], v[k])
  <2>1. k - 1 \in 0..n
    BY <1>0
  <2>2. x[k] = H[k][x[k - 1]]
    BY <1>3 DEF IsRun
  <2>3. x[k - 1] \in Store
    BY <1>4, <2>1
  <2> QED BY <2>2, <2>3
<1>6. Replays(x, v, n)
  BY <1>4, <1>5 DEF Replays
<1>. HIDE DEF y, H
<1> QED BY <1>3, <1>4, <1>6 DEF y

LEMMA ReplayCells ==
    ASSUME NEW v \in Seq({o \in Op : ~IsClaim(o)}), NEW t \in Table, NEW r \in Row,
           NEW c \in Columns[t]
    PROVE  Replayed(FoldLeft(ApplyOp, EmptyStore, v)[t].cells[r][c], v, t, r, c)
<1>. DEFINE n == Len(v)
            W == {k \in 1..n : Writes(v[k], t, r, c)}
            e == [k \in 1..n |-> [hlc |-> v[k].hlc, value |-> v[k].cells[c]]]
<1>0. n \in Nat /\ DOMAIN v = 1..n /\ \A i \in 1..n : v[i] \in Op /\ ~IsClaim(v[i])
  OBVIOUS
<1>1. PICK x : /\ Replays(x, v, n) /\ x[0] = EmptyStore
               /\ x[n] = FoldLeft(ApplyOp, EmptyStore, v)
  BY ReplayRun
<1>. DEFINE g == [k \in 0..n |-> x[k][t].cells[r][c]]
<1>2. ASSUME NEW k \in 1..n
      PROVE  g[k] = IF k \in W
                    THEN {f \in g[k - 1] : f.hlc.peer # e[k].hlc.peer} \cup {e[k]}
                    ELSE g[k - 1]
  <2>. DEFINE a == x[k - 1]
              b == x[k]
              o == v[k]
  <2>1. k - 1 \in 0..n /\ k \in 0..n
    BY <1>0
  <2>2. a \in Store /\ b = ApplyOp(a, o) /\ o \in Op /\ ~IsClaim(o)
    BY <1>0, <1>1, <2>1 DEF Replays
  <2>3. g[k - 1] = a[t].cells[r][c] /\ g[k] = b[t].cells[r][c]
    BY <2>1
  <2>4. e[k].hlc = o.hlc /\ e[k] = [hlc |-> o.hlc, value |-> o.cells[c]]
    OBVIOUS
  <2>5. k \in W <=> Writes(o, t, r, c)
    OBVIOUS
  <2>. HIDE DEF a, b, o, g, e, W
  <2>6. Applied(b, a, o)
    BY <2>2, ApplyOpApplies
  <2>7. CASE Writes(o, t, r, c)
    <3>1. b[t].cells[r][c] = WriteCell(a[t].cells[r][c], o.hlc, o.cells[c])
      BY <2>6, <2>7 DEF Applied, Writes, RegisterAfter
    <3> QED BY <2>3, <2>4, <2>5, <2>7, <3>1 DEF WriteCell
  <2>8. CASE ~Writes(o, t, r, c)
    <3>1. CASE o.table = t /\ o.row = r
      BY <2>3, <2>5, <2>6, <2>8, <3>1 DEF Applied, Writes, RegisterAfter
    <3>2. CASE ~(o.table = t /\ o.row = r)
      BY <2>3, <2>5, <2>6, <2>8, <3>2 DEF Applied
    <3> QED BY <3>1, <3>2
  <2> QED BY <2>7, <2>8
<1>3. g[0] = {} /\ g[n] = FoldLeft(ApplyOp, EmptyStore, v)[t].cells[r][c]
  <2>1. 0 \in 0..n /\ n \in 0..n
    BY <1>0
  <2>2. EmptyStore[t].cells[r][c] = {}
    BY DEF EmptyStore, EmptyTable
  <2> QED BY <1>1, <2>1, <2>2
<1>4. \A k \in 1..n : e[k].hlc \in Times
  BY <1>0, OpFacts
<1>5. \A k \in 1..n : k \in W => Stems(e[k], v[k], t, r, c)
  BY DEF Stems, Writes
<1>6. \A k \in 1..n : Writes(v[k], t, r, c) => k \in W
  OBVIOUS
<1>. HIDE DEF g, e, W
<1>7. Overwrites(g, n, W, e)
  BY <1>2 DEF Overwrites
<1>8. Overwritten(g[n], g[0], n, W, e)
  <2>1. Topped(g[0]) /\ \A f \in g[0] : f.hlc \in Times
    BY <1>3 DEF Topped
  <2>. HIDE DEF n
  <2> QED BY <1>0, <1>4, <1>7, <2>1, OverwritesFacts
<1>9. Replayed(g[n], v, t, r, c)
  <2>1. \A f \in g[n] : \E j \in DOMAIN v : Stems(f, v[j], t, r, c)
    BY <1>0, <1>3, <1>5, <1>8 DEF Overwritten
  <2>2. ASSUME NEW i \in DOMAIN v, Writes(v[i], t, r, c)
        PROVE  \E j \in DOMAIN v : i <= j /\ \E f \in g[n] : Stems(f, v[j], t, r, c)
    <3>1. i \in 1..n /\ i \in W
      BY <1>0, <1>6, <2>2
    <3>2. PICK j \in 1..n : j \in W /\ i <= j /\ e[j] \in g[n]
      BY <1>8, <3>1 DEF Overwritten
    <3> QED BY <1>0, <1>5, <3>2
  <2> QED BY <1>8, <2>1, <2>2 DEF Replayed, Overwritten
<1> QED BY <1>3, <1>9

\* A row that a replay shows was inserted.
LEMMA ReplayRooted ==
    ASSUME NEW v \in Seq({o \in Op : ~IsClaim(o)}), NEW t \in Table, NEW r \in Row,
           FoldLeft(ApplyOp, EmptyStore, v)[t].members[r].live # {}
    PROVE  \E j \in DOMAIN v : Creates(v[j], t, r)
<1>. DEFINE n == Len(v)
            K(x) == {k \in 0..n : x[k][t].members[r].live # {} =>
                                     \E j \in 1..n : Creates(v[j], t, r)}
<1>0. n \in Nat /\ DOMAIN v = 1..n /\ \A i \in 1..n : v[i] \in Op /\ ~IsClaim(v[i])
  OBVIOUS
<1>1. PICK x : /\ Replays(x, v, n) /\ x[0] = EmptyStore
               /\ x[n] = FoldLeft(ApplyOp, EmptyStore, v)
  BY ReplayRun
<1>2. 0 \in K(x)
  <2>1. EmptyStore[t].members[r].live = {} /\ 0 \in 0..n
    BY <1>0 DEF EmptyStore, EmptyTable, Absent
  <2> QED BY <1>1, <2>1
<1>3. ASSUME NEW k \in 1..n, k - 1 \in K(x) PROVE k \in K(x)
  <2>. DEFINE a == x[k - 1]
              b == x[k]
              o == v[k]
  <2>1. k - 1 \in 0..n /\ k \in 0..n
    BY <1>0
  <2>2. a \in Store /\ b = ApplyOp(a, o) /\ o \in Op /\ ~IsClaim(o)
    BY <1>0, <1>1, <2>1 DEF Replays
  <2>3. a[t].members[r].live # {} => \E j \in 1..n : Creates(v[j], t, r)
    BY <1>3
  <2>4. ASSUME a[t].members[r].live = {}, ~Creates(o, t, r)
        PROVE  b[t].members[r].live = {}
    <3>. HIDE DEF a, b, o, n
    <3>1. Applied(b, a, o)
      BY <2>2, ApplyOpApplies
    <3>2. CASE o.table = t /\ o.row = r
      <4>1. b[t].members[r] = EntryAfter(a[t].members[r], o)
        BY <3>1, <3>2 DEF Applied
      <4>2. o.type \in {"update", "delete"}
        BY <2>2, <2>4, <3>2, OpFacts DEF Creates
      <4>3. a[t].members[r] \in Entry
        BY <2>2 DEF Store, TableState
      <4>. DEFINE m == a[t].members[r]
      <4>. HIDE DEF m
      <4>4. m \in Entry /\ m.live = {} /\ b[t].members[r] = EntryAfter(m, o)
        BY <2>4, <4>1, <4>3 DEF m
      <4>5. EntryAfter(m, o).live = {}
        BY <4>2, <4>4 DEF EntryAfter, RemoveTokens, Entry
      <4> QED BY <4>4, <4>5
    <3>3. CASE ~(o.table = t /\ o.row = r)
      BY <2>4, <3>1, <3>3 DEF Applied
    <3> QED BY <3>2, <3>3
  <2>5. b[t].members[r].live # {} => \E j \in 1..n : Creates(v[j], t, r)
    BY <2>3, <2>4
  <2> QED BY <2>1, <2>5
<1>4. 0..n \subseteq K(x)
  <2> HIDE DEF K, n
  <2> QED BY <1>0, <1>2, <1>3, Induction
<1>5. n \in K(x)
  <2>1. n \in 0..n
    BY <1>0
  <2> HIDE DEF K
  <2> QED BY <1>4, <2>1
<1> QED BY <1>0, <1>1, <1>5

\* A null write for claim d hits column c of row r of table t.
Hits(d, t, r, c) == d.table = t /\ d.row = r /\ c \in ColumnsOf(d)

\* Entry f is the null write for claim d.
Strikes(f, d) == f.hlc = NullStamp(d) /\ f.value = Null

\* A null write comes just after the claim it is for.
LEMMA NullStampFacts ==
    ASSUME NEW d \in ClaimOp
    PROVE  /\ NullStamp(d) \in Times /\ NullStamp(d).peer = Arbiter
           /\ Before(d.hlc, NullStamp(d))
<1>. DEFINE g == d.hlc
            l == g.logical + 1
            h == NullStamp(d)
<1>1. g \in Stamps
  BY DEF ClaimOp
<1>2. h = [g EXCEPT !.logical = l, !.peer = Arbiter]
  BY DEF NullStamp
<1>3. g.wall \in Nat /\ g.logical \in Nat /\ l \in Nat /\ g.logical < l
  <2>1. g.wall \in Nat /\ g.logical \in Nat
    <3>. HIDE DEF g
    <3> QED BY <1>1 DEF Stamps
  <2> QED BY <2>1
<1>. HIDE DEF g, l, h
<1>4. h.wall = g.wall /\ h.logical = l /\ h.peer = Arbiter
  BY <1>1, <1>2 DEF Stamps
<1>5. h \in Times
  BY <1>1, <1>2, <1>3, PeersAssumption DEF Stamps, Times
<1>6. Before(g, h)
  BY <1>3, <1>4 DEF Before, Earlier
<1> QED BY <1>4, <1>5, <1>6 DEF g, h

LEMMA NullLoserShape ==
    ASSUME NEW x \in Store, NEW d \in ClaimOp, NEW t \in Table, NEW r \in Row
    PROVE  LET y == NullLoser(x, d)
           IN  /\ y \in Store
               /\ y[t].members = x[t].members
               /\ IsVisible(x[t].members[r]) => \A c \in Columns[t] :
                     y[t].cells[r][c] = IF Hits(d, t, r, c)
                                        THEN WriteCell(x[t].cells[r][c], NullStamp(d), Null)
                                        ELSE x[t].cells[r][c]
<1>. DEFINE nulls == [k \in ColumnsOf(d) |-> Null]
            h == NullStamp(d)
            y == NullLoser(x, d)
            u == d.table
            q == d.row
            tab == WriteCells(x[u], q, h, nulls)
<1>1. u \in Table /\ q \in Row
  BY DEF ClaimOp
<1>2. x[u] \in TableState(u)
  BY <1>1 DEF Store
<1>3. y \in Store
  BY NullLoserFacts DEF Sets
<1>4. /\ tab.members = x[u].members
      /\ \A k \in Columns[u] :
            tab.cells[q][k] = IF k \in DOMAIN nulls
                              THEN WriteCell(x[u].cells[q][k], h, nulls[k])
                              ELSE x[u].cells[q][k]
      /\ \A w \in Row \ {q} : tab.cells[w] = x[u].cells[w]
  <2> HIDE DEF nulls, h, u, q
  <2> QED BY <1>1, <1>2, WriteCellsShape
<1>5. \A k : k \in DOMAIN nulls <=> k \in ColumnsOf(d)
  OBVIOUS
<1>6. \A k \in ColumnsOf(d) : nulls[k] = Null
  OBVIOUS
<1>7. CASE IsVisible(x[u].members[q])
  <2>1. y = [x EXCEPT ![u] = tab]
    BY <1>7 DEF NullLoser
  <2>2. y[u] = tab /\ \A w \in Table \ {u} : y[w] = x[w]
    BY <1>1, <2>1 DEF Store
  <2>. HIDE DEF y, tab, nulls, h
  <2>3. y[t].members = x[t].members
    BY <1>4, <2>2
  <2>4. ASSUME NEW c \in Columns[t]
        PROVE  y[t].cells[r][c] = IF Hits(d, t, r, c) THEN WriteCell(x[t].cells[r][c], h, Null)
                                                      ELSE x[t].cells[r][c]
    <3>1. CASE t = u /\ r = q
      BY <1>4, <1>5, <1>6, <2>2, <3>1 DEF Hits
    <3>2. CASE ~(t = u /\ r = q)
      BY <1>4, <2>2, <3>2 DEF Hits
    <3> QED BY <3>1, <3>2
  <2> QED BY <1>3, <2>3, <2>4 DEF y, h
<1>8. CASE ~IsVisible(x[u].members[q])
  <2>1. y = x
    BY <1>8 DEF NullLoser
  <2>. HIDE DEF y
  <2>2. IsVisible(x[t].members[r]) => \A c : ~Hits(d, t, r, c)
    BY <1>8 DEF Hits
  <2> QED BY <2>1, <2>2 DEF y
<1> QED BY <1>7, <1>8

\* What the null writes for claims l leave of the registers of a visible row.
Nulled(reg, old, l, t, r, c) ==
    /\ \A f \in reg : f \in old \/ \E j \in DOMAIN l : Hits(l[j], t, r, c) /\ Strikes(f, l[j])
    /\ \A i \in DOMAIN l : Hits(l[i], t, r, c) =>
          \E j \in DOMAIN l :
              Hits(l[j], t, r, c) /\ i <= j /\ \E f \in reg : Strikes(f, l[j])
    /\ \A f \in old : f.hlc.peer # Arbiter => f \in reg
    /\ Topped(reg)

LEMMA NullRunExists ==
    ASSUME NEW s \in Store, NEW l \in Seq(ClaimOp)
    PROVE  \E x : /\ x[0] = s /\ \A k \in 0..Len(l) : x[k] \in Store
                  /\ \A k \in 1..Len(l) : x[k] = NullLoser(x[k - 1], l[k])
                  /\ x[Len(l)] = FoldLeft(NullLoser, s, l)
<1>. DEFINE n == Len(l)
            y == FoldLeft(NullLoser, s, l)
            H == [i \in 1..n |-> [x \in Store |-> NullLoser(x, l[i])]]
<1>0. n \in Nat /\ DOMAIN l = 1..n /\ \A i \in 1..n : l[i] \in ClaimOp
  OBVIOUS
<1>1. \A x \in Store : \A i \in 1..n : NullLoser(x, l[i]) \in Store
  BY <1>0, NullLoserFacts DEF Sets
<1>2. EndsRun(y, n, Store, s, H)
  <2> HIDE DEF n
  <2> QED BY <1>0, <1>1, NullRun
<1>3. PICK x : IsRun(x, n, Store, s, H) /\ x[n] = y
  BY <1>2 DEF EndsRun
<1>4. x[0] = s /\ \A k \in 0..n : x[k] \in Store
  BY <1>3 DEF IsRun
<1>5. ASSUME NEW k \in 1..n PROVE x[k] = NullLoser(x[k - 1], l[k])
  <2>1. k - 1 \in 0..n
    BY <1>0
  <2>2. x[k] = H[k][x[k - 1]]
    BY <1>3 DEF IsRun
  <2>3. x[k - 1] \in Store
    BY <1>4, <2>1
  <2> QED BY <2>2, <2>3
<1>. HIDE DEF y, H
<1> QED BY <1>3, <1>4, <1>5 DEF y

LEMMA NullMembers ==
    ASSUME NEW s \in Store, NEW l \in Seq(ClaimOp), NEW t \in Table, NEW n, n = Len(l),
           NEW x, x[0] = s, \A k \in 0..n : x[k] \in Store,
           \A k \in 1..n : x[k] = NullLoser(x[k - 1], l[k])
    PROVE  \A k \in 0..n : x[k][t].members = s[t].members
<1>. DEFINE K == {k \in 0..n : x[k][t].members = s[t].members}
<1>0. n \in Nat /\ \A i \in 1..n : l[i] \in ClaimOp
  OBVIOUS
<1>1. 0 \in K
  BY <1>0
<1>2. ASSUME NEW k \in 1..n, k - 1 \in K PROVE k \in K
  <2>1. k - 1 \in 0..n /\ k \in 0..n
    BY <1>0
  <2>. DEFINE a == x[k - 1]
              d == l[k]
  <2>2. a \in Store /\ d \in ClaimOp /\ x[k] = NullLoser(a, d) /\ a[t].members = s[t].members
    BY <1>0, <1>2, <2>1
  <2>. HIDE DEF a, d
  <2>3. NullLoser(a, d)[t].members = a[t].members
    <3>1. CASE Row = {}
      <4>1. d.row \in Row
        BY <2>2 DEF ClaimOp
      <4> QED BY <3>1, <4>1
    <3>2. CASE Row # {}
      BY <2>2, <3>2, NullLoserShape
    <3> QED BY <3>1, <3>2
  <2> QED BY <2>1, <2>2, <2>3
<1>3. 0..n \subseteq K
  <2> HIDE DEF K
  <2> QED BY <1>0, <1>1, <1>2, Induction
<1> QED BY <1>3

LEMMA NullsKeepMembers ==
    ASSUME NEW s \in Store, NEW l \in Seq(ClaimOp), NEW t \in Table
    PROVE  FoldLeft(NullLoser, s, l)[t].members = s[t].members
<1>. DEFINE n == Len(l)
<1>1. PICK x : /\ x[0] = s /\ \A k \in 0..n : x[k] \in Store
               /\ \A k \in 1..n : x[k] = NullLoser(x[k - 1], l[k])
               /\ x[n] = FoldLeft(NullLoser, s, l)
  BY NullRunExists
<1>2. \A k \in 0..n : x[k][t].members = s[t].members
  <2>. HIDE DEF n
  <2> QED BY <1>1, NullMembers DEF n
<1>3. n \in 0..n
  OBVIOUS
<1>. HIDE DEF n
<1> QED BY <1>1, <1>2, <1>3

LEMMA NullCells ==
    ASSUME NEW s \in Store, NEW l \in Seq(ClaimOp), NEW t \in Table, NEW r \in Row,
           NEW c \in Columns[t], IsVisible(s[t].members[r]), Topped(s[t].cells[r][c])
    PROVE  Nulled(FoldLeft(NullLoser, s, l)[t].cells[r][c], s[t].cells[r][c], l, t, r, c)
<1>. DEFINE n == Len(l)
            W == {k \in 1..n : Hits(l[k], t, r, c)}
            e == [k \in 1..n |-> [hlc |-> NullStamp(l[k]), value |-> Null]]
            old == s[t].cells[r][c]
<1>0. n \in Nat /\ DOMAIN l = 1..n /\ \A i \in 1..n : l[i] \in ClaimOp
  OBVIOUS
<1>1. PICK x : /\ x[0] = s /\ \A k \in 0..n : x[k] \in Store
               /\ \A k \in 1..n : x[k] = NullLoser(x[k - 1], l[k])
               /\ x[n] = FoldLeft(NullLoser, s, l)
  BY NullRunExists
<1>2. \A k \in 0..n : x[k][t].members = s[t].members
  <2>. HIDE DEF n
  <2> QED BY <1>1, NullMembers DEF n
<1>. DEFINE g == [k \in 0..n |-> x[k][t].cells[r][c]]
<1>3. ASSUME NEW k \in 1..n
      PROVE  g[k] = IF k \in W
                    THEN {f \in g[k - 1] : f.hlc.peer # e[k].hlc.peer} \cup {e[k]}
                    ELSE g[k - 1]
  <2>. DEFINE a == x[k - 1]
              b == x[k]
              d == l[k]
  <2>1. k - 1 \in 0..n /\ k \in 0..n
    BY <1>0
  <2>2. a \in Store /\ b = NullLoser(a, d) /\ d \in ClaimOp /\ IsVisible(a[t].members[r])
    BY <1>0, <1>1, <1>2, <2>1
  <2>3. g[k - 1] = a[t].cells[r][c] /\ g[k] = b[t].cells[r][c]
    BY <2>1
  <2>4. e[k].hlc = NullStamp(d) /\ e[k] = [hlc |-> NullStamp(d), value |-> Null]
    OBVIOUS
  <2>5. k \in W <=> Hits(d, t, r, c)
    OBVIOUS
  <2>. HIDE DEF a, b, d, g, e, W
  <2>6. b[t].cells[r][c] = IF Hits(d, t, r, c)
                           THEN WriteCell(a[t].cells[r][c], NullStamp(d), Null)
                           ELSE a[t].cells[r][c]
    BY <2>2, NullLoserShape
  <2> QED BY <2>3, <2>4, <2>5, <2>6 DEF WriteCell
<1>4. g[0] = old /\ g[n] = FoldLeft(NullLoser, s, l)[t].cells[r][c]
  <2>1. 0 \in 0..n /\ n \in 0..n
    BY <1>0
  <2> QED BY <1>1, <2>1
<1>5. \A k \in 1..n : /\ e[k].hlc \in Times /\ e[k].hlc.peer = Arbiter
                      /\ Strikes(e[k], l[k])
  <2>1. \A k \in 1..n : e[k].hlc = NullStamp(l[k]) /\ e[k].value = Null
    OBVIOUS
  <2>. HIDE DEF e
  <2> QED BY <1>0, <2>1, NullStampFacts DEF Strikes
<1>6. \A k \in 1..n : k \in W <=> Hits(l[k], t, r, c)
  OBVIOUS
<1>7. \A f \in old : f.hlc \in Times
  BY DEF Store, TableState, Write
<1>. HIDE DEF g, e, W, old
<1>8. Overwrites(g, n, W, e)
  BY <1>3 DEF Overwrites
<1>9. Overwritten(g[n], g[0], n, W, e)
  <2>1. Topped(g[0]) /\ \A f \in g[0] : f.hlc \in Times
    BY <1>4, <1>7 DEF old
  <2>. HIDE DEF n
  <2> QED BY <1>0, <1>5, <1>8, <2>1, OverwritesFacts
<1>10. Nulled(g[n], old, l, t, r, c)
  <2>1. ASSUME NEW f \in g[n]
        PROVE  f \in old \/ \E j \in DOMAIN l : Hits(l[j], t, r, c) /\ Strikes(f, l[j])
    BY <1>0, <1>4, <1>5, <1>6, <1>9 DEF Overwritten
  <2>2. ASSUME NEW i \in DOMAIN l, Hits(l[i], t, r, c)
        PROVE  \E j \in DOMAIN l :
                  Hits(l[j], t, r, c) /\ i <= j /\ \E f \in g[n] : Strikes(f, l[j])
    <3>1. i \in 1..n /\ i \in W
      BY <1>0, <1>6, <2>2
    <3>2. PICK j \in 1..n : j \in W /\ i <= j /\ e[j] \in g[n]
      BY <1>9, <3>1 DEF Overwritten
    <3> QED BY <1>0, <1>5, <1>6, <3>2
  <2>3. ASSUME NEW f \in old, f.hlc.peer # Arbiter PROVE f \in g[n]
    BY <1>4, <1>5, <1>9, <2>3 DEF Overwritten
  <2> QED BY <1>9, <2>1, <2>2, <2>3 DEF Nulled, Overwritten
<1> QED BY <1>4, <1>10 DEF old

-----------------------------------------------------------------------------
(* What a rebuild tells of its log.                                        *)

\* Claims m stand for the claim operations in S: no claim twice, each of them
\* in S, and for each in S it, or another of the same row on the same value.
StandsFor(m, S) ==
    /\ Distinct(m) /\ ToSet(m) \subseteq S
    /\ \A o \in S : \E d \in ToSet(m) : SameValue(d, o) /\ d.row = o.row

LEMMA ClaimsKept ==
    ASSUME NEW S, NEW q \in Seq(S), Distinct(q)
    PROVE  StandsFor(FoldLeft(Reserve, <<>>, q), ToSet(q))
<1>. DEFINE n == Len(q)
            T == Seq(S)
            y == FoldLeft(Reserve, <<>>, q)
            H == [i \in 1..n |-> [m \in T |-> Reserve(m, q[i])]]
            Done(k, m) == /\ m \in T /\ Distinct(m)
                          /\ \A j \in DOMAIN m : \E i \in 1..k : m[j] = q[i]
                          /\ \A i \in 1..k : \E j \in DOMAIN m :
                                SameValue(m[j], q[i]) /\ m[j].row = q[i].row
            K(x) == {k \in 0..n : Done(k, x[k])}
<1>0. n \in Nat /\ DOMAIN q = 1..n /\ <<>> \in T /\ \A i \in 1..n : q[i] \in S
  OBVIOUS
<1>1. \A m \in T : \A i \in 1..n : Reserve(m, q[i]) \in T
  BY <1>0 DEF Reserve
<1>2. EndsRun(y, n, T, <<>>, H)
  <2> HIDE DEF n, T
  <2> QED BY <1>0, <1>1, ReserveRun
<1>3. PICK x : IsRun(x, n, T, <<>>, H) /\ x[n] = y
  BY <1>2 DEF EndsRun
<1>4. x[0] = <<>> /\ \A k \in 0..n : x[k] \in T
  BY <1>3 DEF IsRun
<1>5. ASSUME NEW k \in 1..n PROVE x[k] = Reserve(x[k - 1], q[k])
  <2>1. k - 1 \in 0..n
    BY <1>0
  <2>2. x[k] = H[k][x[k - 1]]
    BY <1>3 DEF IsRun
  <2>3. x[k - 1] \in T
    BY <1>4, <2>1
  <2> QED BY <2>2, <2>3
<1>. HIDE DEF y, H
<1>6. 0 \in K(x)
  <2>1. Done(0, <<>>)
    <3>1. <<>> \in T /\ DOMAIN <<>> = {} /\ \A i \in 1..0 : FALSE
      OBVIOUS
    <3>. HIDE DEF T
    <3> QED BY <3>1 DEF Distinct
  <2>2. 0 \in 0..n
    BY <1>0
  <2>. HIDE DEF Done, n
  <2> QED BY <1>4, <2>1, <2>2
<1>7. ASSUME NEW k \in 1..n, k - 1 \in K(x) PROVE k \in K(x)
  <2>. DEFINE m == x[k - 1]
              o == q[k]
              Old == \E i \in DOMAIN m : /\ SameValue(m[i], o) /\ m[i].row = o.row
                                         /\ m[i].hlc.peer = o.hlc.peer
  <2>1. Done(k - 1, m) /\ k \in 0..n
    BY <1>0, <1>7
  <2>2. x[k] = IF Old THEN m ELSE Append(m, o)
    BY <1>5 DEF Reserve
  <2>3. /\ \A i \in 1..(k - 1) : i \in 1..k /\ i < k /\ i \in 1..n
        /\ \A i \in 1..k : i = k \/ i \in 1..(k - 1)
        /\ k \in 1..k
    BY <1>0
  <2>4. ASSUME NEW j \in DOMAIN m PROVE m[j] # o
    <3>1. PICK i \in 1..(k - 1) : m[j] = q[i]
      BY <2>1
    <3>2. i # k /\ i \in DOMAIN q /\ k \in DOMAIN q
      BY <1>0, <2>3
    <3> QED BY <3>1, <3>2 DEF Distinct
  <2>5. o = q[k] /\ o \in S
    BY <1>0
  <2>. HIDE DEF m, o
  <2>6. CASE Old
    <3>1. Done(k, m)
      <4>1. \A i \in 1..k : \E j \in DOMAIN m : SameValue(m[j], q[i]) /\ m[j].row = q[i].row
        BY <2>1, <2>3, <2>5, <2>6
      <4> QED BY <2>1, <2>3, <4>1
    <3>2. x[k] = m
      BY <2>2, <2>6
    <3>. HIDE DEF Done, Old
    <3> QED BY <2>1, <3>1, <3>2
  <2>7. CASE ~Old
    <3>. DEFINE z == Append(m, o)
    <3>1. /\ z \in T /\ Len(m) \in Nat /\ DOMAIN m = 1..Len(m)
          /\ DOMAIN z = 1..(Len(m) + 1) /\ z[Len(m) + 1] = o
          /\ \A i \in 1..Len(m) : z[i] = m[i]
      BY <2>1, <2>5
    <3>. HIDE DEF z, T
    <3>2. /\ \A j \in DOMAIN z : j \in DOMAIN m \/ j = Len(m) + 1
          /\ \A j \in DOMAIN m : j \in DOMAIN z /\ z[j] = m[j]
          /\ Len(m) + 1 \in DOMAIN z
      BY <3>1
    <3>3. Distinct(z)
      BY <2>1, <2>4, <3>1, <3>2 DEF Distinct
    <3>4. ASSUME NEW j \in DOMAIN z PROVE \E i \in 1..k : z[j] = q[i]
      <4>1. CASE j \in DOMAIN m
        <5>1. PICK i \in 1..(k - 1) : m[j] = q[i]
          BY <2>1, <4>1
        <5> QED BY <2>3, <3>2, <4>1, <5>1
      <4>2. CASE j = Len(m) + 1
        BY <2>3, <2>5, <3>1, <4>2
      <4> QED BY <3>2, <4>1, <4>2
    <3>5. ASSUME NEW i \in 1..k
          PROVE  \E j \in DOMAIN z : SameValue(z[j], q[i]) /\ z[j].row = q[i].row
      <4>1. CASE i = k
        BY <2>5, <3>1, <3>2, <4>1 DEF SameValue
      <4>2. CASE i \in 1..(k - 1)
        <5>1. PICK j \in DOMAIN m : SameValue(m[j], q[i]) /\ m[j].row = q[i].row
          BY <2>1, <4>2
        <5> QED BY <3>2, <5>1
      <4> QED BY <2>3, <4>1, <4>2
    <3>6. Done(k, z)
      BY <3>1, <3>3, <3>4, <3>5
    <3>7. x[k] = z
      BY <2>2, <2>7 DEF z
    <3>. HIDE DEF Done, m, Old
    <3> QED BY <2>1, <3>6, <3>7
  <2> QED BY <2>6, <2>7
<1>8. 0..n \subseteq K(x)
  <2> HIDE DEF K, n
  <2> QED BY <1>0, <1>6, <1>7, Induction
<1>9. Done(n, y)
  <2>1. n \in K(x)
    <3>1. n \in 0..n
      BY <1>0
    <3> HIDE DEF K
    <3> QED BY <1>8, <3>1
  <2> QED BY <1>3, <2>1
<1>10. ToSet(y) \subseteq ToSet(q)
  BY <1>0, <1>9 DEF ToSet
<1>11. \A o \in ToSet(q) : \E d \in ToSet(y) : SameValue(d, o) /\ d.row = o.row
  BY <1>0, <1>9 DEF ToSet
<1> QED BY <1>9, <1>10, <1>11 DEF StandsFor, y

\* The claims that lost.
Losers(claimed) == {d \in ToSet(claimed) : Lost(claimed, d)}

\* What a register of a visible row holds after a rebuild from the operations
\* in O whose losers are L: the writes in O and null writes for L, of both the
\* last ones.
CellTells(reg, O, L, t, r, c) ==
    /\ \A f \in reg : \/ \E o \in O : Stems(f, o, t, r, c)
                      \/ \E d \in L : Hits(d, t, r, c) /\ Strikes(f, d)
    /\ \A o \in O : Writes(o, t, r, c) =>
          \E a \in O : (a = o \/ Before(o.hlc, a.hlc)) /\ \E f \in reg : Stems(f, a, t, r, c)
    /\ \A d \in L : Hits(d, t, r, c) =>
          \E e \in L : /\ Hits(e, t, r, c) /\ (e = d \/ NullOrder(d, e))
                       /\ \E f \in reg : Strikes(f, e)
    /\ Topped(reg)

RowTells(tab, O, L, t, r) ==
    /\ \E o \in O : Creates(o, t, r)
    /\ \A c \in Columns[t] : CellTells(tab.cells[r][c], O, L, t, r, c)

\* Of what l holds, b is what a rebuild has to make.
Tells(b, l) ==
    /\ b.claims \in Seq(ClaimsOf(ToSet(l))) /\ StandsFor(b.claims, ClaimsOf(ToSet(l)))
    /\ \A t \in Table : \A r \in VisibleRows(b.store[t]) :
          RowTells(b.store[t], ToSet(l), Losers(b.claims), t, r)

\* The losers in the order of their null writes.
LEMMA LosersSorted ==
    ASSUME NEW m \in Seq(ClaimOp), Distinct(m), \A a, b \in ToSet(m) : Tie(a, b) => a = b,
           NEW l, l = Sorted(Picked(m, {i \in DOMAIN m : Lost(m, m[i])}), NullOrder)
    PROVE  /\ l \in Seq(ClaimOp) /\ ToSet(l) = Losers(m)
           /\ \A i, j \in DOMAIN l : i <= j => l[i] = l[j] \/ NullOrder(l[i], l[j])
<1>. DEFINE at == {i \in DOMAIN m : Lost(m, m[i])}
            k == Picked(m, at)
            O == ToSet(k)
            R == NullPairs(O)
<1>1. k \in Seq(ClaimOp) /\ Distinct(k) /\ O = {m[i] : i \in at \cap DOMAIN m}
  <2>. HIDE DEF at
  <2> QED BY PickedFacts
<1>2. O = Losers(m)
  BY <1>1 DEF Losers, ToSet
<1>3. O \subseteq ClaimOp /\ k \in Seq(O)
  <2>. HIDE DEF k
  <2>1. Len(k) \in Nat /\ k = [i \in 1..Len(k) |-> k[i]] /\ \A i \in 1..Len(k) : k[i] \in ClaimOp
    BY <1>1
  <2>2. (\A i \in 1..Len(k) : k[i] \in O) /\ O \subseteq ClaimOp
    BY <2>1 DEF ToSet
  <2> HIDE DEF O
  <2> QED BY <2>1, <2>2
<1>4. \A a, b \in O : Tie(a, b) => a = b
  BY <1>2 DEF Losers
<1>5. l = Sorted(k, NullOrder)
  OBVIOUS
<1>. HIDE DEF at, k
<1>6. Orders(R, O)
  <2>. HIDE DEF O
  <2> QED BY <1>3, <1>4, NullOrders
<1>7. SortsTo(l, O, R, k)
  <2>. HIDE DEF O
  <2> QED BY <1>3, <1>5, NullSort
<1>. HIDE DEF R
<1>8. PICK x : Inserts(x, O, R, k) /\ l = x[Len(k)]
  BY <1>7 DEF SortsTo
<1>9. l \in Seq(O) /\ ToSet(l) = ToSet(k) /\ InOrderOf(R, l)
  <2>. HIDE DEF O
  <2> QED BY <1>1, <1>3, <1>6, <1>8, InsertsFacts
<1>10. l \in Seq(ClaimOp)
  <2>. HIDE DEF O
  <2> QED BY <1>3, <1>9, SeqOfSubset
<1>11. ASSUME NEW i \in DOMAIN l, NEW j \in DOMAIN l, i <= j
       PROVE  l[i] = l[j] \/ NullOrder(l[i], l[j])
  <2>1. DOMAIN l = 1..Len(l) /\ Len(l) \in Nat
    BY <1>10
  <2>2. i = j \/ i < j
    BY <1>11, <2>1
  <2>3. i < j => <<l[i], l[j]>> \in R
    BY <1>9 DEF InOrderOf
  <2> QED BY <2>2, <2>3 DEF R, NullPairs
<1> QED BY <1>2, <1>9, <1>10, <1>11

-----------------------------------------------------------------------------
(* Before the null writes, and before the cascade.                         *)

CellWritten(reg, O, t, r, c) ==
    /\ \A f \in reg : \E o \in O : Stems(f, o, t, r, c)
    /\ \A o \in O : Writes(o, t, r, c) =>
          \E a \in O : (a = o \/ Before(o.hlc, a.hlc)) /\ \E f \in reg : Stems(f, a, t, r, c)
    /\ Topped(reg)

RowWritten(tab, O, t, r) ==
    /\ tab.members[r].live # {} => \E o \in O : Creates(o, t, r)
    /\ \A c \in Columns[t] : CellWritten(tab.cells[r][c], O, t, r, c)

\* The null writes of a rebuild.
LEMMA NullsTell ==
    ASSUME NEW s \in Store, NEW O, O \subseteq Op, NEW m \in Seq(ClaimOp), Distinct(m),
           \A a, b \in ToSet(m) : Tie(a, b) => a = b, NEW t \in Table, NEW r \in Row,
           IsVisible(NullLosers(s, m)[t].members[r]), RowWritten(s[t], O, t, r)
    PROVE  RowTells(NullLosers(s, m)[t], O, Losers(m), t, r)
<1>. DEFINE l == Sorted(Picked(m, {i \in DOMAIN m : Lost(m, m[i])}), NullOrder)
            y == FoldLeft(NullLoser, s, l)
            L == Losers(m)
<1>1. NullLosers(s, m) = y
  BY DEF NullLosers
<1>2. /\ l \in Seq(ClaimOp) /\ ToSet(l) = L
      /\ \A i, j \in DOMAIN l : i <= j => l[i] = l[j] \/ NullOrder(l[i], l[j])
  BY LosersSorted
<1>. HIDE DEF l, L
<1>3. y[t].members = s[t].members
  BY <1>2, NullsKeepMembers
<1>4. IsVisible(s[t].members[r])
  BY <1>1, <1>3
<1>5. \E o \in O : Creates(o, t, r)
  <2>1. s[t].members[r].live # {}
    BY <1>4 DEF IsVisible, IsLive
  <2> QED BY <2>1 DEF RowWritten
<1>6. ASSUME NEW c \in Columns[t] PROVE CellTells(y[t].cells[r][c], O, L, t, r, c)
  <2>. DEFINE old == s[t].cells[r][c]
              reg == y[t].cells[r][c]
  <2>1. CellWritten(old, O, t, r, c)
    BY DEF RowWritten
  <2>2. Nulled(reg, old, l, t, r, c)
    <3>. HIDE DEF y
    <3>1. Topped(s[t].cells[r][c])
      BY <2>1 DEF CellWritten
    <3> QED BY <1>2, <1>4, <3>1, NullCells DEF y
  <2>. HIDE DEF old, reg, y
  <2>3. \A j \in DOMAIN l : l[j] \in L
    BY <1>2 DEF ToSet
  <2>4. \A d \in L : \E i \in DOMAIN l : l[i] = d
    BY <1>2 DEF ToSet
  <2>5. \A f \in reg : \/ \E o \in O : Stems(f, o, t, r, c)
                       \/ \E d \in L : Hits(d, t, r, c) /\ Strikes(f, d)
    BY <2>1, <2>2, <2>3 DEF Nulled, CellWritten
  <2>6. ASSUME NEW o \in O, Writes(o, t, r, c)
        PROVE  \E a \in O : (a = o \/ Before(o.hlc, a.hlc))
                            /\ \E f \in reg : Stems(f, a, t, r, c)
    <3>1. PICK a \in O : (a = o \/ Before(o.hlc, a.hlc))
                         /\ \E f \in old : Stems(f, a, t, r, c)
      BY <2>1, <2>6 DEF CellWritten
    <3>2. PICK f \in old : Stems(f, a, t, r, c)
      BY <3>1
    <3>3. f.hlc.peer # Arbiter
      <4>1. a \in Op /\ ~IsClaim(a) /\ a.hlc = f.hlc
        BY <3>2 DEF Stems, IsClaim
      <4>2. a.hlc \in Stamps
        BY <4>1 DEF Op, RowOp, ClaimOp
      <4> QED BY <4>1, <4>2, PeersAssumption DEF Stamps
    <3>4. f \in reg
      BY <2>2, <3>3 DEF Nulled
    <3> QED BY <3>1, <3>2, <3>4
  <2>7. ASSUME NEW d \in L, Hits(d, t, r, c)
        PROVE  \E e \in L : /\ Hits(e, t, r, c) /\ (e = d \/ NullOrder(d, e))
                            /\ \E f \in reg : Strikes(f, e)
    <3>1. PICK i \in DOMAIN l : l[i] = d
      BY <2>4
    <3>2. PICK j \in DOMAIN l :
              Hits(l[j], t, r, c) /\ i <= j /\ \E f \in reg : Strikes(f, l[j])
      BY <2>2, <2>7, <3>1 DEF Nulled
    <3> QED BY <1>2, <2>3, <3>1, <3>2
  <2> QED BY <2>2, <2>5, <2>6, <2>7 DEF CellTells, Nulled, reg
<1> QED BY <1>1, <1>5, <1>6 DEF RowTells, L

\* A replay of the row operations in O, which do not tie.
LEMMA RowsWritten ==
    ASSUME NEW O, O \subseteq Op, NEW v \in Seq({o \in O : ~IsClaim(o)}),
           ToSet(v) = {o \in O : ~IsClaim(o)}, InOrderOf(ReplayPairs(O), v),
           NEW t \in Table, NEW r \in Row
    PROVE  RowWritten(FoldLeft(ApplyOp, EmptyStore, v)[t], O, t, r)
<1>. DEFINE Z == {o \in Op : ~IsClaim(o)}
            rows == FoldLeft(ApplyOp, EmptyStore, v)
<1>1. v \in Seq(Z)
  <2>1. {o \in O : ~IsClaim(o)} \subseteq Z
    OBVIOUS
  <2>. HIDE DEF Z
  <2> QED BY <2>1, SeqOfSubset
<1>2. \A j \in DOMAIN v : v[j] \in O /\ ~IsClaim(v[j])
  BY DEF ToSet
<1>3. \A o \in O : ~IsClaim(o) => \E i \in DOMAIN v : v[i] = o
  BY DEF ToSet
<1>4. ASSUME NEW i \in DOMAIN v, NEW j \in DOMAIN v, i <= j
      PROVE  v[i] = v[j] \/ Before(v[i].hlc, v[j].hlc)
  <2>1. i = j \/ i < j
    BY <1>1, <1>4
  <2>2. ASSUME i < j PROVE Before(v[i].hlc, v[j].hlc)
    <3>1. ReplayOrder(v[i], v[j])
      BY <2>2 DEF InOrderOf, ReplayPairs
    <3>2. Tier(v[i]) = 1 /\ Tier(v[j]) = 1
      BY <1>2 DEF Tier
    <3> QED BY <1>2, <3>1, <3>2 DEF ReplayOrder
  <2> QED BY <2>1, <2>2
<1>5. rows[t].members[r].live # {} => \E o \in O : Creates(o, t, r)
  <2>1. rows[t].members[r].live # {} => \E j \in DOMAIN v : Creates(v[j], t, r)
    BY <1>1, ReplayRooted
  <2> HIDE DEF rows
  <2> QED BY <1>2, <2>1
<1>6. ASSUME NEW c \in Columns[t] PROVE CellWritten(rows[t].cells[r][c], O, t, r, c)
  <2>. DEFINE reg == rows[t].cells[r][c]
  <2>1. Replayed(reg, v, t, r, c)
    BY <1>1, ReplayCells
  <2>. HIDE DEF reg
  <2>2. ASSUME NEW o \in O, Writes(o, t, r, c)
        PROVE  \E a \in O : (a = o \/ Before(o.hlc, a.hlc))
                            /\ \E f \in reg : Stems(f, a, t, r, c)
    <3>1. ~IsClaim(o)
      BY <2>2 DEF Writes, IsClaim
    <3>2. PICK i \in DOMAIN v : v[i] = o
      BY <1>3, <3>1
    <3>3. PICK j \in DOMAIN v : i <= j /\ \E f \in reg : Stems(f, v[j], t, r, c)
      BY <2>1, <2>2, <3>2 DEF Replayed
    <3> QED BY <1>2, <1>4, <3>2, <3>3
  <2> QED BY <1>2, <2>1, <2>2 DEF Replayed, CellWritten, reg
<1> QED BY <1>5, <1>6 DEF RowWritten

\* A rebuild from operations that do not tie.
LEMMA RebuildTells ==
    ASSUME NEW l, Untied(l), NEW pol
    PROVE  Tells(Rebuild(l, pol), l)
<1>. DEFINE O == ToSet(l)
            Z == ClaimsOf(O)
            ops == Sorted(l, ReplayOrder)
            v == RowOps(ops)
            q == ClaimOps(ops)
            m == FoldLeft(Reserve, <<>>, q)
            rows == FoldLeft(ApplyOp, EmptyStore, v)
            unique == NullLosers(rows, m)
            b == Rebuild(l, pol)
<1>1. ops \in Seq(O) /\ ToSet(ops) = O /\ InOrderOf(ReplayPairs(O), ops)
  BY LogSorted
<1>2. O \subseteq Op /\ \A x, y \in O : Tie(x, y) => x = y
  <2>1. l \in Seq(Op)
    BY DEF Untied
  <2>2. O \subseteq Op
    BY <2>1 DEF ToSet
  <2> QED BY <2>2 DEF Untied
<1>3. b.claims = m /\ b.store = IF pol = "cascade" THEN CascadeAll(unique) ELSE unique
  BY DEF Rebuild
<1>. HIDE DEF O, ops
<1>4. Orders(ReplayPairs(O), O)
  BY <1>2, ReplayOrders
<1>5. Distinct(ops)
  <2>1. DOMAIN ops = 1..Len(ops) /\ Len(ops) \in Nat /\ \A i \in DOMAIN ops : ops[i] \in O
    BY <1>1
  <2>2. \A i, j \in DOMAIN ops : i < j => ops[i] # ops[j]
    BY <1>1, <1>4, <2>1 DEF InOrderOf, Orders
  <2>3. \A i, j \in DOMAIN ops : i = j \/ i < j \/ j < i
    BY <2>1
  <2> QED BY <2>2, <2>3 DEF Distinct
<1>6. /\ v \in Seq({o \in O : ~IsClaim(o)}) /\ ToSet(v) = {o \in O : ~IsClaim(o)}
      /\ q \in Seq(Z) /\ ToSet(q) = Z
  BY <1>1, SplitFacts
<1>7. Distinct(q)
  <2>. DEFINE at == {i \in DOMAIN ops : IsClaim(ops[i])}
  <2>1. Distinct(Picked(ops, at))
    <3>. HIDE DEF at
    <3> QED BY <1>1, <1>5, PickedFacts
  <2> QED BY <2>1 DEF ClaimOps
<1>8. InOrderOf(ReplayPairs(O), v)
  <2>. DEFINE at == {i \in DOMAIN ops : ~IsClaim(ops[i])}
  <2>1. InOrderOf(ReplayPairs(O), Picked(ops, at))
    <3>. HIDE DEF at
    <3> QED BY <1>1, PickedInOrder
  <2> QED BY <2>1 DEF RowOps
<1>9. Z \subseteq ClaimOp /\ Z \subseteq O
  BY <1>2, OpFacts DEF ClaimsOf
<1>. HIDE DEF v, q, Z
<1>10. StandsFor(m, Z)
  BY <1>6, <1>7, ClaimsKept
<1>11. m \in Seq(Z)
  <2>1. <<>> \in Seq(Z)
    OBVIOUS
  <2> QED BY <1>6, <2>1, ClaimsFacts DEF Z
<1>12. rows \in Store
  <2>1. {o \in O : ~IsClaim(o)} \subseteq {o \in Op : ~IsClaim(o)}
    BY <1>2
  <2>2. v \in Seq({o \in Op : ~IsClaim(o)})
    BY <1>6, <2>1, SeqOfSubset
  <2> QED BY <2>2, ReplayFacts
<1>13. \A t \in Table : \A r \in Row : RowWritten(rows[t], O, t, r)
  BY <1>2, <1>6, <1>8, RowsWritten
<1>. HIDE DEF m, rows, b
<1>14. /\ m \in Seq(ClaimOp) /\ Distinct(m)
       /\ \A x, y \in ToSet(m) : Tie(x, y) => x = y
  <2>1. m \in Seq(ClaimOp)
    BY <1>9, <1>11, SeqOfSubset
  <2>2. ToSet(m) \subseteq O
    BY <1>9, <1>10 DEF StandsFor
  <2> QED BY <1>2, <1>10, <2>1, <2>2 DEF StandsFor
<1>15. unique \in Store
  BY <1>12, <1>14, NullLosersFacts
<1>16. ASSUME NEW t \in Table, NEW r \in Row, IsVisible(unique[t].members[r])
       PROVE  RowTells(unique[t], O, Losers(m), t, r)
  BY <1>2, <1>12, <1>13, <1>14, <1>16, NullsTell
<1>. HIDE DEF unique
<1>17. ASSUME NEW t \in Table, NEW r \in VisibleRows(b.store[t])
       PROVE  RowTells(b.store[t], O, Losers(m), t, r)
  <2>1. r \in Row /\ IsVisible(b.store[t].members[r])
    BY DEF VisibleRows
  <2>2. CASE pol # "cascade"
    BY <1>3, <1>16, <2>1, <2>2
  <2>3. CASE pol = "cascade"
    <3>. DEFINE y == CascadeAll(unique)
    <3>1. Follows(y, unique)
      BY <1>15, CascadeSettles
    <3>2. b.store = y
      BY <1>3, <2>3
    <3>. HIDE DEF y
    <3>3. ~IsDeleted(y[t].members[r])
      BY <2>1, <3>2 DEF IsDeleted, IsVisible
    <3>4. y[t].cells = unique[t].cells /\ y[t].members[r] = unique[t].members[r]
      BY <2>1, <3>1, <3>3 DEF Follows, Cascaded
    <3>5. RowTells(unique[t], O, Losers(m), t, r)
      BY <1>16, <2>1, <3>2, <3>4
    <3> QED BY <3>2, <3>4, <3>5 DEF RowTells
  <2> QED BY <2>2, <2>3
<1>18. b.claims \in Seq(ClaimsOf(ToSet(l))) /\ StandsFor(b.claims, ClaimsOf(ToSet(l)))
  BY <1>3, <1>10, <1>11 DEF O, Z
<1> QED BY <1>3, <1>17, <1>18 DEF Tells, O, b

-----------------------------------------------------------------------------
(* Uniqueness after a rebuild.                                             *)

\* What a register reads is what its largest entry e says.
Reads(e, reg) ==
    e \in reg /\ (\A f \in reg : ~Before(e.hlc, f.hlc)) /\ ReadCell(reg) = e.value

LEMMA ReadTop ==
    ASSUME NEW reg, Topped(reg), reg # {}
    PROVE  \E e : Reads(e, reg)
<1>. DEFINE e == CHOOSE x \in Canonical(reg) : TRUE
<1>1. Canonical(reg) # {}
  BY DEF Topped
<1>2. e \in Canonical(reg)
  BY <1>1
<1>3. ReadCell(reg) = e.value
  BY DEF ReadCell
<1>. HIDE DEF e
<1> QED BY <1>2, <1>3 DEF Canonical, Reads

\* A peer's log and what a rebuild makes of it.
Tellable(b, O) ==
    /\ O \subseteq Op /\ Paired(O) /\ \A x, y \in O : Tie(x, y) => x = y
    /\ b.claims \in Seq(ClaimsOf(O)) /\ StandsFor(b.claims, ClaimsOf(O))
    /\ \A t \in Table : \A r \in VisibleRows(b.store[t]) :
          RowTells(b.store[t], O, Losers(b.claims), t, r)

LEMMA RebuiltTells ==
    ASSUME LogInv, PairedInv, NEW p \in Peer
    PROVE  Tellable(Rebuilt(p), Ops(p))
<1>1. Untied(log[p])
  BY DEF LogInv, LogTyped, NoDuplicates, NoTies, Ops, Untied
<1>2. Tells(Rebuilt(p), log[p])
  BY <1>1, RebuildTells DEF Rebuilt
<1>3. Ops(p) \subseteq Op
  BY <1>1 DEF Ops, Untied, ToSet
<1> QED BY <1>1, <1>2, <1>3 DEF Tellable, Tells, PairedInv, LogInv, NoTies, Ops

\* A claim is in the log, and so is the write it is for.
LEMMA ClaimFacts ==
    ASSUME NEW b, NEW O, Tellable(b, O), NEW c \in ToSet(b.claims)
    PROVE  /\ c \in O /\ c \in ClaimOp /\ IsClaim(c) /\ c.hlc \in Times
           /\ Sound(c) /\ \E w \in O : Supports(w, c)
           /\ \A i \in DOMAIN c.value :
                 LET x == Unique[c.table][c.constraint].cols[i]
                 IN  x \in Columns[c.table] /\ x \in ColumnsOf(c)
<1>1. c \in O /\ IsClaim(c)
  BY DEF Tellable, StandsFor, ClaimsOf
<1>2. c \in ClaimOp /\ c.hlc \in Times
  BY <1>1, OpFacts DEF Tellable
<1>3. Sound(c) /\ \E w \in O : Supports(w, c)
  BY <1>1 DEF Tellable, Paired
<1>4. c.table \in Table
  BY <1>2 DEF ClaimOp
<1>5. ASSUME NEW i \in DOMAIN c.value
      PROVE  LET x == Unique[c.table][c.constraint].cols[i]
             IN  x \in Columns[c.table] /\ x \in ColumnsOf(c)
  <2>1. /\ c.constraint \in DOMAIN Unique[c.table]
        /\ i \in DOMAIN Unique[c.table][c.constraint].cols
    BY <1>3 DEF Sound
  <2> QED BY <1>4, <2>1, UniqueFacts DEF ColumnsOf, ToSet
<1> QED BY <1>1, <1>2, <1>3, <1>5

\* The row of the largest claim of a value reads as claimed unless it was
\* written later.
LEMMA WinnerReads ==
    ASSUME NEW b, NEW O, Tellable(b, O), NEW c \in ToSet(b.claims),
           \A d \in ToSet(b.claims) \ {c} : SameValue(c, d) => Before(d.hlc, c.hlc),
           c.row \in VisibleRows(b.store[c.table]),
           \A o \in O : \A x \in ColumnsOf(c) :
               Writes(o, c.table, c.row, x) => ~Before(c.hlc, o.hlc),
           \A d \in Losers(b.claims) \ {c} : \A x \in ColumnsOf(c) :
               Hits(d, c.table, c.row, x) => ~Before(c.hlc, NullStamp(d)),
           NEW i \in DOMAIN c.value
    PROVE  Cell(b.store[c.table], c.row, Unique[c.table][c.constraint].cols[i]) = c.value[i]
<1>. DEFINE t == c.table
            r == c.row
            x == Unique[t][c.constraint].cols[i]
            reg == b.store[t].cells[r][x]
            L == Losers(b.claims)
<1>1. /\ c \in ClaimOp /\ c.hlc \in Times /\ x \in Columns[t] /\ x \in ColumnsOf(c)
      /\ t \in Table /\ c.hlc.peer \in Peer
  BY ClaimFacts DEF ClaimOp, Stamps
<1>2. PICK w \in O : Supports(w, c)
  BY ClaimFacts
<1>3. /\ w.hlc = c.hlc /\ w.cells[x] = c.value[i] /\ Writes(w, t, r, x) /\ ~IsClaim(w)
  BY <1>2 DEF Supports, Writes, IsClaim
<1>4. CellTells(reg, O, L, t, r, x)
  BY <1>1 DEF Tellable, RowTells
<1>5. c \notin L
  <2>1. SUFFICES ASSUME NEW j \in DOMAIN b.claims, SameValue(b.claims[j], c),
                        Beats(b.claims[j], c)
                 PROVE  FALSE
    BY DEF Losers, Lost
  <2>. DEFINE d == b.claims[j]
  <2>2. d \in ToSet(b.claims)
    BY DEF ToSet
  <2>3. d \in ClaimOp /\ d.hlc \in Times
    BY <2>2, ClaimFacts
  <2>. HIDE DEF d
  <2>4. SameValue(c, d) /\ Beats(d, c)
    BY <2>1 DEF SameValue, d
  <2>5. d # c
    <3>1. ~Before(c.hlc, c.hlc) /\ c.row \in Nat
      BY <1>1, BeforeOrders, RowAssumption DEF ClaimOp
    <3> QED BY <2>4, <3>1 DEF Beats
  <2>6. Before(d.hlc, c.hlc)
    BY <2>2, <2>4, <2>5
  <2>7. Before(c.hlc, d.hlc) \/ c.hlc = d.hlc
    BY <2>4 DEF Beats
  <2> QED BY <1>1, <2>3, <2>6, <2>7, BeforeOrders
<1>6. \A o \in O : o.hlc \in Times
  BY OpFacts DEF Tellable
<1>7. \A d \in L : d \in ClaimOp
  BY ClaimFacts DEF Losers
<1>. HIDE DEF L, reg, x, t, r
<1>8. PICK f \in reg : f.hlc = c.hlc /\ f.value = c.value[i]
  <2>1. PICK a \in O : (a = w \/ Before(w.hlc, a.hlc)) /\ \E f \in reg : Stems(f, a, t, r, x)
    BY <1>2, <1>3, <1>4 DEF CellTells
  <2>2. Writes(a, t, r, x)
    BY <2>1 DEF Stems, Writes
  <2>3. a = w
    BY <1>1, <1>3, <2>1, <2>2 DEF t, r
  <2> QED BY <1>3, <2>1, <2>3 DEF Stems
<1>9. PICK e : Reads(e, reg)
  BY <1>4, <1>8, ReadTop DEF CellTells
<1>10. e \in reg /\ ~Before(e.hlc, c.hlc) /\ ReadCell(reg) = e.value
  BY <1>8, <1>9 DEF Reads
<1>11. CASE \E o \in O : Stems(e, o, t, r, x)
  <2>1. PICK o \in O : Stems(e, o, t, r, x)
    BY <1>11
  <2>2. Writes(o, t, r, x) /\ o.hlc = e.hlc /\ e.value = o.cells[x] /\ ~IsClaim(o)
    BY <2>1 DEF Stems, Writes, IsClaim
  <2>3. ~Before(c.hlc, o.hlc)
    BY <1>1, <2>2 DEF t, r
  <2>4. o.hlc = c.hlc
    BY <1>1, <1>6, <1>10, <2>2, <2>3, BeforeOrders
  <2>5. o = w
    <3>1. Tie(o, w)
      BY <1>3, <2>2, <2>4 DEF Tie, Tier
    <3> QED BY <1>2, <3>1 DEF Tellable
  <2> QED BY <1>3, <1>10, <2>2, <2>5 DEF Cell, reg, x, t, r
<1>12. CASE \E d \in L : Hits(d, t, r, x) /\ Strikes(e, d)
  <2>1. PICK d \in L : Hits(d, t, r, x) /\ Strikes(e, d)
    BY <1>12
  <2>2. ~Before(c.hlc, NullStamp(d))
    BY <1>1, <1>5, <2>1 DEF t, r, L
  <2>3. NullStamp(d) \in Times /\ NullStamp(d).peer = Arbiter /\ e.hlc = NullStamp(d)
    BY <1>7, <2>1, NullStampFacts DEF Strikes
  <2>4. NullStamp(d) = c.hlc
    BY <1>1, <1>10, <2>2, <2>3, BeforeOrders
  <2> QED BY <1>1, <2>3, <2>4, PeersAssumption
<1> QED BY <1>4, <1>10, <1>11, <1>12 DEF CellTells

\* The timestamps of Engine's properties in terms of writes and hits.
LEMMA WritesOfFacts ==
    ASSUME NEW p \in Peer, NEW c, NEW r, NEW o \in Ops(p), NEW x \in ColumnsOf(c),
           Writes(o, c.table, r, x)
    PROVE  o.hlc \in WritesOf(p, c.table, r, ColumnsOf(c))
<1>. DEFINE S == {u \in Ops(p) : /\ u.type \in {"insert", "update"}
                                 /\ u.table = c.table /\ u.row = r
                                 /\ ColumnsOf(c) \cap DOMAIN u.cells # {}}
<1>1. o \in S
  BY DEF Writes
<1> QED BY <1>1 DEF WritesOf

LEMMA NullsOfFacts ==
    ASSUME NEW m, NEW except, NEW c, NEW r, NEW d \in Losers(m) \ except,
           NEW x \in ColumnsOf(c), Hits(d, c.table, r, x)
    PROVE  NullStamp(d) \in NullsOf(m, except, c.table, r, ColumnsOf(c))
<1>. DEFINE S == {e \in ToSet(m) \ except : /\ e.table = c.table /\ e.row = r
                                            /\ Lost(m, e) /\ ColumnsOf(c) \cap ColumnsOf(e) # {}}
<1>1. d \in S
  BY DEF Hits, Losers
<1> QED BY <1>1 DEF NullsOf

\* After a rebuild the winner of a value holds it, unless the row is deleted
\* or a later write, by a statement or for another lost claim, took it away
\* (Engine::apply_uniqueness_results).
THEOREM WinnersHold == Spec => []WinnerHolds
<1>1. LogInv /\ PairedInv => WinnerHolds
  <2>. SUFFICES ASSUME LogInv, PairedInv PROVE WinnerHolds
    OBVIOUS
  <2>1. ASSUME NEW p \in Peer, NEW b, b = Rebuilt(p), NEW c \in ToSet(b.claims),
               \A d \in ToSet(b.claims) \ {c} : SameValue(c, d) => Before(d.hlc, c.hlc),
               c.row \in VisibleRows(b.store[c.table]),
               ~ \E h \in WritesOf(p, c.table, c.row, ColumnsOf(c))
                            \cup NullsOf(b.claims, {c}, c.table, c.row, ColumnsOf(c)) :
                    Before(c.hlc, h)
        PROVE  c.row \in Holders(b.store[c.table], c.table, c.constraint, c.value)
    <3>1. Tellable(b, Ops(p))
      BY <2>1, RebuiltTells
    <3>2. \A o \in Ops(p) : \A x \in ColumnsOf(c) :
              Writes(o, c.table, c.row, x) => ~Before(c.hlc, o.hlc)
      BY <2>1, WritesOfFacts
    <3>3. \A d \in Losers(b.claims) \ {c} : \A x \in ColumnsOf(c) :
              Hits(d, c.table, c.row, x) => ~Before(c.hlc, NullStamp(d))
      BY <2>1, NullsOfFacts
    <3>4. \A i \in DOMAIN c.value :
              Cell(b.store[c.table], c.row, Unique[c.table][c.constraint].cols[i]) = c.value[i]
      BY <2>1, <3>1, <3>2, <3>3, WinnerReads
    <3> QED BY <2>1, <3>4 DEF Holders
  <2> QED BY <2>1 DEF WinnerHolds
<1> QED BY <1>1, LogInvariance, ClaimsPaired, PTL

\* The null write for a lost claim is in the register, or one after it is.
LEMMA LoserReads ==
    ASSUME NEW b, NEW O, Tellable(b, O), NEW c \in Losers(b.claims),
           c.row \in VisibleRows(b.store[c.table]), NEW i \in DOMAIN c.value,
           Cell(b.store[c.table], c.row, Unique[c.table][c.constraint].cols[i]) = c.value[i],
           c.value[i] # Null,
           \A o \in O : \A x \in ColumnsOf(c) :
               Writes(o, c.table, c.row, x) => ~Before(c.hlc, o.hlc)
    PROVE  \E d \in Losers(b.claims) : /\ d.table = c.table /\ d.row = c.row
                                       /\ ColumnsOf(d) \cap ColumnsOf(c) # {}
                                       /\ NullOrder(c, d) /\ Before(d.hlc, c.hlc)
<1>. DEFINE t == c.table
            r == c.row
            x == Unique[t][c.constraint].cols[i]
            reg == b.store[t].cells[r][x]
            L == Losers(b.claims)
<1>0. \A d \in L : d \in ToSet(b.claims) /\ d \in ClaimOp /\ d.hlc \in Times
  BY ClaimFacts DEF Losers
<1>1. c \in L /\ c.hlc \in Times /\ x \in Columns[t] /\ x \in ColumnsOf(c) /\ t \in Table
  BY <1>0, ClaimFacts DEF ClaimOp
<1>2. CellTells(reg, O, L, t, r, x)
  BY <1>1 DEF Tellable, RowTells
<1>3. \A o \in O : o.hlc \in Times
  BY OpFacts DEF Tellable
<1>4. ReadCell(reg) # Null
  BY DEF Cell
<1>. HIDE DEF L, reg, x, t, r
<1>5. PICK d \in L : /\ Hits(d, t, r, x) /\ (d = c \/ NullOrder(c, d))
                     /\ \E f \in reg : Strikes(f, d)
  <2>1. Hits(c, t, r, x)
    BY <1>1 DEF Hits, t, r
  <2> QED BY <1>1, <1>2, <2>1 DEF CellTells
<1>6. PICK f \in reg : f.hlc = NullStamp(d)
  BY <1>5 DEF Strikes
<1>7. PICK e : Reads(e, reg)
  BY <1>2, <1>6, ReadTop DEF CellTells
<1>8. e \in reg /\ ~Before(e.hlc, NullStamp(d)) /\ e.value # Null
  BY <1>4, <1>6, <1>7 DEF Reads
<1>9. PICK o \in O : Stems(e, o, t, r, x)
  BY <1>2, <1>8 DEF CellTells, Strikes
<1>10. e.hlc \in Times /\ ~Before(c.hlc, e.hlc)
  <2>1. Writes(o, t, r, x) /\ o.hlc = e.hlc
    BY <1>9 DEF Stems, Writes
  <2> QED BY <1>1, <1>3, <2>1 DEF t, r
<1>11. /\ d.hlc \in Times /\ NullStamp(d) \in Times /\ Before(d.hlc, NullStamp(d))
  BY <1>0, <1>5, NullStampFacts
<1>12. Before(d.hlc, e.hlc)
  BY <1>8, <1>10, <1>11, BeforeOrders
<1>13. Before(d.hlc, c.hlc)
  BY <1>1, <1>10, <1>11, <1>12, BeforeOrders
<1>14. NullOrder(c, d)
  <2>1. d # c
    BY <1>1, <1>13, BeforeOrders
  <2> QED BY <1>5, <2>1
<1> QED BY <1>1, <1>5, <1>13, <1>14 DEF Hits, L, t, r

\* After a rebuild no row holds a value it lost, with the exceptions that
\* LosersNulled lists (Engine::apply_uniqueness_results, MvRegister::write).
THEOREM LosersLose == Spec => []LosersNulled
<1>1. LogInv /\ PairedInv => LosersNulled
  <2>. SUFFICES ASSUME LogInv, PairedInv PROVE LosersNulled
    OBVIOUS
  <2>1. ASSUME NEW p \in Peer, NEW b, b = Rebuilt(p), NEW c \in Losers(b.claims),
               c.row \in Holders(b.store[c.table], c.table, c.constraint, c.value),
               ~ (ToSet(c.value) \subseteq {Null}),
               ~ \E h \in WritesOf(p, c.table, c.row, ColumnsOf(c)) : Before(c.hlc, h)
        PROVE  \E d \in Losers(b.claims) : /\ d.table = c.table /\ d.row = c.row
                                           /\ ColumnsOf(d) \cap ColumnsOf(c) # {}
                                           /\ NullOrder(c, d) /\ Before(d.hlc, c.hlc)
    <3>1. Tellable(b, Ops(p))
      BY <2>1, RebuiltTells
    <3>2. \A o \in Ops(p) : \A x \in ColumnsOf(c) :
              Writes(o, c.table, c.row, x) => ~Before(c.hlc, o.hlc)
      BY <2>1, WritesOfFacts
    <3>3. PICK i \in DOMAIN c.value : c.value[i] # Null
      BY <2>1 DEF ToSet
    <3>4. /\ c.row \in VisibleRows(b.store[c.table])
          /\ Cell(b.store[c.table], c.row, Unique[c.table][c.constraint].cols[i]) = c.value[i]
      BY <2>1 DEF Holders
    <3> QED BY <3>1, <3>2, <3>3, <3>4, LoserReads
  <2> QED BY <2>1 DEF LosersNulled, Losers
<1> QED BY <1>1, LogInvariance, ClaimsPaired, PTL

\* A row that is neither updated nor nulled in a column, and was inserted,
\* reads there what its last insert says.
LEMMA InsertReads ==
    ASSUME NEW b, NEW O, Tellable(b, O), NEW t \in Table, NEW r \in VisibleRows(b.store[t]),
           NEW cols, cols \subseteq Columns[t],
           \A o \in O : \A x \in cols : Writes(o, t, r, x) => o.type = "insert",
           \A d \in Losers(b.claims) : \A x \in cols : ~Hits(d, t, r, x)
    PROVE  \E o \in O : /\ Creates(o, t, r)
                        /\ \A x \in cols : Cell(b.store[t], r, x) = o.cells[x]
<1>. DEFINE L == Losers(b.claims)
            reg(x) == b.store[t].cells[r][x]
<1>1. PICK a \in O : Creates(a, t, r)
  BY DEF Tellable, RowTells
<1>2. \A x \in cols : CellTells(reg(x), O, L, t, r, x)
  BY DEF Tellable, RowTells
<1>3. \A o \in O : o.hlc \in Times
  BY OpFacts DEF Tellable
<1>4. ASSUME NEW o \in O, Creates(o, t, r), NEW x \in cols PROVE Writes(o, t, r, x)
  <2>1. DOMAIN o.cells = Columns[t]
    BY <1>4 DEF Tellable, Paired, ClaimsAll, Creates
  <2> QED BY <1>4, <2>1 DEF Writes, Creates
<1>5. \A x \in cols : Cell(b.store[t], r, x) = ReadCell(reg(x))
  BY DEF Cell
<1>. HIDE DEF L, reg
<1>6. ASSUME NEW x \in cols, NEW e \in reg(x)
      PROVE  \E o \in O : Creates(o, t, r) /\ o.hlc = e.hlc /\ o.cells[x] = e.value
  <2>1. PICK o \in O : Stems(e, o, t, r, x)
    BY <1>2, <1>6 DEF CellTells, L
  <2>2. Writes(o, t, r, x)
    BY <2>1 DEF Stems, Writes
  <2> QED BY <2>1, <2>2 DEF Stems, Creates
<1>7. ASSUME NEW x \in cols
      PROVE  \E o \in O : /\ Creates(o, t, r) /\ ReadCell(reg(x)) = o.cells[x]
                          /\ \A u \in O : Creates(u, t, r) => ~Before(o.hlc, u.hlc)
  <2>1. CellTells(reg(x), O, L, t, r, x)
    BY <1>2
  <2>2. \A u \in O : Creates(u, t, r) => \E f \in reg(x) : f.hlc = u.hlc \/ Before(u.hlc, f.hlc)
    BY <1>4, <2>1 DEF CellTells, Stems
  <2>3. reg(x) # {} /\ Topped(reg(x))
    BY <1>1, <2>1, <2>2 DEF CellTells
  <2>4. PICK e : Reads(e, reg(x))
    BY <2>3, ReadTop
  <2>5. PICK o \in O : Creates(o, t, r) /\ o.hlc = e.hlc /\ o.cells[x] = e.value
    BY <1>6, <2>4 DEF Reads
  <2>6. ASSUME NEW u \in O, Creates(u, t, r) PROVE ~Before(o.hlc, u.hlc)
    <3>1. PICK f \in reg(x) : f.hlc = u.hlc \/ Before(u.hlc, f.hlc)
      BY <2>2, <2>6
    <3>2. f.hlc \in Times
      BY <1>3, <1>6
    <3>3. ~Before(e.hlc, f.hlc)
      BY <2>4 DEF Reads
    <3> QED BY <1>3, <2>5, <3>1, <3>2, <3>3, BeforeOrders
  <2> QED BY <2>4, <2>5, <2>6 DEF Reads
<1>8. ASSUME NEW o \in O, Creates(o, t, r), NEW u \in O, Creates(u, t, r),
             ~Before(o.hlc, u.hlc), ~Before(u.hlc, o.hlc)
      PROVE  o = u
  <2>1. o.hlc = u.hlc
    BY <1>3, <1>8, BeforeOrders
  <2>2. Tie(o, u)
    BY <1>8, <2>1 DEF Tie, Tier, Creates, IsClaim
  <2> QED BY <2>2 DEF Tellable
<1>9. CASE cols = {}
  BY <1>1, <1>9
<1>10. CASE cols # {}
  <2>1. PICK z \in cols : TRUE
    BY <1>10
  <2>2. PICK o \in O : /\ Creates(o, t, r)
                       /\ \A u \in O : Creates(u, t, r) => ~Before(o.hlc, u.hlc)
    BY <1>7, <2>1
  <2>3. \A x \in cols : Cell(b.store[t], r, x) = o.cells[x]
    BY <1>5, <1>7, <1>8, <2>2
  <2> QED BY <2>2, <2>3
<1> QED BY <1>9, <1>10

LEMMA HolderClaims ==
    ASSUME NEW b, NEW O, Tellable(b, O), NEW c \in ToSet(b.claims),
           NEW r \in Holders(b.store[c.table], c.table, c.constraint, c.value),
           \A o \in O : \A x \in ColumnsOf(c) : Writes(o, c.table, r, x) => o.type = "insert",
           \A d \in Losers(b.claims) : \A x \in ColumnsOf(c) : ~Hits(d, c.table, r, x)
    PROVE  \E d \in ToSet(b.claims) : SameValue(c, d) /\ d.row = r
<1>. DEFINE t == c.table
            k == c.constraint
            u == Unique[t][k]
            cols == ColumnsOf(c)
<1>1. c \in ClaimOp /\ Sound(c) /\ t \in Table /\ k \in DOMAIN Unique[t]
  BY ClaimFacts DEF ClaimOp, Sound
<1>2. /\ DOMAIN c.value = DOMAIN u.cols /\ (u.composite \/ c.value[1] # Null)
      /\ u.cols \in Seq(STRING) /\ (u.composite \/ Len(u.cols) = 1)
      /\ c.value = [i \in DOMAIN c.value |-> c.value[i]]
  BY <1>1, UniqueFacts DEF Sound, ClaimOp
<1>3. /\ \A i \in DOMAIN u.cols : u.cols[i] \in cols
      /\ cols \subseteq Columns[t]
  BY <1>1, UniqueFacts DEF ColumnsOf, ToSet
<1>4. /\ r \in VisibleRows(b.store[t])
      /\ \A i \in DOMAIN c.value : Cell(b.store[t], r, u.cols[i]) = c.value[i]
  BY DEF Holders
<1>. DEFINE G(o) == /\ Creates(o, t, r)
                    /\ \A x \in cols : Cell(b.store[t], r, x) = o.cells[x]
<1>5. PICK o \in O : G(o)
  <2>. HIDE DEF cols, t
  <2>1. /\ \A o \in O : \A x \in cols : Writes(o, t, r, x) => o.type = "insert"
        /\ \A d \in Losers(b.claims) : \A x \in cols : ~Hits(d, t, r, x)
    BY DEF cols, t
  <2> QED BY <1>1, <1>3, <1>4, <2>1, InsertReads
<1>. HIDE DEF t, k, u, cols
<1>6. \A i \in DOMAIN u.cols : o.cells[u.cols[i]] = c.value[i]
  BY <1>2, <1>3, <1>4, <1>5
<1>7. Claimed(t, k, o.cells)
  <2>1. ASSUME ~u.composite PROVE o.cells[u.cols[1]] # Null
    <3>1. 1 \in DOMAIN u.cols /\ c.value[1] # Null
      BY <1>2, <2>1
    <3> QED BY <1>6, <3>1
  <2> QED BY <2>1 DEF Claimed, u
<1>. DEFINE a == Reservation(t, k, r, o.hlc, o.cells)
            val == [i \in DOMAIN u.cols |-> o.cells[u.cols[i]]]
<1>8. /\ a.table = t /\ a.constraint = k /\ a.row = r /\ IsClaim(a)
      /\ a.value = val
  BY DEF Reservation, IsClaim, u
<1>. HIDE DEF a
<1>9. a \in O
  BY <1>1, <1>5, <1>7 DEF Tellable, Paired, ClaimsAll, Creates, a
<1>10. a.value = c.value
  <2>1. val = [i \in DOMAIN u.cols |-> c.value[i]]
    BY <1>6
  <2> QED BY <1>2, <1>8, <2>1
<1>11. PICK d \in ToSet(b.claims) : SameValue(d, a) /\ d.row = a.row
  <2>1. a \in ClaimsOf(O)
    BY <1>8, <1>9 DEF ClaimsOf
  <2> QED BY <2>1 DEF Tellable, StandsFor
<1>12. SameValue(c, d)
  BY <1>8, <1>10, <1>11 DEF SameValue, t, k
<1> QED BY <1>8, <1>11, <1>12

\* After a rebuild a row that holds a claimed value has claimed it, or got it
\* by an update or through a null write (Planner::plan_insert, plan_update).
THEOREM HoldersClaim == Spec => []HoldersClaimed
<1>1. LogInv /\ PairedInv => HoldersClaimed
  <2>. SUFFICES ASSUME LogInv, PairedInv PROVE HoldersClaimed
    OBVIOUS
  <2>1. ASSUME NEW p \in Peer, NEW b, b = Rebuilt(p), NEW c \in ToSet(b.claims),
               NEW r \in Holders(b.store[c.table], c.table, c.constraint, c.value),
               ~ \E o \in Ops(p) : /\ o.type = "update" /\ o.table = c.table /\ o.row = r
                                   /\ ColumnsOf(c) \cap DOMAIN o.cells # {},
               NullsOf(b.claims, {}, c.table, r, ColumnsOf(c)) = {}
        PROVE  \E d \in ToSet(b.claims) : SameValue(c, d) /\ d.row = r
    <3>1. Tellable(b, Ops(p))
      BY <2>1, RebuiltTells
    <3>2. \A o \in Ops(p) : \A x \in ColumnsOf(c) :
              Writes(o, c.table, r, x) => o.type = "insert"
      BY <2>1 DEF Writes
    <3>3. \A d \in Losers(b.claims) : \A x \in ColumnsOf(c) : ~Hits(d, c.table, r, x)
      <4>1. SUFFICES ASSUME NEW d \in Losers(b.claims), NEW x \in ColumnsOf(c),
                            Hits(d, c.table, r, x)
                     PROVE  FALSE
        OBVIOUS
      <4>2. d \in Losers(b.claims) \ {}
        OBVIOUS
      <4>3. NullStamp(d) \in NullsOf(b.claims, {}, c.table, r, ColumnsOf(c))
        BY <4>1, <4>2, NullsOfFacts
      <4> QED BY <2>1, <4>3
    <3> QED BY <3>1, <3>2, <3>3, HolderClaims
  <2> QED BY <2>1 DEF HoldersClaimed
<1> QED BY <1>1, LogInvariance, ClaimsPaired, PTL
-----------------------------------------------------------------------------
(* Physical clocks that are close, and the rows they order.                *)

\* No physical clock is ahead of another by the time an exchange takes.
CloseClocks == \A p, q \in Peer : Offset[p] < Offset[q] + SyncTime

\* No timestamp is ahead of the physical clock of the peer that made it, and an
\* exchange has passed since if another peer has it.
TimeInv ==
    \A p \in Peer :
        /\ clock[p].wall =< WallClock(p)
        /\ \A o \in Ops(p) :
              /\ o.hlc.wall =< WallClock(o.hlc.peer)
              /\ o.hlc.peer # p => o.hlc.wall + SyncTime =< WallClock(o.hlc.peer)

\* A statement of p logs ops and leaves the other peers alone.
LEMMA PerformsLogs ==
    ASSUME LogInv, NEW p \in Peer, NEW t \in Table, NEW stamps \in Seq(Stamps),
           NEW ops \in Seq(Op), Perform(p, t, stamps, ops)
    PROVE  /\ now' = now /\ policy' = policy
           /\ clock'[p] = ObserveAll(p, stamps, ops)
           /\ Ops(p)' = Ops(p) \cup ToSet(ops)
           /\ \A q \in Peer \ {p} : clock'[q] = clock[q] /\ Ops(q)' = Ops(q)
<1>1. /\ clock' = [clock EXCEPT ![p] = ObserveAll(p, stamps, ops)]
      /\ log' = [log EXCEPT ![p] = AppendAll(log[p], ops)]
      /\ now' = now /\ policy' = policy
  BY DEF Perform
<1>2. /\ log[p] \in Seq(Op) /\ Distinct(log[p]) /\ log \in [Peer -> Seq(Op)]
      /\ clock \in [Peer -> Clock]
  BY DEF LogInv, LogTyped, NoDuplicates
<1>3. Ops(p)' = Ops(p) \cup ToSet(ops)
  <2>1. log'[p] = AppendAll(log[p], ops)
    BY <1>1, <1>2
  <2> QED BY <1>2, <2>1, AppendAllFacts DEF Ops
<1> QED BY <1>1, <1>2, <1>3 DEF Ops

\* A statement is stamped at the physical time of its peer, which the clock does
\* not pass.
LEMMA PerformsInTime ==
    ASSUME LogInv, TimeInv, NEW p \in Peer, NEW t \in Table, NEW stamps \in Seq(Stamps),
           NEW ops \in Seq(Op), Perform(p, t, stamps, ops), Ready(p, t, stamps, ops)
    PROVE  /\ clock'[p].wall =< WallClock(p)
           /\ \A o \in ToSet(ops) : /\ o.hlc.peer = p /\ o.hlc.wall = WallClock(p)
                                    /\ Earlier(clock[p], o.hlc)
<1>. DEFINE w == WallClock(p)
<1>1. LogTyped /\ clock[p] \in Clock /\ clock[p].wall =< w /\ w \in Nat
  BY WallClockFacts DEF LogInv, LogTyped, TimeInv
<1>. HIDE DEF w
<1>2. Larger(clock[p].wall, w) = w
  BY <1>1 DEF Larger, Clock
<1>3. PICK n \in Nat \ {0} : Stamped(stamps, p, n, clock[p])
  BY DEF Ready
<1>4. /\ Len(stamps) = n /\ DOMAIN stamps = 1..n
      /\ \A i \in 1..n : /\ stamps[i] \in Stamps /\ stamps[i].peer = p
                         /\ Earlier(clock[p], stamps[i]) /\ stamps[i].wall = w
  BY <1>2, <1>3 DEF Stamped, w
<1>5. \A o \in ToSet(ops) : \E i \in DOMAIN stamps : o.hlc = stamps[i]
  BY DEF Ready
<1>6. \A o \in ToSet(ops) : o.hlc.peer = p /\ o.hlc.wall = w /\ Earlier(clock[p], o.hlc)
  BY <1>4, <1>5
<1>7. ObserveAll(p, stamps, ops).wall =< w
  <2>1. Last(stamps) \in Stamps /\ Last(stamps).wall = w
    <3>1. n \in 1..n
      OBVIOUS
    <3> QED BY <1>4, <3>1 DEF Last
  <2>2. \A i \in 1..Len(ops) : ops[i].hlc.wall = w
    BY <1>6 DEF ToSet
  <2>3. w =< w
    BY <1>1
  <2> QED BY <1>1, <2>1, <2>2, <2>3, ObserveAllBound DEF w
<1> QED BY <1>6, <1>7, PerformsLogs DEF w

\* Time passes while nothing is stamped.
LEMMA TimePasses ==
    ASSUME LogInv, TimeInv, NEW d \in Nat, now' = now + d, UNCHANGED <<clock, log>>
    PROVE  TimeInv'
<1>1. LogTyped /\ now \in Nat /\ SyncTime \in Nat
  BY TimeAssumption DEF LogInv, LogTyped
<1>2. SUFFICES ASSUME NEW p \in Peer
               PROVE  /\ clock[p].wall =< now + d + Offset[p]
                      /\ \A o \in Ops(p) :
                            /\ o.hlc.wall =< now + d + Offset[o.hlc.peer]
                            /\ o.hlc.peer # p =>
                                  o.hlc.wall + SyncTime =< now + d + Offset[o.hlc.peer]
  BY DEF TimeInv, Ops, WallClock
<1>3. clock[p].wall \in Nat /\ Offset[p] \in Nat
  BY <1>1, TimeAssumption DEF LogTyped, Clock
<1>4. clock[p].wall =< now + Offset[p]
  BY DEF TimeInv, WallClock
<1>5. ASSUME NEW o \in Ops(p)
      PROVE  /\ o.hlc.wall =< now + d + Offset[o.hlc.peer]
             /\ o.hlc.peer # p => o.hlc.wall + SyncTime =< now + d + Offset[o.hlc.peer]
  <2>1. o.hlc \in Stamps
    BY <1>1, OpsTyped
  <2>2. o.hlc.wall \in Nat /\ Offset[o.hlc.peer] \in Nat
    BY <2>1, TimeAssumption DEF Stamps
  <2>3. /\ o.hlc.wall =< now + Offset[o.hlc.peer]
        /\ o.hlc.peer # p => o.hlc.wall + SyncTime =< now + Offset[o.hlc.peer]
    BY DEF TimeInv, WallClock
  <2> QED BY <1>1, <2>2, <2>3
<1>6. clock[p].wall =< now + d + Offset[p]
  BY <1>1, <1>3, <1>4
<1> QED BY <1>5, <1>6

\* An exchange takes its time.
LEMMA ExchangesInTime ==
    ASSUME LogInv, TimeInv, Exchanges, now' = now + SyncTime
    PROVE  TimeInv'
<1>1. LogTyped /\ now \in Nat /\ SyncTime \in Nat
  BY TimeAssumption DEF LogInv, LogTyped
<1>2. clock' = clock /\ \A p \in Peer : \E q \in Peer : Ops(p)' = Ops(p) \cup Ops(q)
  BY DEF Exchanges
<1>3. SUFFICES ASSUME NEW p \in Peer
               PROVE  /\ clock[p].wall =< now + SyncTime + Offset[p]
                      /\ \A o \in Ops(p)' :
                            o.hlc.wall + SyncTime =< now + SyncTime + Offset[o.hlc.peer]
                            /\ o.hlc.wall =< now + SyncTime + Offset[o.hlc.peer]
  BY <1>2 DEF TimeInv, WallClock
<1>4. clock[p].wall \in Nat /\ Offset[p] \in Nat /\ clock[p].wall =< now + Offset[p]
  BY <1>1, TimeAssumption DEF LogTyped, Clock, TimeInv, WallClock
<1>5. ASSUME NEW o \in Ops(p)'
      PROVE  o.hlc.wall + SyncTime =< now + SyncTime + Offset[o.hlc.peer]
             /\ o.hlc.wall =< now + SyncTime + Offset[o.hlc.peer]
  <2>1. PICK q \in Peer : o \in Ops(q)
    BY <1>2
  <2>2. o.hlc \in Stamps /\ o.hlc.wall =< now + Offset[o.hlc.peer]
    BY <1>1, <2>1, OpsTyped DEF TimeInv, WallClock
  <2>3. o.hlc.wall \in Nat /\ Offset[o.hlc.peer] \in Nat
    BY <2>2, TimeAssumption DEF Stamps
  <2> QED BY <1>1, <2>2, <2>3
<1>6. clock[p].wall =< now + SyncTime + Offset[p]
  BY <1>1, <1>4
<1> QED BY <1>5, <1>6

LEMMA TimeInvInit == Init => TimeInv
<1>. SUFFICES ASSUME Init, NEW p \in Peer
              PROVE  clock[p].wall =< WallClock(p) /\ Ops(p) = {}
  BY DEF TimeInv
<1>1. now = 0 /\ clock[p].wall = 0 /\ log[p] = <<>> /\ Offset[p] \in Nat
  BY TimeAssumption DEF Init
<1>2. Ops(p) = {}
  BY <1>1 DEF Ops, ToSet
<1> QED BY <1>1, <1>2 DEF WallClock

LEMMA TimeInvStep ==
    ASSUME LogInv, TimeInv, [Next]_vars
    PROVE  TimeInv'
<1>1. ASSUME NEW p \in Peer, Performs(p) PROVE TimeInv'
  <2>1. PICK t \in Table, stamps \in Seq(Stamps), ops \in Seq(Op) :
            Perform(p, t, stamps, ops) /\ Ready(p, t, stamps, ops)
    BY <1>1 DEF Performs
  <2>2. /\ now' = now
        /\ Ops(p)' = Ops(p) \cup ToSet(ops)
        /\ \A q \in Peer \ {p} : clock'[q] = clock[q] /\ Ops(q)' = Ops(q)
    BY <2>1, PerformsLogs
  <2>3. /\ clock'[p].wall =< WallClock(p)
        /\ \A o \in ToSet(ops) : o.hlc.peer = p /\ o.hlc.wall = WallClock(p)
    BY <2>1, PerformsInTime
  <2>6. \A q \in Peer : clock'[q].wall =< WallClock(q)
    BY <2>2, <2>3 DEF TimeInv
  <2>7. ASSUME NEW q \in Peer, NEW o \in Ops(q)'
        PROVE  /\ o.hlc.wall =< WallClock(o.hlc.peer)
               /\ o.hlc.peer # q => o.hlc.wall + SyncTime =< WallClock(o.hlc.peer)
    <3>1. CASE o \in Ops(q)
      BY <3>1 DEF TimeInv
    <3>2. CASE o \notin Ops(q)
      <4>1. q = p /\ o \in ToSet(ops)
        BY <2>2, <3>2
      <4>2. WallClock(p) \in Nat
        BY WallClockFacts DEF LogInv
      <4> QED BY <2>3, <4>1, <4>2
    <3> QED BY <3>1, <3>2
  <2> QED BY <2>2, <2>6, <2>7 DEF TimeInv, WallClock
<1>2. ASSUME NEW p \in Peer, InsertRejected(p) PROVE TimeInv'
  <2>1. /\ clock' = [clock EXCEPT ![p] = TickClock(clock[p], WallClock(p))]
        /\ now' = now /\ log' = log
    BY <1>2 DEF InsertRejected
  <2>2. clock[p] \in Clock /\ WallClock(p) \in Nat /\ clock \in [Peer -> Clock]
    BY WallClockFacts DEF LogInv, LogTyped
  <2>3. TickClock(clock[p], WallClock(p)).wall =< WallClock(p)
    <3>1. clock[p].wall =< WallClock(p)
      BY DEF TimeInv
    <3> QED BY <2>2, <3>1 DEF TickClock, Clock
  <2>4. \A q \in Peer : clock'[q].wall =< WallClock(q)
    BY <2>1, <2>2, <2>3 DEF TimeInv
  <2>5. \A q \in Peer : Ops(q)' = Ops(q)
    BY <2>1 DEF Ops
  <2> QED BY <2>1, <2>4, <2>5 DEF TimeInv, WallClock
<1>3. ASSUME NEW p \in Peer, NEW q \in Peer, p # q, Sync(p, q) PROVE TimeInv'
  <2>1. Exchanges /\ now' = now + SyncTime
    BY <1>3, SyncLogs DEF Sync, Passing
  <2> QED BY <2>1, ExchangesInTime
<1>4. ASSUME NEW p \in Peer, NEW q \in Peer, SyncFrom(p, q) PROVE TimeInv'
  <2>1. Exchanges /\ now' = now + SyncTime
    BY <1>4, SyncFromLogs DEF SyncFrom, Passing
  <2> QED BY <2>1, ExchangesInTime
<1>5. ASSUME \E p \in Peer : Recover(p) PROVE TimeInv'
  <2>1. now' = now + 0 /\ UNCHANGED <<clock, log>>
    BY <1>5, TimeAssumption DEF Recover, RebuildAll, LogInv, LogTyped
  <2> QED BY <2>1, TimePasses
<1>6. CASE Pass
  <2>1. now' = now + 1 /\ UNCHANGED <<clock, log>>
    BY <1>6 DEF Pass, Passing
  <2> QED BY <2>1, TimePasses
<1>7. CASE UNCHANGED vars
  <2>1. now' = now + 0 /\ UNCHANGED <<clock, log>>
    BY <1>7, TimeAssumption DEF vars, LogInv, LogTyped
  <2> QED BY <2>1, TimePasses
<1>8. ASSUME NEW p \in Peer, Insert(p) \/ Update(p) \/ Delete(p) PROVE Performs(p)
  BY <1>8, InsertPerforms, UpdatePerforms, DeletePerforms DEF LogInv
<1>9. \A p, q \in Peer : p < q => p # q
  BY PeersAssumption
<1> QED BY <1>1, <1>2, <1>3, <1>4, <1>5, <1>6, <1>7, <1>8, <1>9 DEF Next

\* Whatever the skew, no peer stamps an operation ahead of its own physical
\* clock, and none has an operation of another before an exchange has had time
\* to bring it (HlcClock::tick, Engine::sync_with).
THEOREM StampsInTime == Spec => []TimeInv
<1>1. LogInv /\ TimeInv /\ [Next]_vars => TimeInv'
  BY TimeInvStep
<1> QED BY <1>1, TimeInvInit, LogInvariance, PTL DEF Spec

LEMMA LateEnough ==
    \A a, d, n, x, y \in Nat : a + d =< n + x /\ x < y + d => a < n + y
OBVIOUS

\* With close clocks a peer stamps a statement after all it has heard of.
LEMMA PerformsLater ==
    ASSUME LogInv, TimeInv, CloseClocks, NEW p \in Peer, NEW t \in Table,
           NEW stamps \in Seq(Stamps), NEW ops \in Seq(Op),
           Perform(p, t, stamps, ops), Ready(p, t, stamps, ops)
    PROVE  \A a \in Ops(p), o \in ToSet(ops) : Before(a.hlc, o.hlc)
<1>. SUFFICES ASSUME NEW a \in Ops(p), NEW o \in ToSet(ops) PROVE Before(a.hlc, o.hlc)
  OBVIOUS
<1>1. o.hlc.peer = p /\ o.hlc.wall = WallClock(p) /\ Earlier(clock[p], o.hlc)
  BY PerformsInTime
<1>2. a.hlc \in Stamps /\ clock[p] \in Clock
  BY OpsTyped DEF LogInv, LogTyped
<1>3. o.hlc \in Stamps
  <2>1. o \in Op
    BY DEF ToSet
  <2> QED BY <2>1 DEF Op, RowOp, ClaimOp
<1>4. CASE a.hlc.peer = p
  <2>1. ~Earlier(clock[p], a.hlc)
    BY <1>4 DEF LogInv, Floor
  <2> QED BY <1>1, <1>2, <1>3, <2>1 DEF Before, Earlier, Clock, Stamps
<1>5. CASE a.hlc.peer # p
  <2>. DEFINE q == a.hlc.peer
  <2>1. q \in Peer /\ a.hlc.wall \in Nat
    BY <1>2 DEF Stamps
  <2>2. a.hlc.wall + SyncTime =< now + Offset[q]
    BY <1>5 DEF TimeInv, WallClock
  <2>. HIDE DEF q
  <2>3. Offset[q] < Offset[p] + SyncTime
    BY <2>1 DEF CloseClocks
  <2>4. now \in Nat /\ SyncTime \in Nat /\ Offset[q] \in Nat /\ Offset[p] \in Nat
    BY <2>1, TimeAssumption DEF LogInv, LogTyped
  <2>5. a.hlc.wall < now + Offset[p]
    BY <2>1, <2>2, <2>3, <2>4, LateEnough
  <2> QED BY <1>1, <2>5 DEF Before, Earlier, WallClock
<1> QED BY <1>4, <1>5

-----------------------------------------------------------------------------
(* What the members of a table recall of the inserts and deletes.          *)

Deletes(o, t, r) == o.type = "delete" /\ o.table = t /\ o.row = r

\* Some delete among S of row r of table t comes after timestamp h.
Undone(h, S, t, r) == \E d \in S : Deletes(d, t, r) /\ Before(h, d.hlc)

\* Row r of table t as operations S leave it: inserted, and not deleted since.
Stands(S, t, r) == \E o \in S : Creates(o, t, r) /\ ~Undone(o.hlc, S, t, r)

\* Entry e has the tokens of the inserts among S, the undone ones removed.
Recalls(e, S, t, r) ==
    /\ \A h \in e.live : \E o \in S : Creates(o, t, r) /\ o.hlc = h
    /\ \A o \in S : Creates(o, t, r) => o.hlc \in e.live
    /\ \A h \in e.live : h \in e.removed <=> Undone(h, S, t, r)
    /\ e.tombstone # {} => e.live \subseteq e.removed

\* Every row of store x recalls operations S.
Recounts(x, S) == \A t \in Table, r \in Row : Recalls(x[t].members[r], S, t, r)

\* Operation o comes after the deletes among S if it is an insert, and after the
\* inserts if it is a delete.
Crowns(o, S) ==
    /\ o.type = "insert" => \A d \in S : d.type = "delete" => Before(d.hlc, o.hlc)
    /\ o.type = "delete" => \A i \in S : i.type = "insert" => Before(i.hlc, o.hlc)

\* An entry that recalls S shows the row when it stands.
LEMMA RecallShows ==
    ASSUME NEW e \in Entry, NEW S, NEW t, NEW r, Recalls(e, S, t, r)
    PROVE  IsVisible(e) <=> Stands(S, t, r)
<1>1. e.live \ e.removed # {} => e.tombstone = {}
  BY DEF Recalls
<1>2. ASSUME NEW h \in e.live \ e.removed PROVE Stands(S, t, r)
  BY DEF Recalls, Stands
<1>3. ASSUME NEW o \in S, Creates(o, t, r), ~Undone(o.hlc, S, t, r)
      PROVE  o.hlc \in e.live \ e.removed
  BY <1>3 DEF Recalls
<1> QED BY <1>1, <1>2, <1>3 DEF IsVisible, IsLive, Stands

\* Timestamps are not before themselves or each other.
LEMMA BeforeStrict ==
    ASSUME NEW g \in Stamps, NEW h \in Stamps, Before(g, h)
    PROVE  g # h /\ ~Before(h, g)
<1>1. g.wall \in Nat /\ h.wall \in Nat /\ g.logical \in Nat /\ h.logical \in Nat
      /\ g.peer \in Nat /\ h.peer \in Nat
  BY PeersAssumption DEF Stamps
<1> QED BY <1>1 DEF Before, Earlier

\* The row of an operation that crowns what the entry recalls.
LEMMA EntryRecalls ==
    ASSUME NEW e \in Entry, NEW S, S \subseteq Op, NEW o \in Op, ~IsClaim(o),
           Recalls(e, S, o.table, o.row), Crowns(o, S)
    PROVE  Recalls(EntryAfter(e, o), S \cup {o}, o.table, o.row)
<1>. DEFINE t == o.table
            r == o.row
            d == EntryAfter(e, o)
            Z == S \cup {o}
<1>1. o.type \in {"insert", "update", "delete"}
  BY OpFacts
<1>2. e \in [live : SUBSET Times, removed : SUBSET Times, tombstone : SUBSET Times]
      /\ e.removed \subseteq e.live
  BY DEF Entry
<1>3. \A a \in Z : a.hlc \in Stamps
  BY DEF Op, RowOp, ClaimOp
<1>4. \A h : Undone(h, S, t, r) => Undone(h, Z, t, r)
  BY DEF Undone
<1>5. CASE o.type = "insert"
  <2>1. d.live = e.live \cup {o.hlc} /\ d.removed = e.removed /\ d.tombstone = {}
    BY <1>2, <1>5 DEF EntryAfter, AddToken
  <2>2. Creates(o, t, r) /\ ~Deletes(o, t, r)
    BY <1>5 DEF Creates, Deletes
  <2>3. \A h : Undone(h, Z, t, r) <=> Undone(h, S, t, r)
    BY <2>2 DEF Undone
  <2>4. ~Undone(o.hlc, S, t, r)
    <3>1. ASSUME NEW u \in S, Deletes(u, t, r), Before(o.hlc, u.hlc) PROVE FALSE
      <4>1. Before(u.hlc, o.hlc)
        BY <1>5, <3>1 DEF Crowns, Deletes
      <4> QED BY <1>3, <3>1, <4>1, BeforeStrict
    <3> QED BY <3>1 DEF Undone
  <2>. HIDE DEF d, t, r
  <2>5. \A h \in e.live : h \in e.removed <=> Undone(h, S, t, r)
    BY DEF Recalls, t, r
  <2>6. \A h \in d.live : h \in d.removed <=> Undone(h, Z, t, r)
    BY <1>2, <2>1, <2>3, <2>4, <2>5
  <2>7. /\ \A h \in d.live : \E u \in Z : Creates(u, t, r) /\ u.hlc = h
        /\ \A u \in Z : Creates(u, t, r) => u.hlc \in d.live
    BY <2>1, <2>2 DEF Recalls, t, r
  <2>8. Recalls(d, Z, t, r)
    BY <2>1, <2>6, <2>7 DEF Recalls
  <2> QED BY <2>8 DEF d, t, r
<1>6. CASE o.type = "update"
  <2>1. d = e /\ ~Creates(o, t, r) /\ ~Deletes(o, t, r)
    BY <1>6 DEF EntryAfter, Creates, Deletes
  <2>2. \A h : Undone(h, Z, t, r) <=> Undone(h, S, t, r)
    BY <2>1 DEF Undone
  <2>. HIDE DEF d, t, r
  <2>3. Recalls(d, Z, t, r)
    BY <2>1, <2>2 DEF Recalls, t, r
  <2> QED BY <2>3 DEF d, t, r
<1>7. CASE o.type = "delete"
  <2>1. d = RemoveTokens(e, o.hlc, o.fkTombstone) /\ ~Creates(o, t, r) /\ Deletes(o, t, r)
    BY <1>7 DEF EntryAfter, Creates, Deletes
  <2>2. d.live = e.live /\ d.removed = e.live
    <3>1. CASE e = Absent
      BY <2>1, <3>1 DEF RemoveTokens, Absent
    <3>2. CASE e # Absent
      BY <1>2, <2>1, <3>2 DEF RemoveTokens
    <3> QED BY <3>1, <3>2
  <2>. HIDE DEF d, t, r
  <2>3. ASSUME NEW h \in e.live PROVE Undone(h, Z, t, r)
    <3>1. PICK u \in S : Creates(u, t, r) /\ u.hlc = h
      BY DEF Recalls, t, r
    <3>2. Before(h, o.hlc)
      BY <1>7, <3>1 DEF Crowns, Creates
    <3> QED BY <2>1, <3>2 DEF Undone
  <2>4. /\ \A h \in d.live : \E u \in Z : Creates(u, t, r) /\ u.hlc = h
        /\ \A u \in Z : Creates(u, t, r) => u.hlc \in d.live
    BY <2>1, <2>2 DEF Recalls, t, r
  <2>5. Recalls(d, Z, t, r)
    BY <2>2, <2>3, <2>4 DEF Recalls
  <2> QED BY <2>5 DEF d, t, r
<1> QED BY <1>1, <1>5, <1>6, <1>7

\* Operations on other rows are not recalled.
LEMMA RecallsOthers ==
    ASSUME NEW e, NEW S, NEW Z, S \subseteq Z, NEW t, NEW r, Recalls(e, S, t, r),
           \A o \in Z \ S : ~Creates(o, t, r) /\ ~Deletes(o, t, r)
    PROVE  Recalls(e, Z, t, r)
<1>1. \A h : Undone(h, Z, t, r) <=> Undone(h, S, t, r)
  BY DEF Undone
<1> QED BY <1>1 DEF Recalls

LEMMA ApplyRecounts ==
    ASSUME NEW x \in Store, NEW S, S \subseteq Op, NEW o \in Op, ~IsClaim(o),
           Recounts(x, S), Crowns(o, S)
    PROVE  Recounts(ApplyOp(x, o), S \cup {o})
<1>. DEFINE y == ApplyOp(x, o)
            Z == S \cup {o}
<1>1. Applied(y, x, o)
  BY ApplyOpApplies
<1>. HIDE DEF y
<1>2. ASSUME NEW t \in Table, NEW r \in Row PROVE Recalls(y[t].members[r], Z, t, r)
  <2>. DEFINE e == x[t].members[r]
  <2>1. e \in Entry /\ Recalls(e, S, t, r)
    BY DEF Store, TableState, Recounts
  <2>2. CASE t = o.table /\ r = o.row
    <3>1. y[t].members[r] = EntryAfter(e, o)
      BY <1>1, <2>2 DEF Applied
    <3> HIDE DEF e
    <3>2. Recalls(EntryAfter(e, o), Z, t, r)
      BY <2>1, <2>2, EntryRecalls
    <3> QED BY <3>1, <3>2
  <2>3. CASE ~(t = o.table /\ r = o.row)
    <3>1. y[t].members[r] = e
      BY <1>1, <2>3 DEF Applied
    <3>2. ~Creates(o, t, r) /\ ~Deletes(o, t, r)
      BY <2>3 DEF Creates, Deletes
    <3> HIDE DEF e
    <3>3. Recalls(e, Z, t, r)
      BY <2>1, <3>2, RecallsOthers
    <3> QED BY <3>1, <3>3
  <2> QED BY <2>2, <2>3
<1> QED BY <1>2 DEF Recounts, y, Z

\* Operations v that can follow operations S, each crowning those before it.
Rises(v, n, S) ==
    /\ \A i \in 1..n : v[i] \in Op /\ ~IsClaim(v[i]) /\ Crowns(v[i], S)
    /\ \A i, j \in 1..n : i < j => Crowns(v[j], {v[i]})

LEMMA ReplaysRecount ==
    ASSUME NEW n \in Nat, NEW v, NEW x, NEW S, S \subseteq Op,
           Replays(x, v, n), Recounts(x[0], S), Rises(v, n, S)
    PROVE  Recounts(x[n], UpTo(S, v, n))
<1>. DEFINE K == {k \in 0..n : Recounts(x[k], UpTo(S, v, k))}
<1>1. 0 \in K
  <2>1. UpTo(S, v, 0) = S
    BY DEF UpTo
  <2> QED BY <2>1
<1>2. ASSUME NEW k \in 1..n, k - 1 \in K PROVE k \in K
  <2>. DEFINE y == x[k - 1]
              o == v[k]
              Z == UpTo(S, v, k - 1)
  <2>1. k \in 0..n /\ k - 1 \in 0..n
    OBVIOUS
  <2>2. y \in Store /\ x[k] = ApplyOp(y, o) /\ Recounts(y, Z)
    BY <1>2, <2>1 DEF Replays
  <2>3. o \in Op /\ ~IsClaim(o) /\ Crowns(o, S)
    BY DEF Rises
  <2>4. UpTo(S, v, k) = Z \cup {o}
    <3>1. \A i \in Int : i \in 1..k <=> i = k \/ i \in 1..(k - 1)
      OBVIOUS
    <3> QED BY <3>1 DEF UpTo
  <2>5. \A a \in Z : a \in S \/ \E i \in 1..(k - 1) : a = v[i]
    BY DEF UpTo
  <2>6. \A i \in 1..(k - 1) : i \in 1..n /\ v[i] \in Op /\ Crowns(o, {v[i]})
    <3>1. \A i \in 1..(k - 1) : i \in 1..n /\ i < k
      OBVIOUS
    <3> QED BY <3>1 DEF Rises
  <2>. HIDE DEF y, o, Z
  <2>7. Z \subseteq Op
    BY <2>5, <2>6
  <2>8. Crowns(o, Z)
    BY <2>3, <2>5, <2>6 DEF Crowns
  <2>9. Recounts(x[k], Z \cup {o})
    BY <2>2, <2>3, <2>7, <2>8, ApplyRecounts
  <2> QED BY <2>1, <2>4, <2>9
<1>3. 0..n \subseteq K
  <2> HIDE DEF K
  <2> QED BY <1>1, <1>2, Induction
<1>4. n \in 0..n
  OBVIOUS
<1>. HIDE DEF K
<1>5. n \in K
  BY <1>3, <1>4
<1> QED BY <1>5 DEF K

-----------------------------------------------------------------------------
(* Rows as the view of a log.                                              *)

\* Claims change no row.
LEMMA RecountsClaims ==
    ASSUME NEW x, NEW S, NEW Z, Recounts(x, S), S \subseteq Z, \A o \in Z \ S : IsClaim(o)
    PROVE  Recounts(x, Z)
<1>1. \A o \in Z \ S : \A t, r : ~Creates(o, t, r) /\ ~Deletes(o, t, r)
  BY DEF Creates, Deletes, IsClaim
<1>2. ASSUME NEW t \in Table, NEW r \in Row PROVE Recalls(x[t].members[r], Z, t, r)
  <2>. DEFINE e == x[t].members[r]
  <2>1. Recalls(e, S, t, r)
    BY DEF Recounts
  <2>. HIDE DEF e
  <2>2. Recalls(e, Z, t, r)
    BY <1>1, <2>1, RecallsOthers
  <2> QED BY <2>2 DEF e
<1> QED BY <1>2 DEF Recounts

LEMMA EmptyRecounts == Recounts(EmptyStore, {})
BY DEF Recounts, EmptyStore, EmptyTable, Absent, Recalls

\* A statement stamped after all its peer has heard of.
LEMMA PerformsRecount ==
    ASSUME LogInv, TimeInv, CloseClocks, NEW p \in Peer, NEW t \in Table,
           NEW stamps \in Seq(Stamps), NEW ops \in Seq(Op),
           Perform(p, t, stamps, ops), Ready(p, t, stamps, ops),
           policy[p] # "cascade", store[p] \in Store, Recounts(store[p], Ops(p))
    PROVE  Recounts(Performed(p, store[p], ops), Ops(p) \cup ToSet(ops))
<1>. DEFINE S == Ops(p)
            O == ToSet(ops)
            v == RowOps(ops)
            n == Len(v)
            s == store[p]
            y == Performed(p, s, ops)
<1>1. PICK deletes \in BOOLEAN : \A o \in O : deletes = (o.type = "delete")
  BY DEF Ready, Fits
<1>2. v \in Seq({o \in Op : ~IsClaim(o)}) /\ ToSet(v) = {o \in O : ~IsClaim(o)}
  BY SplitFacts
<1>3. \A a \in S, o \in O : Before(a.hlc, o.hlc)
  BY PerformsLater
<1>4. S \subseteq Op
  BY OpsTyped DEF LogInv
<1>. HIDE DEF v, y
<1>5. n \in Nat /\ DOMAIN v = 1..n
  BY <1>2
<1>6. \A i \in 1..n : v[i] \in Op /\ ~IsClaim(v[i]) /\ v[i] \in O
  <2>1. \A i \in 1..n : v[i] \in {o \in Op : ~IsClaim(o)} /\ v[i] \in ToSet(v)
    BY <1>2, <1>5 DEF ToSet
  <2> QED BY <1>2, <2>1
<1>. HIDE DEF S, O, n
<1>7. Rises(v, n, S)
  <2>1. \A i \in 1..n : Crowns(v[i], S)
    BY <1>3, <1>6 DEF Crowns
  <2>2. \A i, j \in 1..n : Crowns(v[j], {v[i]})
    <3>1. \A i, j \in 1..n : v[i].type = "delete" <=> v[j].type = "delete"
      BY <1>1, <1>6
    <3> QED BY <3>1 DEF Crowns
  <2> QED BY <1>6, <2>1, <2>2 DEF Rises
<1>8. PICK x : Replays(x, v, n) /\ x[0] = s /\ x[n] = y
  BY <1>5, <1>6, PerformedRun DEF n, v, y
<1>9. Recounts(x[n], UpTo(S, v, n))
  <2>1. Recounts(x[0], S)
    BY <1>8 DEF S
  <2> QED BY <1>4, <1>5, <1>7, <1>8, <2>1, ReplaysRecount
<1>10. UpTo(S, v, n) = S \cup ToSet(v)
  BY <1>5, UpToAll
<1>11. /\ S \cup ToSet(v) \subseteq S \cup O
       /\ \A o \in (S \cup O) \ (S \cup ToSet(v)) : IsClaim(o)
  BY <1>2 DEF O
<1>12. Recounts(y, S \cup O)
  BY <1>8, <1>9, <1>10, <1>11, RecountsClaims
<1> QED BY <1>12 DEF y, S, O

\* The operations on rows of a replay.
LEMMA ReplayRecounts ==
    ASSUME NEW O, O \subseteq Op, NEW v \in Seq({o \in O : ~IsClaim(o)}),
           ToSet(v) = {o \in O : ~IsClaim(o)}, InOrderOf(ReplayPairs(O), v)
    PROVE  Recounts(FoldLeft(ApplyOp, EmptyStore, v), O)
<1>. DEFINE n == Len(v)
            Z == {o \in Op : ~IsClaim(o)}
            y == FoldLeft(ApplyOp, EmptyStore, v)
<1>1. n \in Nat /\ DOMAIN v = 1..n /\ \A i \in 1..n : v[i] \in O /\ ~IsClaim(v[i])
  OBVIOUS
<1>2. v \in Seq(Z)
  <2>1. {o \in O : ~IsClaim(o)} \subseteq Z
    OBVIOUS
  <2>. HIDE DEF Z
  <2> QED BY <2>1, SeqOfSubset
<1>3. PICK x : Replays(x, v, n) /\ x[0] = EmptyStore /\ x[n] = y
  BY <1>2, ReplayRun
<1>. HIDE DEF y, n, Z
<1>4. ASSUME NEW i \in 1..n, NEW j \in 1..n, i < j PROVE Before(v[i].hlc, v[j].hlc)
  <2>1. ReplayOrder(v[i], v[j])
    BY <1>1, <1>4 DEF InOrderOf, ReplayPairs
  <2>2. Tier(v[i]) = 1 /\ Tier(v[j]) = 1
    BY <1>1 DEF Tier
  <2> QED BY <1>1, <2>1, <2>2 DEF ReplayOrder
<1>5. Rises(v, n, {})
  BY <1>1, <1>4 DEF Rises, Crowns
<1>6. Recounts(x[n], UpTo({}, v, n))
  <2>1. {} \subseteq Op
    OBVIOUS
  <2> QED BY <1>1, <1>3, <1>5, <2>1, EmptyRecounts, ReplaysRecount
<1>7. UpTo({}, v, n) = ToSet(v)
  <2>. DEFINE W == ToSet(v)
  <2>1. UpTo({}, v, n) = {} \cup W
    BY <1>1, UpToAll
  <2> HIDE DEF W
  <2>2. {} \cup W = W
    OBVIOUS
  <2> QED BY <2>1, <2>2 DEF W
<1>8. Recounts(y, O)
  <2>1. ToSet(v) \subseteq O /\ \A o \in O \ ToSet(v) : IsClaim(o)
    OBVIOUS
  <2>2. Recounts(y, ToSet(v))
    BY <1>3, <1>6, <1>7
  <2> QED BY <2>1, <2>2, RecountsClaims
<1> QED BY <1>8 DEF y

\* Null writes leave the members alone.
LEMMA NullsRecount ==
    ASSUME NEW s \in Store, NEW S, Recounts(s, S), NEW claimed \in Seq(ClaimOp)
    PROVE  Recounts(NullLosers(s, claimed), S)
<1>. DEFINE at == {i \in DOMAIN claimed : Lost(claimed, claimed[i])}
            losers == Picked(claimed, at)
            l == Sorted(losers, NullOrder)
            n == Len(l)
            y == NullLosers(s, claimed)
<1>1. losers \in Seq(ClaimOp)
  <2> HIDE DEF at
  <2> QED BY PickedFacts
<1>2. y = FoldLeft(NullLoser, s, l)
  BY DEF NullLosers
<1>. HIDE DEF losers, y
<1>3. l \in Seq(ClaimOp)
  BY <1>1, NullSorted
<1>. HIDE DEF l
<1>4. ASSUME NEW t \in Table PROVE y[t].members = s[t].members
  BY <1>2, <1>3, NullsKeepMembers
<1>5. Recounts(y, S)
  BY <1>4 DEF Recounts
<1> QED BY <1>5 DEF y

\* A rebuild recalls its log, if its policy does not cascade.
LEMMA RebuildRecounts ==
    ASSUME NEW l, Untied(l), NEW pol, pol # "cascade"
    PROVE  Recounts(Rebuild(l, pol).store, ToSet(l)) /\ Rebuild(l, pol).store \in Store
<1>. DEFINE O == ToSet(l)
            Z == ClaimsOf(O)
            ops == Sorted(l, ReplayOrder)
            v == RowOps(ops)
            q == ClaimOps(ops)
            m == FoldLeft(Reserve, <<>>, q)
            rows == FoldLeft(ApplyOp, EmptyStore, v)
            b == Rebuild(l, pol)
<1>1. ops \in Seq(O) /\ ToSet(ops) = O /\ InOrderOf(ReplayPairs(O), ops)
  BY LogSorted
<1>2. O \subseteq Op
  <2>1. l \in Seq(Op)
    BY DEF Untied
  <2> QED BY <2>1 DEF ToSet
<1>3. b.store = NullLosers(rows, m)
  BY DEF Rebuild
<1>. HIDE DEF O, ops, b
<1>4. /\ v \in Seq({o \in O : ~IsClaim(o)}) /\ ToSet(v) = {o \in O : ~IsClaim(o)}
      /\ q \in Seq(Z)
  BY <1>1, SplitFacts
<1>5. InOrderOf(ReplayPairs(O), v)
  <2>. DEFINE at == {i \in DOMAIN ops : ~IsClaim(ops[i])}
  <2>1. InOrderOf(ReplayPairs(O), Picked(ops, at))
    <3>. HIDE DEF at
    <3> QED BY <1>1, PickedInOrder
  <2> QED BY <2>1 DEF RowOps
<1>6. Z \subseteq ClaimOp
  BY <1>2, OpFacts DEF ClaimsOf
<1>. HIDE DEF v, q, Z
<1>7. m \in Seq(ClaimOp)
  <2>1. <<>> \in Seq(Z)
    OBVIOUS
  <2>2. m \in Seq(Z)
    BY <1>4, <2>1, ClaimsFacts DEF Z
  <2>. HIDE DEF m
  <2> QED BY <1>6, <2>2, SeqOfSubset
<1>8. rows \in Store
  <2>1. {o \in O : ~IsClaim(o)} \subseteq {o \in Op : ~IsClaim(o)}
    BY <1>2
  <2>2. v \in Seq({o \in Op : ~IsClaim(o)})
    BY <1>4, <2>1, SeqOfSubset
  <2> QED BY <2>2, ReplayFacts
<1>9. Recounts(rows, O)
  BY <1>2, <1>4, <1>5, ReplayRecounts
<1>. HIDE DEF rows, m
<1>10. Recounts(NullLosers(rows, m), O) /\ NullLosers(rows, m) \in Store
  BY <1>7, <1>8, <1>9, NullsRecount, NullLosersFacts
<1> QED BY <1>3, <1>10 DEF O, b

\* The tables of a peer whose policy does not cascade recall its log.
RecallInv == \A p \in Peer : policy[p] # "cascade" => Recounts(store[p], Ops(p))

LEMMA RecallInvInit == Init => RecallInv
<1>. SUFFICES ASSUME Init PROVE RecallInv
  OBVIOUS
<1>1. \A p \in Peer : Ops(p) = {} /\ store[p] = EmptyStore
  BY DEF Init, Ops, ToSet
<1> QED BY <1>1, EmptyRecounts DEF RecallInv

LEMMA RecallInvStep ==
    ASSUME LogInv, StoreInv, TimeInv, CloseClocks, RecallInv, [Next]_vars
    PROVE  RecallInv'
<1>0. LogInv'
  BY LogInvStep
<1>1. ASSUME NEW q \in Peer, Performs(q) PROVE RecallInv'
  <2>1. PICK t \in Table, stamps \in Seq(Stamps), ops \in Seq(Op) :
            Perform(q, t, stamps, ops) /\ Ready(q, t, stamps, ops)
    BY <1>1 DEF Performs
  <2>. DEFINE x == Performed(q, store[q], ops)
  <2>2. store' = [store EXCEPT ![q] = x] /\ store \in [Peer -> Store]
    BY <2>1 DEF Perform, Performed, StoreInv, StoreTyped
  <2>3. /\ policy' = policy /\ Ops(q)' = Ops(q) \cup ToSet(ops)
        /\ \A p \in Peer \ {q} : Ops(p)' = Ops(p)
    BY <2>1, PerformsLogs
  <2>4. store'[q] = x /\ \A p \in Peer \ {q} : store'[p] = store[p]
    BY <2>2
  <2>5. ASSUME policy[q] # "cascade" PROVE Recounts(x, Ops(q) \cup ToSet(ops))
    <3>1. Recounts(store[q], Ops(q))
      BY <2>5 DEF RecallInv
    <3> QED BY <2>1, <2>2, <2>5, <3>1, PerformsRecount
  <2>. HIDE DEF x
  <2> QED BY <2>3, <2>4, <2>5 DEF RecallInv
<1>2. ASSUME NEW ps, NEW newLog, Rebuilds(ps, newLog) PROVE RecallInv'
  <2>1. /\ RebuildAll(ps, newLog) /\ ps \in SUBSET Peer /\ policy' = policy
        /\ newLog \in [Peer -> Seq(Op)] /\ \A q \in Peer \ ps : newLog[q] = log[q]
    BY <1>2 DEF Rebuilds
  <2>. DEFINE b == [q \in ps |-> Rebuild(newLog[q], policy[q])]
  <2>2. /\ log' = newLog
        /\ store' = [q \in Peer |-> IF q \in ps THEN b[q].store ELSE store[q]]
    BY <2>1 DEF RebuildAll
  <2>3. SUFFICES ASSUME NEW p \in Peer, policy[p] # "cascade"
                 PROVE  Recounts(store'[p], Ops(p)')
    BY <2>1 DEF RecallInv
  <2>4. Ops(p)' = ToSet(newLog[p])
    BY <2>2 DEF Ops
  <2>5. CASE p \notin ps
    <3>1. store'[p] = store[p] /\ Ops(p)' = Ops(p)
      BY <2>1, <2>2, <2>5 DEF Ops
    <3> QED BY <2>3, <3>1 DEF RecallInv
  <2>6. CASE p \in ps
    <3>. DEFINE l == newLog[p]
                pol == policy[p]
    <3>1. store'[p] = Rebuild(l, pol).store
      BY <2>2, <2>6
    <3>2. Untied(l)
      <4>1. l \in Seq(Op) /\ Distinct(l) /\ \A u, w \in Ops(p)' : Tie(u, w) => u = w
        BY <1>0, <2>1, <2>2 DEF LogInv, NoDuplicates, NoTies
      <4> QED BY <2>4, <4>1 DEF Untied
    <3>3. pol # "cascade"
      BY <2>3
    <3> HIDE DEF l, pol
    <3>4. Recounts(Rebuild(l, pol).store, ToSet(l))
      BY <3>2, <3>3, RebuildRecounts
    <3> QED BY <2>4, <3>1, <3>4 DEF l
  <2> QED BY <2>5, <2>6
<1>3. CASE UNCHANGED <<log, store, claims, policy, index>>
  BY <1>3 DEF RecallInv, Ops
<1> QED BY <1>1, <1>2, <1>3, StoreSteps

\* With close clocks, tables whose policy does not cascade recall every insert
\* and delete of their log, in the order of the timestamps, whether they were
\* applied as they came or replayed (RowStore::apply_op, Engine::rebuild_store).
THEOREM RowsRecalled ==
    ASSUME CloseClocks
    PROVE  Spec => []RecallInv
<1>1. LogInv /\ StoreInv /\ TimeInv /\ RecallInv /\ [Next]_vars => RecallInv'
  BY RecallInvStep
<1> QED BY <1>1, RecallInvInit, LogInvariance, StoreInvariance, StampsInTime, PTL DEF Spec

\* What a rebuild of a peer's log shows, whatever the skew of the clocks.
LEMMA RebuiltShows ==
    ASSUME LogInv, NEW p \in Peer, policy[p] # "cascade", NEW t \in Table, NEW r \in Row
    PROVE  r \in VisibleRows(Rebuilt(p).store[t]) <=> Stands(Ops(p), t, r)
<1>. DEFINE l == log[p]
            pol == policy[p]
            s == Rebuild(l, pol).store
            e == s[t].members[r]
<1>1. Untied(l)
  BY DEF LogInv, LogTyped, NoDuplicates, NoTies, Ops, Untied
<1>2. pol # "cascade"
  OBVIOUS
<1>. HIDE DEF l, pol
<1>3. Recounts(s, ToSet(l)) /\ s \in Store
  BY <1>1, <1>2, RebuildRecounts
<1>. HIDE DEF s
<1>4. e \in Entry /\ Recalls(e, ToSet(l), t, r)
  BY <1>3 DEF Store, TableState, Recounts
<1>5. r \in VisibleRows(s[t]) <=> IsVisible(e)
  BY DEF VisibleRows
<1>. HIDE DEF e
<1>6. r \in VisibleRows(s[t]) <=> Stands(ToSet(l), t, r)
  BY <1>4, <1>5, RecallShows
<1> QED BY <1>6 DEF Rebuilt, Ops, s, l, pol

\* What a peer's tables show with close clocks.
LEMMA StoreShows ==
    ASSUME StoreInv, RecallInv, NEW p \in Peer, policy[p] # "cascade",
           NEW t \in Table, NEW r \in Row
    PROVE  r \in VisibleRows(store[p][t]) <=> Stands(Ops(p), t, r)
<1>. DEFINE S == Ops(p)
            s == store[p]
            e == s[t].members[r]
<1>1. s \in Store /\ Recounts(s, S)
  BY DEF StoreInv, StoreTyped, RecallInv
<1>. HIDE DEF s, S
<1>2. e \in Entry /\ Recalls(e, S, t, r)
  BY <1>1 DEF Store, TableState, Recounts
<1>3. r \in VisibleRows(s[t]) <=> IsVisible(e)
  BY DEF VisibleRows
<1>. HIDE DEF e
<1>4. r \in VisibleRows(s[t]) <=> Stands(S, t, r)
  BY <1>2, <1>3, RecallShows
<1> QED BY <1>4 DEF s, S

\* With close clocks and no cascades, what a peer shows is what a replay of its
\* log shows (op_log.rs): applying an operation that comes after all others is
\* replaying it last, and a row stands by its log alone.
\* A cascade goes by the references of the moment: that of a statement by those
\* its peer had then, that of a rebuild by those the whole log leaves.
THEOREM RowsAreViews ==
    ASSUME CloseClocks, "cascade" \notin Policies
    PROVE  Spec => []RowsAreView
<1>1. ASSUME LogInv, StoreInv, RecallInv PROVE RowsAreView
  <2>1. ASSUME NEW p \in Peer, NEW t \in Table
        PROVE  VisibleRows(store[p][t]) = VisibleRows(Rebuilt(p).store[t])
    <3>1. policy[p] # "cascade"
      BY <1>1 DEF StoreInv, StoreTyped
    <3>2. \A r \in Row : r \in VisibleRows(store[p][t])
                         <=> r \in VisibleRows(Rebuilt(p).store[t])
      BY <1>1, <3>1, RebuiltShows, StoreShows
    <3> QED BY <3>2 DEF VisibleRows
  <2> QED BY <2>1 DEF RowsAreView
<1>2. LogInv /\ StoreInv /\ RecallInv => RowsAreView
  BY <1>1
<1> QED BY <1>2, RowsRecalled, LogInvariance, StoreInvariance, PTL

\* Logs only grow.
LEMMA LogsGrow ==
    ASSUME LogInv, [Next]_vars, NEW p \in Peer
    PROVE  Ops(p) \subseteq Ops(p)'
<1>1. ASSUME NEW q \in Peer, NEW new, Executes(q, new) PROVE Ops(p) \subseteq Ops(p)'
  <2>1. Ops(q) \subseteq Ops(q)' /\ \A r \in Peer \ {q} : Ops(r)' = Ops(r)
    BY <1>1 DEF Executes, Ops
  <2> QED BY <2>1
<1>2. ASSUME Exchanges PROVE Ops(p) \subseteq Ops(p)'
  BY <1>2 DEF Exchanges
<1>3. ASSUME log' = log PROVE Ops(p) \subseteq Ops(p)'
  BY <1>3 DEF Ops
<1> QED BY <1>1, <1>2, <1>3, StepKinds, SyncLogs, SyncFromLogs

\* Every peer shows the rows that stand in its log.
ShowsStanding ==
    \A p \in Peer : \A t \in Table : \A r \in Row :
        r \in VisibleRows(store[p][t]) <=> Stands(Ops(p), t, r)

\* With close clocks and no cascades, a row that a peer does not show comes back
\* only with an insert the peer did not have (adversarial.rs, T09): what undoes
\* an insert in a log undoes it in every larger one.
THEOREM DeletesStay ==
    ASSUME CloseClocks, "cascade" \notin Policies
    PROVE  Spec => DeletedStaysDeleted
<1>1. ASSUME StoreInv, RecallInv PROVE ShowsStanding
  <2>1. \A p \in Peer : policy[p] # "cascade"
    BY <1>1 DEF StoreInv, StoreTyped
  <2> QED BY <1>1, <2>1, StoreShows DEF ShowsStanding
<1>2. ASSUME LogInv, ShowsStanding, ShowsStanding', [Next]_vars,
             NEW p \in Peer, NEW t \in Table, NEW r \in Row,
             r \in VisibleRows(store'[p][t]), InsertsOf(p, t, r)' = InsertsOf(p, t, r)
      PROVE  r \in VisibleRows(store[p][t])
  <2>1. Stands(Ops(p)', t, r)
    BY <1>2 DEF ShowsStanding
  <2>2. PICK o \in Ops(p)' : Creates(o, t, r) /\ ~Undone(o.hlc, Ops(p)', t, r)
    BY <2>1 DEF Stands
  <2>3. o \in Ops(p)
    <3>1. o \in InsertsOf(p, t, r)'
      BY <2>2 DEF InsertsOf, Creates
    <3>2. o \in InsertsOf(p, t, r)
      BY <1>2, <3>1
    <3> QED BY <3>2 DEF InsertsOf
  <2>4. ~Undone(o.hlc, Ops(p), t, r)
    <3>1. Ops(p) \subseteq Ops(p)'
      BY <1>2, LogsGrow
    <3> QED BY <2>2, <3>1 DEF Undone
  <2>5. Stands(Ops(p), t, r)
    BY <2>2, <2>3, <2>4 DEF Stands
  <2> QED BY <1>2, <2>5 DEF ShowsStanding
<1>3. LogInv /\ ShowsStanding /\ ShowsStanding' /\ [Next]_vars
        => \A p \in Peer : \A t \in Table : \A r \in Row :
               r \in VisibleRows(store'[p][t]) \ VisibleRows(store[p][t])
                   => InsertsOf(p, t, r)' # InsertsOf(p, t, r)
  BY <1>2
<1>4. StoreInv /\ RecallInv => ShowsStanding
  BY <1>1
<1> QED
  BY <1>3, <1>4, RowsRecalled, LogInvariance, StoreInvariance, PTL
     DEF Spec, DeletedStaysDeleted
=============================================================================
