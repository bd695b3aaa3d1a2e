----------------------------- MODULE OpLogProofs -----------------------------
(***************************************************************************)
(* What the operators on operation logs return: what an append of          *)
(* operations, a filter and a sort contain, and in which order.            *)
(*                                                                         *)
(* They are folds and recursive functions, so the proofs are by induction. *)
(* Induction is stated for sets of natural numbers (Induction), and both   *)
(* forms of recursion are reduced to one: a run x[0], x[1], ..., x[n] in   *)
(* a set T where the function H[k] leads from x[k - 1] to x[k].            *)
(***************************************************************************)
EXTENDS OpLog, FiniteSetTheorems, WellFoundedInduction, TLAPS

-----------------------------------------------------------------------------
(* Induction on the natural numbers.                                       *)

\* A non-empty set of natural numbers has a least element.
LEMMA LeastNat ==
    ASSUME NEW T, T \subseteq Nat, T # {}
    PROVE  \E n \in T : \A m \in T : n <= m
<1>. DEFINE F == {0..m : m \in T}
<1>1. F \subseteq FiniteSubsetsOf(Nat)
  <2>1. \A m \in T : 0..m \subseteq Nat /\ IsFiniteSet(0..m)
    BY FS_Interval
  <2> QED BY <2>1 DEF FiniteSubsetsOf
<1>2. F # {}
  OBVIOUS
<1>3. PICK x \in F : \A y \in F : ~(<<y, x>> \in StrictSubsetOrdering(Nat))
  <2> HIDE DEF F
  <2> QED BY <1>1, <1>2, FS_StrictSubsetOrderingWellFounded, WFMin
<1>4. PICK n \in T : x = 0..n
  BY <1>3
<1>5. ASSUME NEW m \in T, m < n PROVE FALSE
  <2>1. 0..m \in F /\ 0..m \subseteq 0..n /\ n \in 0..n /\ n \notin 0..m
    BY <1>5
  <2>2. <<0..m, 0..n>> \in StrictSubsetOrdering(Nat)
    BY <2>1, SMT DEF StrictSubsetOrdering
  <2> QED BY <2>1, <2>2, <1>3, <1>4
<1> QED BY <1>5

\* Induction up to n, for a property given as a set.
LEMMA Induction ==
    ASSUME NEW n \in Nat, NEW K, 0 \in K,
           \A k \in 1..n : k - 1 \in K => k \in K
    PROVE  0..n \subseteq K
<1>. DEFINE U == (0..n) \ K
<1>1. SUFFICES ASSUME U # {} PROVE FALSE
  OBVIOUS
<1>2. PICK k \in U : \A m \in U : k <= m
  <2>1. U \subseteq Nat
    OBVIOUS
  <2> HIDE DEF U
  <2> QED BY <1>1, <2>1, LeastNat
<1>3. k \in 1..n /\ k - 1 \in 0..n
  BY <1>2
<1>4. k - 1 \in K
  BY <1>2, <1>3
<1> QED BY <1>2, <1>3, <1>4

\* Max of a bounded set of natural numbers.
LEMMA MaxOfSubset ==
    ASSUME NEW n \in Nat, NEW s, s \subseteq 0..n, s # {}
    PROVE  Max(s) \in s /\ \A m \in s : m <= Max(s)
<1>1. \E x \in s : \A m \in s : m <= x
  <2> DEFINE T == {n - m : m \in s}
  <2>1. T \subseteq Nat /\ T # {}
    <3>1. \A m \in s : n - m \in Nat
      OBVIOUS
    <3> QED BY <3>1
  <2>2. PICK k \in T : \A j \in T : k <= j
    <3> HIDE DEF T
    <3> QED BY <2>1, LeastNat
  <2>3. PICK x \in s : k = n - x
    OBVIOUS
  <2>4. \A m \in s : n - m \in T
    OBVIOUS
  <2>5. \A m \in s : n - x <= n - m
    BY <2>2, <2>3, <2>4
  <2> QED BY <2>5
<1> QED BY <1>1 DEF Max

LEMMA MaxOfIndices ==
    ASSUME NEW n \in Nat, NEW s \in SUBSET (1..n), s # {}
    PROVE  /\ Max(s) \in 1..n
           /\ s \ {Max(s)} \in SUBSET (1..(n - 1))
           /\ s \ {Max(s)} \in SUBSET (1..n)
<1>1. s \subseteq 0..n
  OBVIOUS
<1>. DEFINE x == Max(s)
<1>2. x \in s /\ \A m \in s : m <= x
  BY <1>1, MaxOfSubset
<1>. HIDE DEF x
<1>3. x \in 1..n /\ s \ {x} \in SUBSET (1..(n - 1)) /\ s \ {x} \in SUBSET (1..n)
  BY <1>2
<1> QED BY <1>3 DEF x

LEMMA MaxOfInterval ==
    ASSUME NEW k \in Nat \ {0}
    PROVE  Max(1..k) = k
<1>1. 1..k \subseteq 0..k /\ k \in 1..k
  OBVIOUS
<1>. DEFINE x == Max(1..k)
<1>2. x \in 1..k /\ \A m \in 1..k : m <= x
  BY <1>1, MaxOfSubset
<1>. HIDE DEF x
<1>3. x = k
  BY <1>1, <1>2
<1> QED BY <1>3 DEF x

LEMMA CardinalityOfInterval ==
    ASSUME NEW n \in Nat
    PROVE  IsFiniteSet(1..n) /\ Cardinality(1..n) = n
BY FS_Interval

-----------------------------------------------------------------------------
(* Runs: what folds and recursive functions compute.                       *)

IsRun(x, n, T, base, H) ==
    /\ x \in [0..n -> T]
    /\ x[0] = base
    /\ \A k \in 1..n : x[k] = H[k][x[k - 1]]

\* A run ends in v.
EndsRun(v, n, T, base, H) == \E x : IsRun(x, n, T, base, H) /\ x[n] = v

\* The function a fold over the positions 1..n is taken from: it goes through
\* subsets of positions, the last one first.
IsFold(it, n, T, base, H) ==
    /\ it \in [SUBSET (1..n) -> T]
    /\ it[{}] = base
    /\ \A s \in SUBSET (1..n) : s # {} => it[s] = H[Max(s)][it[s \ {Max(s)}]]

\* Weaker: the equation need only hold inside T.
Iterates(it, n, T, base, H) ==
    /\ it[{}] = base
    /\ \A s \in SUBSET (1..n) :
         s # {} /\ it[s \ {Max(s)}] \in T => it[s] = H[Max(s)][it[s \ {Max(s)}]]

LEMMA FoldExists ==
    ASSUME NEW n \in Nat, NEW T, NEW base \in T, NEW H \in [1..n -> [T -> T]]
    PROVE  \E it : IsFold(it, n, T, base, H)
<1>. DEFINE Ok(k) == \E it \in [SUBSET (1..k) -> T] :
                       it = [s \in SUBSET (1..k) |->
                               IF s = {} THEN base ELSE H[Max(s)][it[s \ {Max(s)}]]]
            K == {k \in 0..n : Ok(k)}
<1>1. Ok(0)
  <2>1. SUBSET (1..0) = {{}}
    OBVIOUS
  <2>. DEFINE it == [s \in SUBSET (1..0) |-> base]
  <2>2. it \in [SUBSET (1..0) -> T]
    OBVIOUS
  <2>3. \A s \in SUBSET (1..0) : s = {}
    OBVIOUS
  <2>4. it = [s \in SUBSET (1..0) |->
                IF s = {} THEN base ELSE H[Max(s)][it[s \ {Max(s)}]]]
    BY <2>3
  <2> QED BY <2>2, <2>4
<1>2. ASSUME NEW k \in 1..n, Ok(k - 1) PROVE Ok(k)
  <2>1. PICK it \in [SUBSET (1..(k - 1)) -> T] :
              it = [s \in SUBSET (1..(k - 1)) |->
                      IF s = {} THEN base ELSE H[Max(s)][it[s \ {Max(s)}]]]
    BY <1>2
  <2>. DEFINE next == [s \in SUBSET (1..k) |->
                         IF s = {} THEN base ELSE H[Max(s)][it[s \ {Max(s)}]]]
  <2>2. ASSUME NEW s \in SUBSET (1..k), s # {}
        PROVE  Max(s) \in 1..n /\ s \ {Max(s)} \in SUBSET (1..(k - 1))
    <3>1. Max(s) \in 1..k /\ s \ {Max(s)} \in SUBSET (1..(k - 1))
      BY <2>2, MaxOfIndices
    <3>2. 1..k \subseteq 1..n
      OBVIOUS
    <3> QED BY <3>1, <3>2
  <2>3. next \in [SUBSET (1..k) -> T]
    BY <2>2
  <2>4. \A s \in SUBSET (1..(k - 1)) : next[s] = it[s]
    <3>1. \A s \in SUBSET (1..(k - 1)) : s \in SUBSET (1..k)
      OBVIOUS
    <3> QED BY <3>1, <2>1
  <2>5. next = [s \in SUBSET (1..k) |->
                  IF s = {} THEN base ELSE H[Max(s)][next[s \ {Max(s)}]]]
    BY <2>2, <2>4
  <2> QED BY <2>3, <2>5
<1>3. 0 \in K /\ \A k \in 1..n : k - 1 \in K => k \in K
  <2> HIDE DEF Ok
  <2> QED BY <1>1, <1>2
<1>4. n \in K
  <2> HIDE DEF K
  <2>1. 0..n \subseteq K
    BY <1>3, Induction
  <2> QED BY <2>1
<1>5. PICK it \in [SUBSET (1..n) -> T] :
              it = [s \in SUBSET (1..n) |->
                      IF s = {} THEN base ELSE H[Max(s)][it[s \ {Max(s)}]]]
  BY <1>4
<1>6. /\ it[{}] = base
      /\ \A s \in SUBSET (1..n) : s # {} => it[s] = H[Max(s)][it[s \ {Max(s)}]]
  BY <1>5
<1> QED BY <1>5, <1>6 DEF IsFold

\* A property of the first value that every step keeps holds all along.
LEMMA RunStays ==
    ASSUME NEW n \in Nat, NEW x, NEW J, x[0] \in J,
           \A k \in 1..n : x[k - 1] \in J => x[k] \in J
    PROVE  \A k \in 0..n : x[k] \in J
<1>. DEFINE K == {k \in 0..n : x[k] \in J}
<1>1. 0 \in K /\ \A k \in 1..n : k - 1 \in K => k \in K
  OBVIOUS
<1>2. 0..n \subseteq K
  <2> HIDE DEF K
  <2> QED BY <1>1, Induction
<1> QED BY <1>2

\* A function that satisfies the equation of a run, inside T, is one.
LEMMA EquationIsRun ==
    ASSUME NEW n \in Nat, NEW T, NEW base \in T, NEW H \in [1..n -> [T -> T]], NEW x,
           x = [k \in 0..n |-> x[k]], x[0] = base,
           \A k \in 1..n : x[k - 1] \in T => x[k] = H[k][x[k - 1]]
    PROVE  IsRun(x, n, T, base, H)
<1>1. ASSUME NEW k \in 1..n, x[k - 1] \in T PROVE x[k] \in T
  <2>1. H[k] \in [T -> T]
    OBVIOUS
  <2>2. x[k] = H[k][x[k - 1]]
    BY <1>1
  <2> QED BY <1>1, <2>1, <2>2
<1>2. \A k \in 0..n : x[k] \in T
  BY <1>1, RunStays
<1>3. \A k \in 1..n : k - 1 \in 0..n
  OBVIOUS
<1>4. x \in [0..n -> T]
  BY <1>2
<1> QED BY <1>2, <1>3, <1>4 DEF IsRun

\* A function that satisfies the equation of a fold, inside T, goes through a
\* run.
LEMMA FoldIsRun ==
    ASSUME NEW n \in Nat, NEW T, NEW base \in T, NEW H \in [1..n -> [T -> T]], NEW it,
           Iterates(it, n, T, base, H)
    PROVE  EndsRun(it[1..n], n, T, base, H)
<1>. DEFINE x == [k \in 0..n |-> it[1..k]]
<1>1. x[0] = base
  <2>1. 1..0 = {}
    OBVIOUS
  <2> QED BY <2>1 DEF Iterates
<1>2. ASSUME NEW k \in 1..n, x[k - 1] \in T PROVE x[k] = H[k][x[k - 1]]
  <2>1. 1..k \in SUBSET (1..n) /\ 1..k # {} /\ (1..k) \ {k} = 1..(k - 1)
    OBVIOUS
  <2>2. Max(1..k) = k
    BY MaxOfInterval
  <2>3. k \in 0..n /\ k - 1 \in 0..n
    OBVIOUS
  <2>4. x[k] = it[1..k] /\ x[k - 1] = it[1..(k - 1)]
    BY <2>3
  <2>. HIDE DEF x
  <2>5. it[1..k] = H[Max(1..k)][it[(1..k) \ {Max(1..k)}]]
    BY <1>2, <2>1, <2>2, <2>4 DEF Iterates
  <2> QED BY <2>1, <2>2, <2>4, <2>5
<1>3. x = [k \in 0..n |-> x[k]]
  OBVIOUS
<1>4. IsRun(x, n, T, base, H)
  <2> HIDE DEF x
  <2> QED BY <1>1, <1>2, <1>3, EquationIsRun
<1>5. x[n] = it[1..n]
  OBVIOUS
<1> QED BY <1>4, <1>5 DEF EndsRun

\* There is a run.
LEMMA RunExists ==
    ASSUME NEW n \in Nat, NEW T, NEW base \in T, NEW H \in [1..n -> [T -> T]]
    PROVE  \E x : IsRun(x, n, T, base, H)
<1>1. PICK it : IsFold(it, n, T, base, H)
  BY FoldExists
<1>2. EndsRun(it[1..n], n, T, base, H)
  <2>1. Iterates(it, n, T, base, H)
    BY <1>1 DEF IsFold, Iterates
  <2> QED BY <2>1, FoldIsRun
<1> QED BY <1>2 DEF EndsRun

\* A run stays in its set.
LEMMA RunEndsIn ==
    ASSUME NEW n \in Nat, NEW T, NEW base, NEW H, NEW v, EndsRun(v, n, T, base, H)
    PROVE  v \in T
<1>1. n \in 0..n
  OBVIOUS
<1> QED BY <1>1 DEF EndsRun, IsRun

\* x repeats G without end.
Repeats(x, T, base, G) ==
    /\ x \in [Nat -> T]
    /\ x[0] = base
    /\ \A k \in Nat : x[k + 1] = G[x[k]]

LEMMA RepeatExists ==
    ASSUME NEW T, NEW base \in T, NEW G \in [T -> T]
    PROVE  \E x : Repeats(x, T, base, G)
<1>. DEFINE H(n) == [i \in 1..n |-> G]
            R(x, n) == IsRun(x, n, T, base, H(n))
            r(n) == CHOOSE x : R(x, n)
            y == [n \in Nat |-> r(n)[n]]
<1>1. ASSUME NEW n \in Nat PROVE R(r(n), n)
  <2>1. H(n) \in [1..n -> [T -> T]]
    OBVIOUS
  <2>2. \E x : R(x, n)
    <3> HIDE DEF H
    <3> QED BY <2>1, RunExists
  <2> HIDE DEF R
  <2> QED BY <2>2
<1>2. ASSUME NEW n \in Nat, NEW a, NEW b, R(a, n), R(b, n + 1) PROVE b[n] = a[n]
  <2>. DEFINE K == {k \in 0..n : b[k] = a[k]}
  <2>1. 0 \in K
    BY <1>2 DEF IsRun
  <2>2. ASSUME NEW k \in 1..n, k - 1 \in K PROVE k \in K
    <3>1. k \in 1..(n + 1) /\ k \in 0..n
      OBVIOUS
    <3>2. a[k] = H(n)[k][a[k - 1]] /\ b[k] = H(n + 1)[k][b[k - 1]]
      <4> HIDE DEF H
      <4> QED BY <1>2, <3>1 DEF IsRun
    <3>3. H(n)[k] = G /\ H(n + 1)[k] = G
      BY <3>1
    <3> QED BY <2>2, <3>1, <3>2, <3>3
  <2>3. 0..n \subseteq K
    <3> HIDE DEF K
    <3> QED BY <2>1, <2>2, Induction
  <2> QED BY <2>3
<1>. HIDE DEF r
<1>3. \A n \in Nat : r(n)[n] \in T /\ r(n)[0] = base
  <2>1. \A n \in Nat : n \in 0..n
    OBVIOUS
  <2> QED BY <1>1, <2>1 DEF IsRun
<1>4. ASSUME NEW k \in Nat PROVE y[k + 1] = G[y[k]]
  <2>1. k + 1 \in Nat /\ k + 1 \in 1..(k + 1) /\ (k + 1) - 1 = k
    OBVIOUS
  <2>2. R(r(k), k) /\ R(r(k + 1), k + 1)
    BY <1>1, <2>1
  <2>3. r(k + 1)[k] = r(k)[k]
    <3> HIDE DEF R
    <3> QED BY <1>2, <2>2
  <2>4. r(k + 1)[k + 1] = H(k + 1)[k + 1][r(k + 1)[(k + 1) - 1]]
    <3> HIDE DEF H
    <3> QED BY <2>1, <2>2 DEF IsRun
  <2>5. H(k + 1)[k + 1] = G
    BY <2>1
  <2>6. r(k + 1)[k + 1] = G[r(k)[k]]
    <3> HIDE DEF H
    <3> QED BY <2>1, <2>3, <2>4, <2>5
  <2> QED BY <2>1, <2>6
<1>5. y \in [Nat -> T] /\ y[0] = base
  BY <1>3
<1>. HIDE DEF y
<1>6. Repeats(y, T, base, G)
  BY <1>4, <1>5 DEF Repeats
<1> QED BY <1>6

-----------------------------------------------------------------------------
(* Appending operations.                                                   *)

\* No entry occurs twice.
Distinct(l) == \A i, j \in DOMAIN l : l[i] = l[j] => i = j

\* Log m is log l with entries behind it.
Extends(m, l) == Len(l) <= Len(m) /\ \A i \in DOMAIN l : m[i] = l[i]

LEMMA AppendOpFacts ==
    ASSUME NEW O, NEW l \in Seq(O), NEW o \in O
    PROVE  /\ AppendOp(l, o) \in Seq(O)
           /\ Extends(AppendOp(l, o), l)
           /\ ToSet(AppendOp(l, o)) = ToSet(l) \cup {o}
           /\ Distinct(l) => Distinct(AppendOp(l, o))
<1>1. CASE \E i \in 1..Len(l) : l[i] = o
  <2>1. AppendOp(l, o) = l
    BY <1>1 DEF AppendOp, Contains
  <2>2. o \in ToSet(l)
    BY <1>1 DEF ToSet
  <2> QED BY <2>1, <2>2 DEF Extends
<1>2. CASE ~\E i \in 1..Len(l) : l[i] = o
  <2>1. AppendOp(l, o) = Append(l, o)
    BY <1>2 DEF AppendOp, Contains
  <2>. DEFINE m == Append(l, o)
  <2>2. /\ m \in Seq(O) /\ Len(m) = Len(l) + 1 /\ m[Len(l) + 1] = o
        /\ \A i \in 1..Len(l) : m[i] = l[i]
        /\ DOMAIN m = 1..(Len(l) + 1) /\ DOMAIN l = 1..Len(l) /\ Len(l) \in Nat
    OBVIOUS
  <2>. HIDE DEF m
  <2>3. Extends(m, l)
    BY <2>2 DEF Extends
  <2>4. ToSet(m) = ToSet(l) \cup {o}
    <3>1. \A i \in 1..(Len(l) + 1) : i = Len(l) + 1 \/ i \in 1..Len(l)
      BY <2>2
    <3>2. Len(l) + 1 \in 1..(Len(l) + 1) /\ 1..Len(l) \subseteq 1..(Len(l) + 1)
      BY <2>2
    <3> QED BY <2>2, <3>1, <3>2 DEF ToSet
  <2>5. Distinct(l) => Distinct(m)
    BY <1>2, <2>2 DEF Distinct
  <2> QED BY <2>1, <2>2, <2>3, <2>4, <2>5 DEF m
<1> QED BY <1>1, <1>2

\* x goes from log l to AppendAll(l, ops), one operation at a time.
AppendsAll(x, O, l, ops) ==
    /\ x \in [0..Len(ops) -> Seq(O)]
    /\ x[0] = l
    /\ \A k \in 1..Len(ops) : x[k] = AppendOp(x[k - 1], ops[k])
    /\ AppendAll(l, ops) = x[Len(ops)]

\* AppendAll appends the operations one by one.
LEMMA AppendRun ==
    ASSUME NEW O, NEW l \in Seq(O), NEW ops \in Seq(O)
    PROVE  \E x : AppendsAll(x, O, l, ops)
<1>. DEFINE n == Len(ops)
            T == Seq(O)
            H == [i \in 1..n |-> [m \in T |-> AppendOp(m, ops[i])]]
            Eq(it) == it = [s \in SUBSET DOMAIN ops |->
                              IF s = {} THEN l ELSE AppendOp(it[s \ {Max(s)}], ops[Max(s)])]
            c == CHOOSE it : Eq(it)
<1>1. AppendAll(l, ops) = c[DOMAIN ops]
  BY DEF AppendAll, FoldLeft, MapThenFoldSet
<1>2. n \in Nat /\ DOMAIN ops = 1..n /\ l \in T /\ \A i \in 1..n : ops[i] \in O
  OBVIOUS
<1>3. H \in [1..n -> [T -> T]]
  BY <1>2, AppendOpFacts
<1>4. Eq(c)
  <2>1. PICK it : IsFold(it, n, T, l, H)
    <3> HIDE DEF H, T, n
    <3> QED BY <1>2, <1>3, FoldExists
  <2>2. ASSUME NEW s \in SUBSET (1..n), s # {}
        PROVE  H[Max(s)][it[s \ {Max(s)}]] = AppendOp(it[s \ {Max(s)}], ops[Max(s)])
    <3>1. Max(s) \in 1..n /\ it[s \ {Max(s)}] \in T
      BY <1>2, <2>1, <2>2, MaxOfIndices DEF IsFold
    <3> QED BY <3>1
  <2>3. Eq(it)
    BY <2>1, <2>2, <1>2 DEF IsFold
  <2> QED BY <2>3
<1>5. Iterates(c, n, T, l, H)
  <2>1. c[{}] = l
    BY <1>4
  <2>2. \A s \in SUBSET (1..n) : s # {} => c[s] = AppendOp(c[s \ {Max(s)}], ops[Max(s)])
    BY <1>2, <1>4
  <2>3. \A s \in SUBSET (1..n) : s # {} => Max(s) \in 1..n
    BY <1>2, MaxOfIndices
  <2>. HIDE DEF c, T, n
  <2> QED BY <2>1, <2>2, <2>3 DEF Iterates
<1>6. PICK x : IsRun(x, n, T, l, H) /\ x[n] = c[1..n]
  <2>1. EndsRun(c[1..n], n, T, l, H)
    <3> HIDE DEF c, H, T, n
    <3> QED BY <1>2, <1>3, <1>5, FoldIsRun
  <2> QED BY <2>1 DEF EndsRun
<1>7. \A k \in 1..n : x[k] = AppendOp(x[k - 1], ops[k])
  <2>1. \A k \in 1..n : x[k - 1] \in T
    <3>. HIDE DEF n, T, H, c
    <3>1. x \in [0..n -> T]
      BY <1>6 DEF IsRun
    <3>2. \A k \in 1..n : k - 1 \in 0..n
      BY <1>2
    <3> QED BY <3>1, <3>2
  <2> QED BY <1>6, <2>1 DEF IsRun
<1>8. AppendsAll(x, O, l, ops)
  BY <1>1, <1>2, <1>6, <1>7 DEF IsRun, AppendsAll
<1> QED BY <1>8, Zenon

\* What a log is after appending operations.
LEMMA AppendAllFacts ==
    ASSUME NEW O, NEW l \in Seq(O), NEW ops \in Seq(O)
    PROVE  /\ AppendAll(l, ops) \in Seq(O)
           /\ Extends(AppendAll(l, ops), l)
           /\ ToSet(AppendAll(l, ops)) = ToSet(l) \cup ToSet(ops)
           /\ Distinct(l) => Distinct(AppendAll(l, ops))
<1>0. PICK x : AppendsAll(x, O, l, ops)
  BY AppendRun, Zenon
<1>. DEFINE n == Len(ops)
            Done(k, m) == /\ m \in Seq(O)
                          /\ Extends(m, l)
                          /\ ToSet(m) = ToSet(l) \cup {ops[i] : i \in 1..k}
                          /\ Distinct(l) => Distinct(m)
<1>1. /\ x \in [0..n -> Seq(O)]
      /\ x[0] = l
      /\ \A k \in 1..n : x[k] = AppendOp(x[k - 1], ops[k])
      /\ AppendAll(l, ops) = x[n]
  BY <1>0 DEF AppendsAll
<1>2. n \in Nat /\ DOMAIN ops = 1..n /\ \A i \in 1..n : ops[i] \in O
  OBVIOUS
<1>3. Done(0, x[0])
  <2>1. {ops[i] : i \in 1..0} = {}
    OBVIOUS
  <2> QED BY <1>1, <2>1 DEF Extends
<1>4. ASSUME NEW k \in 1..n, Done(k - 1, x[k - 1]) PROVE Done(k, x[k])
  <2>1. ops[k] \in O /\ x[k - 1] \in Seq(O) /\ x[k] = AppendOp(x[k - 1], ops[k])
    BY <1>1, <1>2, <1>4
  <2>2. /\ x[k] \in Seq(O)
        /\ Extends(x[k], x[k - 1])
        /\ ToSet(x[k]) = ToSet(x[k - 1]) \cup {ops[k]}
        /\ Distinct(x[k - 1]) => Distinct(x[k])
    <3>. DEFINE m == x[k - 1]
    <3>1. /\ AppendOp(m, ops[k]) \in Seq(O)
          /\ Extends(AppendOp(m, ops[k]), m)
          /\ ToSet(AppendOp(m, ops[k])) = ToSet(m) \cup {ops[k]}
          /\ Distinct(m) => Distinct(AppendOp(m, ops[k]))
      <4>1. m \in Seq(O) /\ ops[k] \in O
        BY <2>1
      <4> HIDE DEF m
      <4> QED BY <4>1, AppendOpFacts
    <3> QED BY <2>1, <3>1
  <2>3. Extends(x[k], l)
    <3>1. Len(l) \in Nat /\ Len(x[k - 1]) \in Nat /\ Len(x[k]) \in Nat
          /\ DOMAIN l = 1..Len(l) /\ DOMAIN x[k - 1] = 1..Len(x[k - 1])
      BY <2>1, <2>2
    <3> QED BY <3>1, <2>2, <1>4 DEF Extends
  <2>4. {ops[i] : i \in 1..k} = {ops[i] : i \in 1..(k - 1)} \cup {ops[k]}
    <3>1. 1..k = (1..(k - 1)) \cup {k}
      OBVIOUS
    <3> QED BY <3>1
  <2> QED BY <2>2, <2>3, <2>4, <1>4
<1>5. Done(n, x[n])
  <2>. DEFINE K == {k \in 0..n : Done(k, x[k])}
  <2>1. 0 \in K /\ \A k \in 1..n : k - 1 \in K => k \in K
    <3> HIDE DEF Done, n
    <3> QED BY <1>2, <1>3, <1>4
  <2>2. 0..n \subseteq K
    <3> HIDE DEF K, n
    <3> QED BY <1>2, <2>1, Induction
  <2> HIDE DEF Done
  <2> QED BY <1>2, <2>2
<1>6. {ops[i] : i \in 1..n} = ToSet(ops)
  BY <1>2 DEF ToSet
<1> QED BY <1>1, <1>5, <1>6

-----------------------------------------------------------------------------
(* Filtering.                                                              *)

\* x goes through sequence s entry by entry and picks those at the positions
\* in at.
Picks(x, O, s, at) ==
    /\ x \in [0..Len(s) -> Seq(O)]
    /\ x[0] = <<>>
    /\ \A k \in 1..Len(s) :
          x[k] = IF k \in at THEN Append(x[k - 1], s[k]) ELSE x[k - 1]

LEMMA PickedRun ==
    ASSUME NEW O, NEW s \in Seq(O), NEW at
    PROVE  \E x : Picks(x, O, s, at) /\ Picked(s, at) = x[Len(s)]
<1>. DEFINE n == Len(s)
            T == Seq(O)
            H == [i \in 1..n |-> [m \in T |-> IF i \in at THEN Append(m, s[i]) ELSE m]]
            Eq(f) == f = [i \in 0..Len(s) |->
                            IF i = 0 THEN <<>>
                            ELSE IF i \in at THEN Append(f[i - 1], s[i])
                            ELSE f[i - 1]]
            c == CHOOSE f : Eq(f)
<1>1. Picked(s, at) = c[n]
  BY DEF Picked
<1>2. n \in Nat /\ <<>> \in T /\ \A i \in 1..n : s[i] \in O
  OBVIOUS
<1>3. H \in [1..n -> [T -> T]]
  <2>1. \A i \in 1..n : \A m \in T : Append(m, s[i]) \in T
    BY <1>2
  <2> QED BY <2>1
<1>4. Eq(c)
  <2>1. PICK x : IsRun(x, n, T, <<>>, H)
    <3> HIDE DEF H, T, n
    <3> QED BY <1>2, <1>3, RunExists
  <2>2. ASSUME NEW k \in 1..n
        PROVE  x[k] = IF k \in at THEN Append(x[k - 1], s[k]) ELSE x[k - 1]
    <3>1. k - 1 \in 0..n
      BY <1>2
    <3>2. x[k - 1] \in T /\ x[k] = H[k][x[k - 1]]
      <4> HIDE DEF H, T, n
      <4> QED BY <3>1, <2>1 DEF IsRun
    <3> QED BY <3>2
  <2>3. x = [i \in 0..n |-> x[i]] /\ x[0] = <<>>
    BY <2>1 DEF IsRun
  <2>4. \A i \in 0..n : i # 0 => i \in 1..n
    BY <1>2
  <2>5. \A i \in 0..n : x[i] = IF i = 0 THEN <<>>
                             ELSE IF i \in at THEN Append(x[i - 1], s[i])
                             ELSE x[i - 1]
    BY <2>2, <2>3, <2>4
  <2>6. Eq(x)
    BY <2>3, <2>5
  <2> QED BY <2>6
<1>5. IsRun(c, n, T, <<>>, H)
  <2>1. c = [k \in 0..n |-> c[k]] /\ c[0] = <<>>
    <3>1. 0 \in 0..n
      BY <1>2
    <3> QED BY <1>4, <3>1
  <2>2. ASSUME NEW k \in 1..n, c[k - 1] \in T PROVE c[k] = H[k][c[k - 1]]
    <3>1. k \in 0..n /\ k # 0
      BY <1>2
    <3>2. c[k] = IF k \in at THEN Append(c[k - 1], s[k]) ELSE c[k - 1]
      BY <1>4, <3>1
    <3> HIDE DEF c
    <3> QED BY <2>2, <3>2
  <2> HIDE DEF c, H, T, n
  <2> QED BY <1>2, <1>3, <2>1, <2>2, EquationIsRun
<1>6. ASSUME NEW k \in 1..n
      PROVE  c[k] = IF k \in at THEN Append(c[k - 1], s[k]) ELSE c[k - 1]
  <2>1. k \in 0..n /\ k # 0
    BY <1>2
  <2> QED BY <1>4, <2>1
<1>7. c \in [0..n -> T] /\ c[0] = <<>>
  BY <1>5 DEF IsRun
<1>. HIDE DEF c
<1> QED BY <1>1, <1>6, <1>7 DEF Picks

\* Picked returns the entries at the positions given.
LEMMA PickedFacts ==
    ASSUME NEW O, NEW s \in Seq(O), NEW at
    PROVE  /\ Picked(s, at) \in Seq(O)
           /\ ToSet(Picked(s, at)) = {s[i] : i \in at \cap DOMAIN s}
           /\ Distinct(s) => Distinct(Picked(s, at))
<1>. DEFINE n == Len(s)
            Done(k, m) == /\ m \in Seq(O)
                          /\ ToSet(m) = {s[i] : i \in at \cap 1..k}
                          /\ Distinct(s) => Distinct(m)
<1>1. PICK x : Picks(x, O, s, at) /\ Picked(s, at) = x[n]
  BY PickedRun
<1>2. n \in Nat /\ DOMAIN s = 1..n /\ \A i \in 1..n : s[i] \in O
  OBVIOUS
<1>3. Done(0, x[0])
  <2>0. x[0] = <<>>
    BY <1>1 DEF Picks
  <2>1. {s[i] : i \in at \cap 1..0} = {} /\ ToSet(<<>>) = {} /\ Distinct(<<>>)
    BY DEF ToSet, Distinct
  <2> QED BY <2>0, <2>1
<1>4. ASSUME NEW k \in 1..n, Done(k - 1, x[k - 1]) PROVE Done(k, x[k])
  <2>. DEFINE m == x[k - 1]
  <2>1. m \in Seq(O) /\ s[k] \in O
        /\ x[k] = IF k \in at THEN Append(m, s[k]) ELSE m
    BY <1>1, <1>2, <1>4 DEF Picks
  <2>2. 1..k = (1..(k - 1)) \cup {k} /\ k \notin 1..(k - 1)
    OBVIOUS
  <2>3. ToSet(m) = {s[i] : i \in at \cap 1..(k - 1)} /\ (Distinct(s) => Distinct(m))
    BY <1>4
  <2>. HIDE DEF m
  <2>4. CASE k \notin at
    <3>1. at \cap 1..k = at \cap 1..(k - 1)
      BY <2>2, <2>4
    <3> QED BY <2>1, <2>3, <2>4, <3>1
  <2>5. CASE k \in at
    <3>. DEFINE y == Append(m, s[k])
    <3>1. /\ y \in Seq(O) /\ Len(y) = Len(m) + 1 /\ y[Len(m) + 1] = s[k]
          /\ \A i \in 1..Len(m) : y[i] = m[i]
          /\ DOMAIN y = 1..(Len(m) + 1) /\ DOMAIN m = 1..Len(m) /\ Len(m) \in Nat
      BY <2>1
    <3>. HIDE DEF y
    <3>2. ToSet(y) = ToSet(m) \cup {s[k]}
      <4>1. \A i \in 1..(Len(m) + 1) : i = Len(m) + 1 \/ i \in 1..Len(m)
        BY <3>1
      <4>2. Len(m) + 1 \in 1..(Len(m) + 1) /\ 1..Len(m) \subseteq 1..(Len(m) + 1)
        BY <3>1
      <4> QED BY <3>1, <4>1, <4>2 DEF ToSet
    <3>3. at \cap 1..k = (at \cap 1..(k - 1)) \cup {k}
      BY <2>2, <2>5
    <3>4. ToSet(y) = {s[i] : i \in at \cap 1..k}
      BY <3>2, <3>3, <2>3
    <3>5. ASSUME Distinct(s) PROVE Distinct(y)
      <4>1. s[k] \notin ToSet(m)
        <5>1. \A i \in 1..(k - 1) : i \in 1..n /\ i # k
          BY <1>2
        <5> QED BY <2>3, <3>5, <1>2, <5>1 DEF Distinct
      <4>2. \A i \in 1..Len(m) : m[i] \in ToSet(m)
        BY <3>1 DEF ToSet
      <4>3. Distinct(m)
        BY <2>3, <3>5
      <4> QED BY <3>1, <4>1, <4>2, <4>3 DEF Distinct
    <3>6. x[k] = y
      BY <2>1, <2>5 DEF y
    <3> QED BY <3>1, <3>4, <3>5, <3>6
  <2> QED BY <2>4, <2>5
<1>5. Done(n, x[n])
  <2>. DEFINE K == {k \in 0..n : Done(k, x[k])}
  <2>1. 0 \in K /\ \A k \in 1..n : k - 1 \in K => k \in K
    <3> HIDE DEF Done, n
    <3> QED BY <1>2, <1>3, <1>4
  <2>2. 0..n \subseteq K
    <3> HIDE DEF K, n
    <3> QED BY <1>2, <2>1, Induction
  <2> HIDE DEF Done
  <2> QED BY <1>2, <2>2
<1> QED BY <1>1, <1>2, <1>5

-----------------------------------------------------------------------------
(* Sorting, by an order given as a set R of pairs.                         *)

\* R orders any two values of S strictly.
Orders(R, S) ==
    /\ \A a \in S : <<a, a>> \notin R
    /\ \A a, b, c \in S : <<a, b>> \in R /\ <<b, c>> \in R => <<a, c>> \in R
    /\ \A a, b \in S : a = b \/ <<a, b>> \in R \/ <<b, a>> \in R

\* Sequence m is in the order of R, which makes its entries distinct.
InOrderOf(R, m) == \A i, j \in DOMAIN m : i < j => <<m[i], m[j]>> \in R

\* Where Insertion puts x into m, in terms of R.
InsertionBy(R, m, x) ==
    InsertAt(m, 1 + Cardinality({i \in DOMAIN m : <<x, m[i]>> \notin R}), x)

\* y is sequence m with x behind its first c entries.
PutBehind(y, O, m, c, x) ==
    /\ y \in Seq(O) /\ Len(y) = Len(m) + 1
    /\ \A i \in 1..(Len(m) + 1) :
          y[i] = IF i <= c THEN m[i] ELSE IF i = c + 1 THEN x ELSE m[i - 1]

LEMMA InsertAtFacts ==
    ASSUME NEW O, NEW m \in Seq(O), NEW x \in O, NEW c \in 0..Len(m)
    PROVE  PutBehind(InsertAt(m, c + 1, x), O, m, c, x)
<1>. DEFINE a == SubSeq(m, 1, (c + 1) - 1)
            b == SubSeq(m, c + 1, Len(m))
<1>1. /\ Len(m) \in Nat /\ c \in Nat /\ c <= Len(m)
      /\ a \in Seq(O) /\ Len(a) = c /\ \A i \in 1..c : a[i] = m[i]
      /\ b \in Seq(O) /\ Len(b) = Len(m) - c /\ \A i \in 1..(Len(m) - c) : b[i] = m[c + i]
  OBVIOUS
<1>2. InsertAt(m, c + 1, x) = a \o <<x>> \o b
  BY DEF InsertAt
<1>. HIDE DEF a, b
<1>. DEFINE d == a \o <<x>>
<1>3. /\ d \in Seq(O) /\ Len(d) = c + 1 /\ d[c + 1] = x
      /\ \A i \in 1..c : d[i] = a[i]
  BY <1>1
<1>. HIDE DEF d
<1>. DEFINE y == d \o b
<1>4. /\ y \in Seq(O) /\ Len(y) = Len(m) + 1
      /\ \A i \in 1..(Len(m) + 1) : y[i] = IF i <= c + 1 THEN d[i] ELSE b[i - (c + 1)]
  BY <1>1, <1>3
<1>5. y = InsertAt(m, c + 1, x)
  BY <1>2 DEF d
<1>. HIDE DEF y
<1>6. ASSUME NEW i \in 1..(Len(m) + 1)
      PROVE  y[i] = IF i <= c THEN m[i] ELSE IF i = c + 1 THEN x ELSE m[i - 1]
  <2>1. CASE i <= c
    <3>1. i \in 1..c /\ i <= c + 1
      BY <2>1, <1>1
    <3>2. y[i] = d[i] /\ d[i] = a[i] /\ a[i] = m[i]
      BY <3>1, <1>1, <1>3, <1>4
    <3> QED BY <2>1, <3>2
  <2>2. CASE i = c + 1
    BY <2>2, <1>1, <1>3, <1>4
  <2>3. CASE i > c + 1
    <3>1. i - (c + 1) \in 1..(Len(m) - c) /\ c + (i - (c + 1)) = i - 1
      BY <2>3, <1>1
    <3>2. y[i] = b[i - (c + 1)]
      BY <2>3, <1>1, <1>4
    <3> QED BY <2>3, <3>1, <3>2, <1>1
  <2> QED BY <1>1, <2>1, <2>2, <2>3
<1> QED BY <1>4, <1>5, <1>6 DEF PutBehind

\* A set of positions that lies before the rest is an interval.
LEMMA Initial ==
    ASSUME NEW n \in Nat, NEW D, D \subseteq 1..n,
           \A i, j \in 1..n : i < j /\ j \in D => i \in D
    PROVE  Cardinality(D) \in 0..n /\ D = 1..Cardinality(D)
<1>1. \E c \in 0..n : D = 1..c
  <2>1. CASE D = {}
    BY <2>1
  <2>2. CASE D # {}
    <3>1. PICK c \in D : \A i \in D : i <= c
      <4>1. D \subseteq 0..n
        OBVIOUS
      <4> QED BY <2>2, <4>1, MaxOfSubset
    <3>2. ASSUME NEW i \in 1..c PROVE i \in D
      <4>1. i \in 1..n /\ c \in 1..n /\ (i < c \/ i = c)
        OBVIOUS
      <4> QED BY <4>1
    <3>3. D \subseteq 1..c
      BY <3>1
    <3>4. D = 1..c /\ c \in 0..n
      <4>1. c \in 0..n
        OBVIOUS
      <4> QED BY <3>2, <3>3, <4>1
    <3> QED BY <3>4
  <2> QED BY <2>1, <2>2
<1>2. PICK c \in 0..n : D = 1..c
  BY <1>1
<1>3. Cardinality(1..c) = c
  BY FS_Interval
<1> QED BY <1>2, <1>3

\* Inserting a new value into a sequence in order leaves it in order.
LEMMA InsertionFacts ==
    ASSUME NEW O, NEW R, NEW m \in Seq(O), NEW x \in O,
           Orders(R, O), InOrderOf(R, m), x \notin ToSet(m)
    PROVE  /\ InsertionBy(R, m, x) \in Seq(O)
           /\ ToSet(InsertionBy(R, m, x)) = ToSet(m) \cup {x}
           /\ InOrderOf(R, InsertionBy(R, m, x))
<1>. DEFINE n == Len(m)
            D == {i \in DOMAIN m : <<x, m[i]>> \notin R}
            c == Cardinality(D)
            y == InsertAt(m, c + 1, x)
<1>1. n \in Nat /\ DOMAIN m = 1..n /\ \A i \in 1..n : m[i] \in O /\ m[i] # x
  BY DEF ToSet
<1>2. c \in 0..n /\ D = 1..c
  <2>1. ASSUME NEW i \in 1..n, NEW j \in 1..n, i < j, j \in D PROVE i \in D
    <3>1. <<m[i], m[j]>> \in R /\ <<x, m[j]>> \notin R
      BY <1>1, <2>1 DEF InOrderOf
    <3> QED BY <1>1, <3>1 DEF Orders
  <2>2. D \subseteq 1..n
    BY <1>1
  <2> HIDE DEF D, n
  <2> QED BY <1>1, <2>1, <2>2, Initial
<1>3. InsertionBy(R, m, x) = y
  <2>1. 1 + c = c + 1
    BY <1>2
  <2> QED BY <2>1 DEF InsertionBy
<1>4. \A i \in 1..n : IF i <= c THEN <<m[i], x>> \in R ELSE <<x, m[i]>> \in R
  <2>1. ASSUME NEW i \in 1..n, i <= c PROVE <<m[i], x>> \in R
    <3>1. i \in D
      BY <1>2, <2>1
    <3> QED BY <1>1, <3>1 DEF Orders
  <2>2. ASSUME NEW i \in 1..n, ~(i <= c) PROVE <<x, m[i]>> \in R
    <3>1. i \notin D
      BY <1>2, <2>2
    <3> QED BY <1>1, <3>1
  <2> QED BY <2>1, <2>2
<1>. HIDE DEF D, c
<1>5. /\ y \in Seq(O) /\ Len(y) = n + 1
      /\ \A i \in 1..(n + 1) : y[i] = IF i <= c THEN m[i] ELSE IF i = c + 1 THEN x ELSE m[i - 1]
  <2>1. PutBehind(y, O, m, c, x)
    BY <1>2, InsertAtFacts
  <2> QED BY <2>1 DEF PutBehind
<1>. HIDE DEF y, n
<1>6. ToSet(y) = ToSet(m) \cup {x}
  <2>1. DOMAIN y = 1..(n + 1)
    BY <1>1, <1>5
  <2>2. ASSUME NEW i \in 1..(n + 1) PROVE y[i] \in ToSet(m) \cup {x}
    <3>1. CASE i <= c
      BY <1>1, <1>2, <1>5, <3>1 DEF ToSet
    <3>2. CASE i > c + 1
      <4>1. i - 1 \in 1..n /\ y[i] = m[i - 1]
        BY <1>1, <1>2, <1>5, <3>2
      <4> QED BY <1>1, <4>1 DEF ToSet
    <3> QED BY <1>2, <1>5, <3>1, <3>2
  <2>3. ASSUME NEW i \in 1..n PROVE \E j \in 1..(n + 1) : y[j] = m[i]
    <3>1. CASE i <= c
      BY <1>1, <1>5, <3>1
    <3>2. CASE i > c
      <4>1. i + 1 \in 1..(n + 1) /\ ~(i + 1 <= c) /\ i + 1 # c + 1 /\ (i + 1) - 1 = i
        BY <1>1, <1>2, <3>2
      <4> QED BY <1>5, <4>1
    <3> QED BY <1>2, <3>1, <3>2
  <2>4. c + 1 \in 1..(n + 1) /\ y[c + 1] = x
    BY <1>1, <1>2, <1>5
  <2>5. ToSet(y) = {y[i] : i \in 1..(n + 1)} /\ ToSet(m) = {m[i] : i \in 1..n}
    BY <1>1, <2>1 DEF ToSet
  <2>6. ToSet(y) \subseteq ToSet(m) \cup {x}
    BY <2>2, <2>5
  <2>7. ToSet(m) \subseteq ToSet(y)
    BY <2>3, <2>5
  <2>8. x \in ToSet(y)
    BY <2>4, <2>5
  <2> QED BY <2>6, <2>7, <2>8
<1>7. ASSUME NEW i \in 1..(n + 1), NEW j \in 1..(n + 1), i < j
      PROVE  <<y[i], y[j]>> \in R
  <2>1. \A k \in 1..n, l \in 1..n : k < l => <<m[k], m[l]>> \in R
    BY <1>1 DEF InOrderOf
  <2>2. CASE j <= c
    <3>1. y[i] = m[i] /\ y[j] = m[j] /\ i \in 1..n /\ j \in 1..n
      BY <1>1, <1>2, <1>5, <1>7, <2>2
    <3> QED BY <1>7, <2>1, <3>1
  <2>3. CASE j = c + 1
    <3>1. y[i] = m[i] /\ y[j] = x /\ i \in 1..n /\ i <= c
      BY <1>1, <1>2, <1>5, <1>7, <2>3
    <3> QED BY <1>4, <3>1
  <2>4. CASE j > c + 1 /\ i <= c
    <3>1. y[i] = m[i] /\ y[j] = m[j - 1] /\ i \in 1..n /\ j - 1 \in 1..n /\ i < j - 1
      BY <1>1, <1>2, <1>5, <1>7, <2>4
    <3> QED BY <2>1, <3>1
  <2>5. CASE j > c + 1 /\ i = c + 1
    <3>1. y[i] = x /\ y[j] = m[j - 1] /\ j - 1 \in 1..n /\ ~(j - 1 <= c)
      BY <1>1, <1>2, <1>5, <1>7, <2>5
    <3> QED BY <1>4, <3>1
  <2>6. CASE j > c + 1 /\ i > c + 1
    <3>1. y[i] = m[i - 1] /\ y[j] = m[j - 1] /\ i - 1 \in 1..n /\ j - 1 \in 1..n /\ i - 1 < j - 1
      BY <1>1, <1>2, <1>5, <1>7, <2>6
    <3> QED BY <2>1, <3>1
  <2> QED BY <1>2, <2>2, <2>3, <2>4, <2>5, <2>6
<1>8. InOrderOf(R, y)
  BY <1>1, <1>5, <1>7 DEF InOrderOf
<1> QED BY <1>3, <1>5, <1>6, <1>8

\* y has the entries of m and x.
Gains(y, O, m, x) == y \in Seq(O) /\ ToSet(y) = ToSet(m) \cup {x}

\* Wherever an insertion puts x, nothing else changes.
LEMMA InsertionKeeps ==
    ASSUME NEW O, NEW R, NEW m \in Seq(O), NEW x \in O
    PROVE  Gains(InsertionBy(R, m, x), O, m, x)
<1>. DEFINE n == Len(m)
            D == {i \in DOMAIN m : <<x, m[i]>> \notin R}
            c == Cardinality(D)
            y == InsertAt(m, c + 1, x)
<1>1. n \in Nat /\ DOMAIN m = 1..n
  OBVIOUS
<1>2. c \in 0..n
  <2>1. D \in SUBSET (1..n)
    BY <1>1
  <2>2. IsFiniteSet(1..n) /\ Cardinality(1..n) = n
    BY <1>1, CardinalityOfInterval
  <2>3. IsFiniteSet(D) /\ Cardinality(D) <= n
    <3> HIDE DEF D, n
    <3> QED BY <2>1, <2>2, FS_Subset
  <2>4. Cardinality(D) \in Nat
    <3> HIDE DEF D
    <3> QED BY <2>3, FS_CardinalityType
  <2> HIDE DEF D, n
  <2> QED BY <1>1, <2>3, <2>4
<1>3. InsertionBy(R, m, x) = y
  <2>1. 1 + c = c + 1
    BY <1>1, <1>2
  <2> QED BY <2>1 DEF InsertionBy
<1>. HIDE DEF c, D
<1>4. /\ y \in Seq(O) /\ Len(y) = n + 1
      /\ \A i \in 1..(n + 1) : y[i] = IF i <= c THEN m[i] ELSE IF i = c + 1 THEN x ELSE m[i - 1]
  <2>1. PutBehind(y, O, m, c, x)
    BY <1>2, InsertAtFacts
  <2> QED BY <2>1 DEF PutBehind
<1>. HIDE DEF y
<1>5. ToSet(y) = {y[i] : i \in 1..(n + 1)} /\ ToSet(m) = {m[i] : i \in 1..n}
  BY <1>1, <1>4 DEF ToSet
<1>. HIDE DEF n
<1>6. ASSUME NEW i \in 1..(n + 1) PROVE y[i] \in ToSet(m) \cup {x}
  <2>1. CASE i <= c
    <3>1. i \in 1..n
      BY <1>1, <1>2, <2>1
    <3> QED BY <1>4, <1>5, <2>1, <3>1
  <2>2. CASE i = c + 1
    BY <1>1, <1>2, <1>4, <2>2
  <2>3. CASE i > c + 1
    <3>1. i - 1 \in 1..n /\ ~(i <= c) /\ i # c + 1
      BY <1>1, <1>2, <2>3
    <3> QED BY <1>4, <1>5, <3>1
  <2> QED BY <1>1, <1>2, <2>1, <2>2, <2>3
<1>7. x \in ToSet(y)
  <2>1. c + 1 \in 1..(n + 1) /\ ~(c + 1 <= c)
    BY <1>1, <1>2
  <2> QED BY <1>4, <1>5, <2>1
<1>8. ASSUME NEW i \in 1..n PROVE m[i] \in ToSet(y)
  <2>1. CASE i <= c
    <3>1. i \in 1..(n + 1)
      BY <1>1
    <3> QED BY <1>4, <1>5, <2>1, <3>1
  <2>2. CASE ~(i <= c)
    <3>1. i + 1 \in 1..(n + 1) /\ ~(i + 1 <= c) /\ i + 1 # c + 1 /\ (i + 1) - 1 = i
      BY <1>1, <1>2, <2>2
    <3> QED BY <1>4, <1>5, <3>1
  <2> QED BY <2>1, <2>2
<1>9. ToSet(y) = ToSet(m) \cup {x}
  BY <1>5, <1>6, <1>7, <1>8
<1> QED BY <1>3, <1>4, <1>9 DEF Gains

\* x goes through sequence s, inserting entry by entry.
Inserts(x, O, R, s) ==
    /\ x \in [0..Len(s) -> Seq(O)]
    /\ x[0] = <<>>
    /\ \A k \in 1..Len(s) : x[k] = InsertionBy(R, x[k - 1], s[k])

\* The insertions of distinct values arrange them in order.
LEMMA InsertsFacts ==
    ASSUME NEW O, NEW R, NEW s \in Seq(O), Orders(R, O), Distinct(s),
           NEW x, Inserts(x, O, R, s)
    PROVE  /\ x[Len(s)] \in Seq(O)
           /\ ToSet(x[Len(s)]) = ToSet(s)
           /\ InOrderOf(R, x[Len(s)])
<1>. DEFINE n == Len(s)
            Done(k, m) == /\ m \in Seq(O)
                          /\ ToSet(m) = {s[i] : i \in 1..k}
                          /\ InOrderOf(R, m)
<1>1. n \in Nat /\ DOMAIN s = 1..n /\ \A i \in 1..n : s[i] \in O
  OBVIOUS
<1>2. Done(0, x[0])
  <2>1. {s[i] : i \in 1..0} = {} /\ ToSet(<<>>) = {} /\ InOrderOf(R, <<>>) /\ <<>> \in Seq(O)
    BY DEF ToSet, InOrderOf
  <2>2. x[0] = <<>>
    BY DEF Inserts
  <2> QED BY <2>1, <2>2
<1>3. ASSUME NEW k \in 1..n, Done(k - 1, x[k - 1]) PROVE Done(k, x[k])
  <2>. DEFINE m == x[k - 1]
  <2>1. m \in Seq(O) /\ ToSet(m) = {s[i] : i \in 1..(k - 1)} /\ InOrderOf(R, m)
    BY <1>3
  <2>2. x[k] = InsertionBy(R, m, s[k])
    BY DEF Inserts
  <2>. HIDE DEF m
  <2>3. s[k] \notin ToSet(m)
    <3>1. \A i \in 1..(k - 1) : i \in 1..n /\ i # k
      BY <1>1
    <3> QED BY <1>1, <2>1, <3>1 DEF Distinct
  <2>4. /\ InsertionBy(R, m, s[k]) \in Seq(O)
        /\ ToSet(InsertionBy(R, m, s[k])) = ToSet(m) \cup {s[k]}
        /\ InOrderOf(R, InsertionBy(R, m, s[k]))
    <3>1. s[k] \in O
      BY <1>1
    <3> QED BY <2>1, <2>3, <3>1, InsertionFacts
  <2>5. 1..k = (1..(k - 1)) \cup {k}
    OBVIOUS
  <2>6. {s[i] : i \in 1..k} = {s[i] : i \in 1..(k - 1)} \cup {s[k]}
    BY <2>5
  <2> QED BY <2>1, <2>2, <2>4, <2>6
<1>4. Done(n, x[n])
  <2>. DEFINE K == {k \in 0..n : Done(k, x[k])}
  <2>1. 0 \in K /\ \A k \in 1..n : k - 1 \in K => k \in K
    <3> HIDE DEF Done, n
    <3> QED BY <1>1, <1>2, <1>3
  <2>2. 0..n \subseteq K
    <3> HIDE DEF K, n
    <3> QED BY <1>1, <2>1, Induction
  <2> HIDE DEF Done
  <2> QED BY <1>1, <2>2
<1> QED BY <1>1, <1>4 DEF ToSet

\* Insertions by any relation keep what they insert.
LEMMA InsertsKeep ==
    ASSUME NEW O, NEW R, NEW s \in Seq(O), NEW x, Inserts(x, O, R, s)
    PROVE  x[Len(s)] \in Seq(O) /\ ToSet(x[Len(s)]) = ToSet(s)
<1>. DEFINE n == Len(s)
            K == {k \in 0..n : ToSet(x[k]) = {s[i] : i \in 1..k}}
<1>1. n \in Nat /\ DOMAIN s = 1..n /\ \A i \in 1..n : s[i] \in O
  OBVIOUS
<1>2. x[0] = <<>> /\ \A k \in 1..n : x[k] = InsertionBy(R, x[k - 1], s[k])
  BY DEF Inserts
<1>3. \A k \in 0..n : x[k] \in Seq(O)
  BY DEF Inserts
<1>4. 0 \in K
  <2>1. ToSet(<<>>) = {} /\ {s[i] : i \in 1..0} = {}
    BY DEF ToSet
  <2> QED BY <1>1, <1>2, <2>1
<1>5. ASSUME NEW k \in 1..n, k - 1 \in K PROVE k \in K
  <2>1. k - 1 \in 0..n /\ k \in 0..n /\ 1..k = (1..(k - 1)) \cup {k}
    BY <1>1
  <2>2. x[k - 1] \in Seq(O) /\ s[k] \in O /\ x[k] = InsertionBy(R, x[k - 1], s[k])
    BY <1>1, <1>2, <1>3, <2>1
  <2>3. ToSet(x[k]) = ToSet(x[k - 1]) \cup {s[k]}
    <3>. DEFINE m == x[k - 1]
                v == s[k]
    <3>1. m \in Seq(O) /\ v \in O
      BY <2>2
    <3>. HIDE DEF m, v
    <3>2. Gains(InsertionBy(R, m, v), O, m, v)
      BY <3>1, InsertionKeeps
    <3> QED BY <2>2, <3>2 DEF Gains, m, v
  <2>4. {s[i] : i \in 1..k} = {s[i] : i \in 1..(k - 1)} \cup {s[k]}
    BY <2>1
  <2> QED BY <1>5, <2>1, <2>3, <2>4
<1>6. 0..n \subseteq K
  <2> HIDE DEF K, n
  <2> QED BY <1>1, <1>4, <1>5, Induction
<1>7. n \in 0..n /\ n \in K
  BY <1>1, <1>6
<1>8. ToSet(x[n]) = {s[i] : i \in 1..n}
  BY <1>7
<1> QED BY <1>1, <1>3, <1>7, <1>8 DEF ToSet

\* Two sequences in order with the same entries are equal.
LEMMA InOrderUnique ==
    ASSUME NEW O, NEW R, Orders(R, O), NEW a \in Seq(O), NEW b \in Seq(O),
           InOrderOf(R, a), InOrderOf(R, b), ToSet(a) = ToSet(b)
    PROVE  a = b
<1>1. /\ Len(a) \in Nat /\ DOMAIN a = 1..Len(a) /\ \A i \in 1..Len(a) : a[i] \in O
      /\ Len(b) \in Nat /\ DOMAIN b = 1..Len(b) /\ \A i \in 1..Len(b) : b[i] \in O
  OBVIOUS
<1>2. ASSUME NEW x \in O, NEW y \in O, <<x, y>> \in R, <<y, x>> \in R PROVE FALSE
  BY <1>2 DEF Orders
<1>3. ASSUME NEW u \in Seq(O), NEW v \in Seq(O), InOrderOf(R, u), InOrderOf(R, v),
             ToSet(u) = ToSet(v),
             NEW k \in 1..Len(u), \A i \in 1..(k - 1) : i \in 1..Len(v) /\ u[i] = v[i]
      PROVE  k \in 1..Len(v) /\ (u[k] = v[k] \/ <<v[k], u[k]>> \in R)
  <2>1. /\ Len(u) \in Nat /\ DOMAIN u = 1..Len(u) /\ \A i \in 1..Len(u) : u[i] \in O
        /\ Len(v) \in Nat /\ DOMAIN v = 1..Len(v) /\ \A i \in 1..Len(v) : v[i] \in O
    OBVIOUS
  <2>2. PICK j \in 1..Len(v) : v[j] = u[k]
    <3>1. u[k] \in ToSet(v)
      BY <1>3, <2>1 DEF ToSet
    <3> QED BY <2>1, <3>1 DEF ToSet
  <2>3. ~(j < k)
    <3>1. SUFFICES ASSUME j < k PROVE FALSE
      OBVIOUS
    <3>2. j \in 1..(k - 1) /\ j \in 1..Len(u)
      BY <2>1, <3>1
    <3>3. u[j] = u[k]
      BY <1>3, <2>2, <3>2
    <3>4. <<u[j], u[k]>> \in R
      BY <1>3, <2>1, <3>1, <3>2 DEF InOrderOf
    <3> QED BY <2>1, <3>2, <3>3, <3>4 DEF Orders
  <2>4. k \in 1..Len(v)
    BY <2>1, <2>3
  <2>5. k = j \/ <<v[k], v[j]>> \in R
    <3>1. k = j \/ k < j
      BY <2>1, <2>3
    <3>2. \A p, q \in 1..Len(v) : p < q => <<v[p], v[q]>> \in R
      BY <1>3, <2>1 DEF InOrderOf
    <3> QED BY <3>1, <3>2, <2>4
  <2> QED BY <2>2, <2>4, <2>5
<1>4. ASSUME NEW k \in 1..Len(a), \A i \in 1..(k - 1) : i \in 1..Len(b) /\ a[i] = b[i]
      PROVE  k \in 1..Len(b) /\ a[k] = b[k]
  <2>1. k \in 1..Len(b) /\ (a[k] = b[k] \/ <<b[k], a[k]>> \in R)
    BY <1>3, <1>4
  <2>2. a[k] = b[k] \/ <<a[k], b[k]>> \in R
    <3>1. \A i \in 1..(k - 1) : i \in 1..Len(a) /\ b[i] = a[i]
      BY <1>1, <1>4
    <3> QED BY <1>3, <2>1, <3>1
  <2> QED BY <1>1, <1>2, <2>1, <2>2
<1>5. ASSUME NEW u \in Seq(O), NEW v \in Seq(O),
             \A k \in 1..Len(u) :
                (\A i \in 1..(k - 1) : i \in 1..Len(v) /\ u[i] = v[i])
                    => k \in 1..Len(v) /\ u[k] = v[k]
      PROVE  \A k \in 1..Len(u) : k \in 1..Len(v) /\ u[k] = v[k]
  <2>. DEFINE n == Len(u)
              K == {k \in 0..n : \A i \in 1..k : i \in 1..Len(v) /\ u[i] = v[i]}
  <2>1. n \in Nat
    OBVIOUS
  <2>2. 0 \in K
    OBVIOUS
  <2>3. ASSUME NEW k \in 1..n, k - 1 \in K PROVE k \in K
    <3>1. \A i \in 1..(k - 1) : i \in 1..Len(v) /\ u[i] = v[i]
      BY <2>3
    <3>2. k \in 1..Len(v) /\ u[k] = v[k]
      BY <1>5, <3>1
    <3>3. 1..k = (1..(k - 1)) \cup {k} /\ k \in 0..n
      OBVIOUS
    <3> QED BY <3>1, <3>2, <3>3
  <2>4. 0..n \subseteq K
    <3> HIDE DEF K, n
    <3> QED BY <2>1, <2>2, <2>3, Induction
  <2>5. n \in K
    <3> HIDE DEF K, n
    <3>1. n \in 0..n
      BY <2>1
    <3> QED BY <2>4, <3>1, Zenon
  <2> QED BY <2>5
<1>6. \A k \in 1..Len(a) : k \in 1..Len(b) /\ a[k] = b[k]
  BY <1>4, <1>5
<1>7. ~(Len(a) < Len(b))
  <2>1. SUFFICES ASSUME Len(a) < Len(b) PROVE FALSE
    OBVIOUS
  <2>2. Len(b) \in 1..Len(b) /\ \A i \in 1..Len(a) : i \in 1..Len(b) /\ i < Len(b)
    BY <1>1, <2>1
  <2>3. PICK i \in 1..Len(a) : a[i] = b[Len(b)]
    <3>1. b[Len(b)] \in ToSet(a)
      BY <1>1, <2>2 DEF ToSet
    <3> QED BY <1>1, <3>1 DEF ToSet
  <2>4. <<b[i], b[Len(b)]>> \in R /\ b[i] = b[Len(b)]
    BY <1>1, <1>6, <2>2, <2>3 DEF InOrderOf
  <2> QED BY <1>1, <2>2, <2>4 DEF Orders
<1>8. Len(a) = Len(b)
  <2>1. CASE Len(a) = 0
    BY <1>1, <1>7, <2>1
  <2>2. CASE Len(a) # 0
    <3>1. Len(a) \in 1..Len(a)
      BY <1>1, <2>2
    <3>2. Len(a) \in 1..Len(b)
      BY <1>6, <3>1
    <3>3. Len(a) \in Nat /\ Len(b) \in Nat
      OBVIOUS
    <3> QED BY <1>7, <3>2, <3>3
  <2> QED BY <2>1, <2>2
<1> QED BY <1>1, <1>6, <1>8

-----------------------------------------------------------------------------
(* The elements of a set of numbers in increasing order.                   *)

LEMMA SeqOfSubset ==
    ASSUME NEW S, NEW T, S \subseteq T, NEW s \in Seq(S)
    PROVE  s \in Seq(T)
<1>1. Len(s) \in Nat /\ s \in [1..Len(s) -> S]
  OBVIOUS
<1>2. s \in [1..Len(s) -> T]
  BY <1>1
<1> QED BY <1>1, <1>2

\* A list without repetitions is as long as it has members.
LEMMA DistinctLength ==
    ASSUME NEW O, NEW l \in Seq(O), Distinct(l)
    PROVE  IsFiniteSet(ToSet(l)) /\ Cardinality(ToSet(l)) = Len(l)
<1>1. Len(l) \in Nat /\ DOMAIN l = 1..Len(l) /\ l = [i \in 1..Len(l) |-> l[i]]
  OBVIOUS
<1>2. l \in [1..Len(l) -> ToSet(l)]
  BY <1>1 DEF ToSet
<1>3. l \in Bijection(1..Len(l), ToSet(l))
  <2>1. \A x \in ToSet(l) : \E i \in 1..Len(l) : l[i] = x
    BY <1>1 DEF ToSet
  <2>2. \A i, j \in 1..Len(l) : l[i] = l[j] => i = j
    BY <1>1 DEF Distinct
  <2> QED BY <1>2, <2>1, <2>2 DEF Bijection, Injection, Surjection, IsInjective
<1>4. ExistsBijection(1..Len(l), ToSet(l))
  BY <1>3 DEF ExistsBijection
<1>5. IsFiniteSet(1..Len(l)) /\ Cardinality(1..Len(l)) = Len(l)
  BY <1>1, CardinalityOfInterval
<1> QED BY <1>4, <1>5, FS_Bijection

\* SetToSeq lists the elements of a finite set, each once.
LEMMA SetToSeqFacts ==
    ASSUME NEW S, IsFiniteSet(S)
    PROVE  /\ SetToSeq(S) \in Seq(S)
           /\ ToSet(SetToSeq(S)) = S
           /\ Distinct(SetToSeq(S))
<1>. DEFINE n == Cardinality(S)
            f == SetToSeq(S)
<1>1. n \in Nat /\ ExistsBijection(1..n, S)
  BY FS_CardinalityType
<1>2. f \in [1..n -> S] /\ IsInjective(f)
  <2>1. \E g \in [1..n -> S] : IsInjective(g)
    BY <1>1 DEF ExistsBijection, Bijection, Injection
  <2> QED BY <2>1 DEF SetToSeq
<1>3. f \in Injection(1..n, S)
  BY <1>2 DEF Injection
<1>4. f \in Surjection(1..n, S)
  <2>1. Cardinality(1..n) = n
    BY <1>1, FS_Interval
  <2> HIDE DEF f
  <2> QED BY <1>3, <2>1, FS_Injection
<1>. HIDE DEF f, n
<1>5. f \in Seq(S) /\ DOMAIN f = 1..n
  BY <1>1, <1>2
<1>6. ToSet(f) = S
  BY <1>2, <1>4, <1>5 DEF ToSet, Surjection
<1>7. Distinct(f)
  BY <1>2 DEF Distinct, IsInjective
<1> QED BY <1>5, <1>6, <1>7 DEF f

NatOrder == {r \in Nat \X Nat : r[1] < r[2]}

\* Sorting numbers inserts them one by one.
LEMMA NatSortRun ==
    ASSUME NEW s \in Seq(Nat)
    PROVE  \E x : /\ Inserts(x, Nat, NatOrder, s)
                  /\ Sorted(s, LAMBDA i, j : i < j) = x[Len(s)]
<1>. DEFINE n == Len(s)
            T == Seq(Nat)
            H == [i \in 1..n |-> [m \in T |-> InsertionBy(NatOrder, m, s[i])]]
            Put(m, v) == InsertAt(m, 1 + Cardinality({i \in DOMAIN m : ~(v < m[i])}), v)
            Eq(f) == f = [i \in 0..Len(s) |->
                            IF i = 0 THEN <<>> ELSE Put(f[i - 1], s[i])]
            c == CHOOSE f : Eq(f)
<1>1. Sorted(s, LAMBDA i, j : i < j) = c[n]
  BY DEF Sorted, Insertion
<1>2. n \in Nat /\ <<>> \in T /\ \A i \in 1..n : s[i] \in Nat
  OBVIOUS
<1>3. ASSUME NEW m \in T, NEW v \in Nat
      PROVE  Put(m, v) = InsertionBy(NatOrder, m, v) /\ Put(m, v) \in T
  <2>. DEFINE D == {i \in DOMAIN m : ~(v < m[i])}
              E == {i \in DOMAIN m : <<v, m[i]>> \notin NatOrder}
  <2>1. D = E
    BY DEF NatOrder
  <2>2. InsertionBy(NatOrder, m, v) = Put(m, v)
    BY <2>1 DEF InsertionBy
  <2>3. Cardinality(D) \in 0..Len(m)
    <3>1. D \subseteq 1..Len(m) /\ Len(m) \in Nat
      OBVIOUS
    <3>2. IsFiniteSet(1..Len(m)) /\ Cardinality(1..Len(m)) = Len(m)
      BY <3>1, CardinalityOfInterval
    <3>3. IsFiniteSet(D) /\ Cardinality(D) <= Cardinality(1..Len(m))
      <4> HIDE DEF D
      <4> QED BY <3>1, <3>2, FS_Subset
    <3>4. Cardinality(D) \in Nat
      <4> HIDE DEF D
      <4> QED BY <3>3, FS_CardinalityType
    <3> HIDE DEF D
    <3> QED BY <3>1, <3>2, <3>3, <3>4
  <2>4. Put(m, v) \in T
    <3>. DEFINE k == Cardinality(D)
    <3>1. InsertAt(m, k + 1, v) \in Seq(Nat) /\ 1 + k = k + 1
      <4> HIDE DEF k
      <4>1. k \in 0..Len(m) /\ 1 + k = k + 1
        BY <2>3 DEF k
      <4> QED BY <4>1, InsertAtFacts DEF PutBehind
    <3> QED BY <3>1
  <2> QED BY <2>2, <2>4
<1>. HIDE DEF Put
<1>4. H \in [1..n -> [T -> T]]
  BY <1>2, <1>3
<1>5. Eq(c)
  <2>1. PICK x : IsRun(x, n, T, <<>>, H)
    <3> HIDE DEF H, T, n
    <3> QED BY <1>2, <1>4, RunExists
  <2>2. ASSUME NEW k \in 1..n PROVE x[k] = Put(x[k - 1], s[k])
    <3>1. k - 1 \in 0..n
      BY <1>2
    <3>2. x[k - 1] \in T /\ x[k] = H[k][x[k - 1]]
      <4> HIDE DEF H, T, n
      <4> QED BY <3>1, <2>1 DEF IsRun
    <3>3. H[k][x[k - 1]] = InsertionBy(NatOrder, x[k - 1], s[k])
      BY <3>2
    <3>4. s[k] \in Nat
      BY <1>2
    <3> QED BY <3>2, <3>3, <3>4, <1>3
  <2>3. x = [i \in 0..n |-> x[i]] /\ x[0] = <<>>
    BY <2>1 DEF IsRun
  <2>4. \A i \in 0..n : i # 0 => i \in 1..n
    BY <1>2
  <2>5. \A i \in 0..n : x[i] = IF i = 0 THEN <<>> ELSE Put(x[i - 1], s[i])
    BY <2>2, <2>3, <2>4
  <2> QED BY <2>3, <2>5
<1>6. c = [k \in 0..n |-> c[k]] /\ c[0] = <<>>
  <2>1. 0 \in 0..n
    BY <1>2
  <2> QED BY <1>5, <2>1
<1>7. \A k \in 1..n : c[k] = Put(c[k - 1], s[k])
  <2>1. \A k \in 1..n : k \in 0..n /\ k # 0
    BY <1>2
  <2> QED BY <1>5, <2>1
<1>. HIDE DEF c
<1>8. IsRun(c, n, T, <<>>, H)
  <2>1. ASSUME NEW k \in 1..n, c[k - 1] \in T PROVE c[k] = H[k][c[k - 1]]
    BY <1>2, <1>3, <1>7, <2>1
  <2> HIDE DEF H, T, n
  <2> QED BY <1>2, <1>4, <1>6, <2>1, EquationIsRun
<1>9. Inserts(c, Nat, NatOrder, s)
  <2>1. c \in [0..n -> T]
    BY <1>8 DEF IsRun
  <2>2. \A k \in 1..n : c[k] = InsertionBy(NatOrder, c[k - 1], s[k])
    <3>1. \A k \in 1..n : k - 1 \in 0..n /\ s[k] \in Nat
      BY <1>2
    <3> HIDE DEF n
    <3> QED BY <1>3, <1>7, <2>1, <3>1
  <2> QED BY <1>6, <2>1, <2>2 DEF Inserts
<1> QED BY <1>1, <1>9

\* Ascending lists a finite set of numbers in increasing order.
LEMMA AscendingFacts ==
    ASSUME NEW S, IsFiniteSet(S), S \subseteq Nat
    PROVE  /\ Ascending(S) \in Seq(Nat)
           /\ ToSet(Ascending(S)) = S
           /\ InOrderOf(NatOrder, Ascending(S))
<1>. DEFINE s == SetToSeq(S)
<1>1. s \in Seq(Nat) /\ ToSet(s) = S /\ Distinct(s)
  <2>1. s \in Seq(S) /\ ToSet(s) = S /\ Distinct(s)
    BY SetToSeqFacts
  <2> HIDE DEF s
  <2> QED BY <2>1, SeqOfSubset
<1>2. PICK x : Inserts(x, Nat, NatOrder, s) /\ Sorted(s, LAMBDA i, j : i < j) = x[Len(s)]
  <2> HIDE DEF s
  <2> QED BY <1>1, NatSortRun
<1>3. Ascending(S) = x[Len(s)]
  BY <1>2 DEF Ascending
<1>4. Orders(NatOrder, Nat)
  BY DEF Orders, NatOrder
<1>. HIDE DEF s
<1>5. /\ x[Len(s)] \in Seq(Nat)
      /\ ToSet(x[Len(s)]) = ToSet(s)
      /\ InOrderOf(NatOrder, x[Len(s)])
  BY <1>1, <1>2, <1>4, InsertsFacts
<1> QED BY <1>1, <1>3, <1>5

-----------------------------------------------------------------------------
(* An exchange by timestamps, and concatenation.                           *)

LEMMA MissingOpsFacts ==
    ASSUME NEW O, NEW src \in Seq(O), NEW dst
    PROVE  /\ MissingOps(src, dst) \in Seq(O)
           /\ ToSet(MissingOps(src, dst)) =
                {o \in ToSet(src) : o.hlc \notin Fingerprints(dst)}
           /\ Distinct(src) => Distinct(MissingOps(src, dst))
<1>. DEFINE at == {i \in DOMAIN src : src[i].hlc \notin Fingerprints(dst)}
<1>1. MissingOps(src, dst) = Picked(src, at)
  BY DEF MissingOps
<1>2. {src[i] : i \in at \cap DOMAIN src} =
        {o \in ToSet(src) : o.hlc \notin Fingerprints(dst)}
  BY DEF ToSet
<1>3. /\ Picked(src, at) \in Seq(O)
      /\ ToSet(Picked(src, at)) = {src[i] : i \in at \cap DOMAIN src}
      /\ Distinct(src) => Distinct(Picked(src, at))
  <2> HIDE DEF at
  <2> QED BY PickedFacts
<1> QED BY <1>1, <1>2, <1>3

\* FlattenSeq goes from the first sequence to the whole by concatenation.
Flattens(c, seqs, n) ==
    /\ FlattenSeq(seqs) = c[n]
    /\ \A i \in 1..n : c[i] = IF i = 1 THEN seqs[i] ELSE c[i - 1] \o seqs[i]

LEMMA FlattenRun ==
    ASSUME NEW T, \A a, b \in T : a \o b \in T, NEW seqs,
           NEW n, n = Len(seqs), n \in Nat \ {0}, \A i \in 1..n : seqs[i] \in T
    PROVE  \E c : Flattens(c, seqs, n)
<1>. DEFINE Eq(f) == f = [i \in 1..Len(seqs) |->
                            IF i = 1 THEN seqs[i] ELSE f[i - 1] \o seqs[i]]
            c == CHOOSE f : Eq(f)
<1>1. FlattenSeq(seqs) = c[n]
  BY DEF FlattenSeq
<1>2. Eq(c)
  <2>. DEFINE H == [k \in 1..(n - 1) |-> [m \in T |-> m \o seqs[k + 1]]]
  <2>1. n - 1 \in Nat /\ seqs[1] \in T
    OBVIOUS
  <2>2. \A k \in 1..(n - 1) : \A m \in T : m \o seqs[k + 1] \in T
    <3>1. \A k \in 1..(n - 1) : seqs[k + 1] \in T
      OBVIOUS
    <3> QED BY <3>1
  <2>3. H \in [1..(n - 1) -> [T -> T]]
    BY <2>2
  <2>4. PICK x : IsRun(x, n - 1, T, seqs[1], H)
    <3> HIDE DEF H
    <3> QED BY <2>1, <2>3, RunExists
  <2>. DEFINE f == [i \in 1..n |-> x[i - 1]]
  <2>5. f[1] = seqs[1]
    BY <2>4 DEF IsRun
  <2>6. ASSUME NEW i \in 1..n, i # 1 PROVE f[i] = f[i - 1] \o seqs[i]
    <3>1. i - 1 \in 1..(n - 1) /\ (i - 1) - 1 \in 0..(n - 1) /\ (i - 1) + 1 = i /\ i - 1 \in 1..n
      BY <2>6
    <3>2. x[i - 1] = H[i - 1][x[(i - 1) - 1]] /\ x[(i - 1) - 1] \in T
      <4> HIDE DEF H
      <4> QED BY <2>4, <3>1 DEF IsRun
    <3>3. H[i - 1][x[(i - 1) - 1]] = x[(i - 1) - 1] \o seqs[(i - 1) + 1]
      BY <3>1, <3>2
    <3> QED BY <3>1, <3>2, <3>3
  <2>7. \A i \in 1..n : f[i] = IF i = 1 THEN seqs[i] ELSE f[i - 1] \o seqs[i]
    <3> HIDE DEF f
    <3> QED BY <2>5, <2>6
  <2>8. f = [i \in 1..n |-> f[i]]
    OBVIOUS
  <2>9. Eq(f)
    <3> HIDE DEF f
    <3> QED BY <2>7, <2>8
  <2> QED BY <2>9
<1>3. \A i \in 1..n : c[i] = IF i = 1 THEN seqs[i] ELSE c[i - 1] \o seqs[i]
  BY <1>2
<1>. HIDE DEF c
<1> QED BY <1>1, <1>3 DEF Flattens

\* It stays in a set that concatenation does not leave.
LEMMA FlattenStays ==
    ASSUME NEW T, <<>> \in T, \A a, b \in T : a \o b \in T, NEW seqs, NEW n \in Nat,
           n = Len(seqs), seqs = [i \in 1..n |-> seqs[i]], \A i \in 1..n : seqs[i] \in T
    PROVE  FlattenSeq(seqs) \in T
<1>1. CASE n = 0
  <2>1. FlattenSeq(seqs) = seqs /\ DOMAIN seqs = {}
    BY <1>1 DEF FlattenSeq
  <2>2. seqs = <<>>
    BY <1>1
  <2> QED BY <2>1, <2>2
<1>2. CASE n # 0
  <2>1. PICK c : Flattens(c, seqs, n)
    <3>1. n \in Nat \ {0}
      BY <1>2
    <3> QED BY <3>1, FlattenRun
  <2>. DEFINE x == [k \in 0..n |-> IF k = 0 THEN <<>> ELSE c[k]]
  <2>2. x[0] \in T
    OBVIOUS
  <2>3. ASSUME NEW k \in 1..n, x[k - 1] \in T PROVE x[k] \in T
    <3>1. x[k] = c[k] /\ seqs[k] \in T
      <4>1. k \in 0..n /\ k # 0
        OBVIOUS
      <4> QED BY <4>1
    <3>2. CASE k = 1
      BY <2>1, <3>1, <3>2 DEF Flattens
    <3>3. CASE k # 1
      <4>1. k - 1 \in 1..n /\ x[k - 1] = c[k - 1]
        BY <3>3
      <4>2. c[k] = c[k - 1] \o seqs[k]
        BY <2>1, <3>3 DEF Flattens
      <4> QED BY <2>3, <3>1, <4>1, <4>2
    <3> QED BY <3>2, <3>3
  <2>4. \A k \in 0..n : x[k] \in T
    <3> HIDE DEF x
    <3> QED BY <2>2, <2>3, RunStays
  <2>5. n \in 0..n /\ x[n] = c[n]
    BY <1>2
  <2> QED BY <2>1, <2>4, <2>5 DEF Flattens
<1> QED BY <1>1, <1>2

\* FlattenSeq concatenates.
LEMMA FlattenFacts ==
    ASSUME NEW O, NEW seqs \in Seq(Seq(O))
    PROVE  /\ FlattenSeq(seqs) \in Seq(O)
           /\ ToSet(FlattenSeq(seqs)) = UNION {ToSet(seqs[i]) : i \in DOMAIN seqs}
<1>. DEFINE n == Len(seqs)
<1>1. n \in Nat /\ DOMAIN seqs = 1..n /\ \A i \in 1..n : seqs[i] \in Seq(O)
  OBVIOUS
<1>2. CASE n = 0
  <2>1. FlattenSeq(seqs) = seqs /\ seqs = <<>>
    BY <1>2 DEF FlattenSeq
  <2>2. ToSet(<<>>) = {} /\ DOMAIN seqs = {} /\ <<>> \in Seq(O)
    BY <2>1 DEF ToSet
  <2> QED BY <2>1, <2>2
<1>3. CASE n # 0
  <2>. DEFINE T == Seq(O)
              Done(k, m) == /\ m \in T
                            /\ ToSet(m) = UNION {ToSet(seqs[i]) : i \in 1..k}
  <2>1. \A a, b \in T : a \o b \in T
    OBVIOUS
  <2>2. PICK c : Flattens(c, seqs, n)
    <3>1. n \in Nat \ {0} /\ \A i \in 1..n : seqs[i] \in T
      BY <1>1, <1>3
    <3> HIDE DEF T
    <3> QED BY <2>1, <3>1, FlattenRun
  <2>3. \A i \in 1..n : c[i] = IF i = 1 THEN seqs[i] ELSE c[i - 1] \o seqs[i]
    BY <2>2 DEF Flattens
  <2>4. Done(1, c[1])
    <3>1. 1 \in 1..n /\ 1..1 = {1}
      BY <1>1, <1>3
    <3>2. {ToSet(seqs[i]) : i \in 1..1} = {ToSet(seqs[1])}
      BY <3>1
    <3>3. c[1] = seqs[1]
      BY <2>3, <3>1
    <3> QED BY <1>1, <3>1, <3>2, <3>3
  <2>5. ASSUME NEW k \in 2..n, Done(k - 1, c[k - 1]) PROVE Done(k, c[k])
    <3>1. k \in 1..n /\ k # 1
      BY <1>1
    <3>2. c[k] = c[k - 1] \o seqs[k]
      BY <2>3, <3>1
    <3>. DEFINE a == c[k - 1]
                b == seqs[k]
    <3>3. a \in T /\ b \in T
      BY <1>1, <2>5, <3>1
    <3>4. a \o b \in T /\ ToSet(a \o b) = ToSet(a) \cup ToSet(b)
      <4> HIDE DEF a, b
      <4>1. /\ Len(a) \in Nat /\ Len(b) \in Nat /\ a \o b \in T
            /\ DOMAIN a = 1..Len(a) /\ DOMAIN b = 1..Len(b)
            /\ DOMAIN (a \o b) = 1..(Len(a) + Len(b))
            /\ \A i \in 1..(Len(a) + Len(b)) :
                  (a \o b)[i] = IF i <= Len(a) THEN a[i] ELSE b[i - Len(a)]
        BY <3>3
      <4>. DEFINE y == a \o b
      <4>2. /\ DOMAIN y = 1..(Len(a) + Len(b))
            /\ \A i \in 1..(Len(a) + Len(b)) :
                  y[i] = IF i <= Len(a) THEN a[i] ELSE b[i - Len(a)]
        BY <4>1
      <4>. HIDE DEF y
      <4>0. /\ ToSet(y) = {y[i] : i \in 1..(Len(a) + Len(b))}
            /\ \A i \in 1..Len(a) : a[i] \in ToSet(a)
            /\ \A i \in 1..Len(b) : b[i] \in ToSet(b)
            /\ ToSet(b) = {b[i] : i \in 1..Len(b)}
        BY <4>1, <4>2 DEF ToSet
      <4>3. ToSet(y) \subseteq ToSet(a) \cup ToSet(b)
        <5>1. ASSUME NEW i \in 1..(Len(a) + Len(b)) PROVE y[i] \in ToSet(a) \cup ToSet(b)
          <6>1. CASE i <= Len(a)
            <7>1. i \in 1..Len(a)
              BY <4>1, <6>1
            <7> QED BY <4>0, <4>2, <6>1, <7>1
          <6>2. CASE ~(i <= Len(a))
            <7>1. i - Len(a) \in 1..Len(b)
              BY <4>1, <6>2
            <7> QED BY <4>0, <4>2, <6>2, <7>1
          <6> QED BY <6>1, <6>2
        <5> QED BY <4>0, <5>1
      <4>4. ToSet(a) \subseteq ToSet(y)
        <5>1. \A i \in 1..Len(a) : i \in 1..(Len(a) + Len(b)) /\ i <= Len(a)
          BY <4>1
        <5> QED BY <4>1, <4>2, <5>1 DEF ToSet
      <4>5. ToSet(b) \subseteq ToSet(y)
        <5>1. \A i \in 1..Len(b) : /\ i + Len(a) \in 1..(Len(a) + Len(b))
                                   /\ ~(i + Len(a) <= Len(a))
                                   /\ (i + Len(a)) - Len(a) = i
          BY <4>1
        <5>2. \A i \in 1..Len(b) : y[i + Len(a)] = b[i]
          BY <4>2, <5>1
        <5>3. \A i \in 1..Len(b) : b[i] \in ToSet(y)
          BY <4>0, <5>1, <5>2
        <5> QED BY <4>0, <5>3
      <4> QED BY <4>1, <4>3, <4>4, <4>5 DEF y
    <3>5. 1..k = (1..(k - 1)) \cup {k}
      BY <3>1
    <3>6. UNION {ToSet(seqs[i]) : i \in 1..k} =
             (UNION {ToSet(seqs[i]) : i \in 1..(k - 1)}) \cup ToSet(seqs[k])
      BY <3>5
    <3> QED BY <2>5, <3>2, <3>4, <3>6
  <2>6. Done(n, c[n])
    <3>. DEFINE K == {k \in 0..n : k = 0 \/ Done(k, c[k])}
    <3>1. 0 \in K
      BY <1>1
    <3>2. \A k \in 1..n : k - 1 \in K => k \in K
      <4>1. \A k \in 1..n : k \in 0..n /\ (k = 1 \/ (k \in 2..n /\ k - 1 # 0))
        BY <1>1
      <4> HIDE DEF Done, n
      <4> QED BY <2>4, <2>5, <4>1
    <3>3. 0..n \subseteq K
      <4> HIDE DEF K, n
      <4> QED BY <1>1, <3>1, <3>2, Induction
    <3> HIDE DEF Done
    <3> QED BY <1>1, <1>3, <3>3
  <2> QED BY <1>1, <2>2, <2>6 DEF Flattens
<1> QED BY <1>2, <1>3
=============================================================================
