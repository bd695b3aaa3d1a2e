------------------------- MODULE AntiEntropyProofs -------------------------
(***************************************************************************)
(* Synchronising by timestamp fingerprints loses nothing: the logs behave  *)
(* as a replicated set, for every set of peers and every set of operation  *)
(* bodies.  The argument is the invariant LogInv: a clock is never behind  *)
(* the timestamps produced under its name, so a timestamp is used by one   *)
(* statement only, and the operations that share it are never separated.   *)
(***************************************************************************)
EXTENDS AntiEntropy, TLAPS

-----------------------------------------------------------------------------
\* The order of the clock values is transitive where the proof needs it: what
\* a clock has reached stays reached when the clock advances.
LEMMA StaysReached ==
    ASSUME NEW c \in Clocks, NEW d \in Clocks, NEW o \in Op,
           ~Earlier(c, o.hlc), Earlier(c, d)
    PROVE  ~Earlier(d, o.hlc)
  <1>1. /\ c.wall \in Nat /\ c.logical \in Nat
        /\ d.wall \in Nat /\ d.logical \in Nat
        /\ o.hlc.wall \in Nat /\ o.hlc.logical \in Nat
    BY TimeIsNat DEF Clocks, Op
  <1>2. QED
    BY <1>1 DEF Earlier

\* Where groups are whole, comparing fingerprints and comparing operations
\* select the same operations.
LEMMA MissingIsDifference ==
    ASSUME LogInv, NEW p \in Peer, NEW q \in Peer
    PROVE  log[p] \cup Missing(log[q], log[p]) = log[p] \cup log[q]
  BY DEF LogInv, GroupsWhole, Missing, Fingerprints

\* A statement preserves the invariant: its timestamps are beyond everything
\* the peer produced before, so no group is extended.
LEMMA ExecutePreserves ==
    ASSUME LogInv, NEW p \in Peer, Execute(p)
    PROVE  LogInv'
  <1>1. PICK c \in Clocks, new \in SUBSET Op : Statement(p, c, new)
    BY DEF Execute
  <1>2. /\ Earlier(clock[p], c)
        /\ clock' = [clock EXCEPT ![p] = c]
        /\ log' = [log EXCEPT ![p] = @ \cup new]
        /\ \A o \in new : /\ o.hlc.peer = p
                          /\ Earlier(clock[p], o.hlc)
                          /\ ~Earlier(c, o.hlc)
    BY <1>1 DEF Statement, Loggable
  <1>3. TypeOK'
    BY <1>2 DEF LogInv, TypeOK
  <1>4. /\ clock'[p] = c
        /\ log'[p] = log[p] \cup new
        /\ \A q \in Peer : q # p => clock'[q] = clock[q] /\ log'[q] = log[q]
    BY <1>2 DEF LogInv, TypeOK
  <1>5. clock[p] \in Clocks /\ \A q \in Peer : log[q] \subseteq Op
    BY DEF LogInv, TypeOK
  <1>6. Floor'
    <2> SUFFICES ASSUME NEW q \in Peer, NEW o \in log'[q], o.hlc.peer = q
                 PROVE  ~Earlier(clock'[q], o.hlc)
      BY DEF Floor
    <2>1. CASE q # p
      BY <2>1, <1>4 DEF LogInv, Floor
    <2>2. CASE q = p /\ o \in new
      BY <2>2, <1>2, <1>4
    <2>3. CASE q = p /\ o \in log[p]
      <3>1. ~Earlier(clock[p], o.hlc)
        BY <2>3 DEF LogInv, Floor
      <3>2. QED
        BY <3>1, <2>3, <1>2, <1>4, <1>5, StaysReached
    <2>4. QED
      BY <2>1, <2>2, <2>3, <1>4
  <1>7. Origin'
    BY <1>2, <1>4 DEF LogInv, Origin
  <1>8. ASSUME NEW o \in new, NEW q \in Peer, NEW a \in log[q],
               a.hlc = o.hlc
        PROVE  FALSE
    <2>1. a.hlc.peer = p /\ a \in log[p]
      BY <1>2, <1>8 DEF LogInv, Origin
    <2>2. ~Earlier(clock[p], a.hlc)
      BY <2>1 DEF LogInv, Floor
    <2>3. QED
      BY <2>2, <1>2, <1>8
  <1>9. GroupsWhole'
    <2> SUFFICES ASSUME NEW q \in Peer, NEW r \in Peer,
                        NEW a \in log'[q], NEW b \in log'[r],
                        a.hlc = b.hlc
                 PROVE  b \in log'[q]
      BY DEF GroupsWhole
    <2>1. CASE a \in log[q] /\ b \in log[r]
      <3>1. b \in log[q]
        BY <2>1 DEF LogInv, GroupsWhole
      <3>2. QED
        BY <3>1, <1>4
    <2>2. CASE a \notin log[q] /\ b \in log[r]
      BY <2>2, <1>4, <1>8
    <2>3. CASE a \in log[q] /\ b \notin log[r]
      BY <2>3, <1>4, <1>8
    <2>4. CASE a \notin log[q] /\ b \notin log[r]
      BY <2>4, <1>4
    <2>5. QED
      BY <2>1, <2>2, <2>3, <2>4
  <1>10. QED
    BY <1>3, <1>6, <1>7, <1>9 DEF LogInv

\* So does any step that leaves the clocks alone and after which each log is
\* a union of earlier logs: a synchronisation in either form.
LEMMA UnionPreserves ==
    ASSUME LogInv, UNCHANGED clock,
           log' \in [Peer -> SUBSET Op],
           \A p \in Peer : log[p] \subseteq log'[p],
           \A p \in Peer : \E q \in Peer : log'[p] = log[p] \cup log[q]
    PROVE  LogInv'
  <1>1. TypeOK'
    BY DEF LogInv, TypeOK
  <1>2. \A p \in Peer : \A o \in log'[p] : \E q \in Peer :
            o \in log[q] /\ log[q] \subseteq log'[p]
    <2> SUFFICES ASSUME NEW p \in Peer, NEW o \in log'[p]
                 PROVE  \E q \in Peer : o \in log[q] /\ log[q] \subseteq log'[p]
      OBVIOUS
    <2>1. PICK q \in Peer : log'[p] = log[p] \cup log[q]
      OBVIOUS
    <2>2. QED
      BY <2>1
  <1>3. Floor'
    <2> SUFFICES ASSUME NEW p \in Peer, NEW o \in log'[p], o.hlc.peer = p
                 PROVE  ~Earlier(clock[p], o.hlc)
      BY DEF Floor
    <2>1. o \in log[p]
      BY <1>2 DEF LogInv, Origin
    <2>2. QED
      BY <2>1 DEF LogInv, Floor
  <1>4. Origin'
    BY <1>2 DEF LogInv, Origin
  <1>5. GroupsWhole'
    <2> SUFFICES ASSUME NEW p \in Peer, NEW q \in Peer,
                        NEW a \in log'[p], NEW b \in log'[q],
                        a.hlc = b.hlc
                 PROVE  b \in log'[p]
      BY DEF GroupsWhole
    <2>1. PICK x \in Peer : a \in log[x] /\ log[x] \subseteq log'[p]
      BY <1>2
    <2>2. PICK y \in Peer : b \in log[y]
      BY <1>2
    <2>3. b \in log[x]
      BY <2>1, <2>2 DEF LogInv, GroupsWhole
    <2>4. QED
      BY <2>1, <2>3
  <1>6. QED
    BY <1>1, <1>3, <1>4, <1>5 DEF LogInv

\* A bidirectional synchronisation is an exchange of the replicated set.
LEMMA SyncExchanges ==
    ASSUME LogInv, NEW p \in Peer, NEW q \in Peer, p # q, Sync(p, q)
    PROVE  Abstract!Exchange(p, q) /\ LogInv'
  <1>1. log' = [log EXCEPT ![p] = log[p] \cup log[q],
                           ![q] = log[p] \cup log[q]]
    BY MissingIsDifference DEF Sync, LogInv, TypeOK
  <1>2. Abstract!Exchange(p, q)
    BY <1>1 DEF Abstract!Exchange
  <1>3. LogInv'
    <2>1. log' \in [Peer -> SUBSET Op] /\ UNCHANGED clock
      BY <1>1 DEF Sync, LogInv, TypeOK
    <2>2. /\ log'[p] = log[p] \cup log[q]
          /\ log'[q] = log[q] \cup log[p]
          /\ \A r \in Peer : r # p /\ r # q => log'[r] = log[r] \cup log[r]
      BY <1>1 DEF LogInv, TypeOK
    <2>3. /\ \A r \in Peer : log[r] \subseteq log'[r]
          /\ \A r \in Peer : \E s \in Peer : log'[r] = log[r] \cup log[s]
      BY <2>2
    <2>4. QED
      BY <2>1, <2>3, UnionPreserves
  <1>4. QED
    BY <1>2, <1>3

\* A one-way synchronisation is a reception of the replicated set.
LEMMA SyncFromReceives ==
    ASSUME LogInv, NEW p \in Peer, NEW q \in Peer, SyncFrom(p, q)
    PROVE  Abstract!Receive(p, q) /\ LogInv'
  <1>1. log' = [log EXCEPT ![p] = log[p] \cup log[q]]
    BY MissingIsDifference DEF SyncFrom, LogInv, TypeOK
  <1>2. Abstract!Receive(p, q)
    BY <1>1 DEF Abstract!Receive
  <1>3. LogInv'
    <2>1. log' \in [Peer -> SUBSET Op] /\ UNCHANGED clock
      BY <1>1 DEF SyncFrom, LogInv, TypeOK
    <2>2. /\ log'[p] = log[p] \cup log[q]
          /\ \A r \in Peer : r # p => log'[r] = log[r] \cup log[r]
      BY <1>1 DEF LogInv, TypeOK
    <2>3. /\ \A r \in Peer : log[r] \subseteq log'[r]
          /\ \A r \in Peer : \E s \in Peer : log'[r] = log[r] \cup log[s]
      BY <2>2
    <2>4. QED
      BY <2>1, <2>3, UnionPreserves
  <1>4. QED
    BY <1>2, <1>3

\* A statement is a write of the replicated set: what it logs is new at every
\* peer.
LEMMA ExecuteWrites ==
    ASSUME LogInv, NEW p \in Peer, Execute(p)
    PROVE  Abstract!Write(p)
  <1>1. PICK c \in Clocks, new \in SUBSET Op : Statement(p, c, new)
    BY DEF Execute
  <1>2. /\ log \in [Peer -> SUBSET Op]
        /\ log' = [log EXCEPT ![p] = @ \cup new]
        /\ \A o \in new : o.hlc.peer = p /\ Earlier(clock[p], o.hlc)
    BY <1>1 DEF LogInv, TypeOK, Statement, Loggable
  <1>3. \A o \in new : \A q \in Peer : o \notin log[q]
    <2> SUFFICES ASSUME NEW o \in new, NEW q \in Peer, o \in log[q]
                 PROVE  FALSE
      OBVIOUS
    <2>1. o.hlc.peer = p /\ Earlier(clock[p], o.hlc)
      BY <1>2
    <2>2. o \in log[p]
      BY <2>1 DEF LogInv, Origin
    <2>3. QED
      BY <2>1, <2>2 DEF LogInv, Floor
  <1>4. (log'[p] \ log[p]) \cap UNION {log[q] : q \in Peer} = {}
    BY <1>2, <1>3
  <1>5. QED
    BY <1>2, <1>4 DEF Abstract!Write, Abstract!Written

-----------------------------------------------------------------------------
\* A step preserves the invariant and is a step of the replicated set.
LEMMA StepRefines ==
    ASSUME LogInv, [Next]_vars
    PROVE  LogInv' /\ [Abstract!Next]_log
  <1>1. ASSUME NEW p \in Peer, Execute(p)
        PROVE  LogInv' /\ [Abstract!Next]_log
    BY <1>1, ExecutePreserves, ExecuteWrites DEF Abstract!Next
  <1>2. ASSUME NEW p \in Peer, NEW q \in Peer, p # q, Sync(p, q)
        PROVE  LogInv' /\ [Abstract!Next]_log
    BY <1>2, SyncExchanges DEF Abstract!Next
  <1>3. ASSUME NEW p \in Peer, NEW q \in Peer, p # q, SyncFrom(p, q)
        PROVE  LogInv' /\ [Abstract!Next]_log
    BY <1>3, SyncFromReceives DEF Abstract!Next
  <1>4. CASE UNCHANGED vars
    BY <1>4 DEF vars, LogInv, TypeOK, Floor, Origin, GroupsWhole
  <1>5. QED
    BY <1>1, <1>2, <1>3, <1>4 DEF Next

\* The empty logs satisfy the invariant.
LEMMA InitEstablishes == Init => LogInv
  BY ZeroIsTime DEF Init, LogInv, TypeOK, Clocks, Floor, Origin, GroupsWhole

\* Clocks stay ahead of the logs and groups stay whole: the row write of a
\* statement is never separated from its reservations by a synchronisation.
THEOREM LogInvariant == Spec => []LogInv
  <1>1. LogInv /\ [Next]_vars => LogInv'
    BY StepRefines
  <1>2. QED
    BY <1>1, InitEstablishes, PTL DEF Spec

\* Fingerprint synchronisation implements the replicated set.
THEOREM Refinement == Spec => ImplementsReplicatedSet
  <1>1. Init => Abstract!Init
    BY DEF Init, Abstract!Init
  <1>2. LogInv /\ [Next]_vars => [Abstract!Next]_log
    BY StepRefines
  <1>3. QED
    BY <1>1, <1>2, LogInvariant, PTL
       DEF Spec, ImplementsReplicatedSet, Abstract!Spec
=============================================================================
