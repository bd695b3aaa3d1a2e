---------------------------- MODULE UniqueMerge ----------------------------
(***************************************************************************)
(* UniqueIndex (src/src/constraints/uniqueness_protocol.rs) as a replica   *)
(* keeps and merges it: the reservations of one column with their states,  *)
(* and the conflict log.  Here states are stored, as in the code, where    *)
(* Replay computes them.                                                   *)
(*                                                                         *)
(* The conflict log is kept as a set: the code pushes a record for every   *)
(* loser each time a value is resolved, so the vector grows with each      *)
(* merge of two replicas that know a conflict, changed or not.             *)
(***************************************************************************)
EXTENDS Hlc, FiniteSets

EmptyIndex == [claims |-> {}, conflicts |-> {}]

Claim(v, r, h) ==
    [value |-> v, row |-> r, owner |-> h.peer, hlc |-> h, state |-> "provisional"]

\* Two reservations of a value count as the same one.
SameClaim(a, b) == a.value = b.value /\ a.row = b.row /\ a.owner = b.owner

ClaimsOf(claims, v) == {c \in claims : c.value = v}

\* Reservation::beats.
ClaimBeats(a, b) ==
    \/ Before(b.hlc, a.hlc)
    \/ a.hlc = b.hlc /\ a.row > b.row

-----------------------------------------------------------------------------
(* Forms with one plausible mistake each.                                  *)

ElectNewcomersOnly(claims) ==
    IF Cardinality(claims) < 2 THEN claims
    ELSE {IF c.state # "provisional" THEN c
          ELSE [c EXCEPT !.state = IF \A d \in claims : ~ClaimBeats(d, c)
                                   THEN "won" ELSE "lost"] : c \in claims}

-----------------------------------------------------------------------------
\* The election of resolve_conflicts_for_value among the claims of one value.
Elect(claims) ==
    IF Cardinality(claims) < 2 THEN claims
    ELSE {[c EXCEPT !.state = IF \A d \in claims : ~ClaimBeats(d, c)
                              THEN "won" ELSE "lost"] : c \in claims}

\* The records it pushes: every loser with the winner.
ConflictsOf(claims) ==
    {[loser |-> c.row, winner |-> d.row, value |-> c.value] :
        c \in {x \in claims : x.state = "lost"}, d \in {x \in claims : x.state = "won"}}

\* The index with the values vs resolved among claims.
Resolve(index, claims, vs) ==
    LET elected == [v \in vs |-> Elect(ClaimsOf(claims, v))]
    IN  [claims    |-> {c \in claims : c.value \notin vs} \cup UNION {elected[v] : v \in vs},
         conflicts |-> index.conflicts \cup UNION {ConflictsOf(elected[v]) : v \in vs}]

\* UniqueIndex::reserve.
ReserveIn(index, claim) ==
    IF \E c \in index.claims : SameClaim(c, claim) THEN index
    ELSE Resolve(index, index.claims \cup {claim}, {claim.value})

MergeIndexUnelected(a, b) ==
    [claims    |-> a.claims \cup {c \in b.claims : \A d \in a.claims : ~SameClaim(c, d)},
     conflicts |-> a.conflicts \cup b.conflicts]

MergeIndexUnlogged(a, b) ==
    LET new == {c \in b.claims : \A d \in a.claims : ~SameClaim(c, d)}
    IN  [claims    |-> Resolve(a, a.claims \cup new, {c.value : c \in b.claims}).claims,
         conflicts |-> a.conflicts \cup b.conflicts]

\* UniqueIndex::merge.  Records are told apart by loser and winner only.
MergeIndex(a, b) ==
    LET new == {c \in b.claims : \A d \in a.claims : ~SameClaim(c, d)}
        merged == Resolve(a, a.claims \cup new, {c.value : c \in b.claims})
        Logged(k) == \E l \in merged.conflicts : l.loser = k.loser /\ l.winner = k.winner
    IN  [merged EXCEPT !.conflicts = @ \cup {k \in b.conflicts : ~Logged(k)}]

\* UniqueIndex::canonical_owner, as the set of rows it may return.
CanonicalOwners(index, v) ==
    {c.row : c \in {d \in ClaimsOf(index.claims, v) : d.state # "lost"}}
=============================================================================
