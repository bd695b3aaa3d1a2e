--------------------------- MODULE ReplicatedSet ---------------------------
(***************************************************************************)
(* What anti-entropy promises: every peer keeps a set of operations that   *)
(* only grows; an exchange leaves both peers with everything either had.   *)
(***************************************************************************)
CONSTANTS
    Peer,
    Op

VARIABLE ops

Written == UNION {ops[p] : p \in Peer}

Init == ops = [p \in Peer |-> {}]

\* New operations appear at one peer only, and none of them existed before.
Write(p) ==
    LET new == ops'[p] \ ops[p]
    IN  /\ ops' \in [Peer -> SUBSET Op]
        /\ ops[p] \subseteq ops'[p]
        /\ new \cap Written = {}
        /\ \A q \in Peer \ {p} : ops'[q] = ops[q]

Exchange(p, q) ==
    LET all == ops[p] \cup ops[q]
    IN  ops' = [ops EXCEPT ![p] = all, ![q] = all]

Receive(p, q) == ops' = [ops EXCEPT ![p] = @ \cup ops[q]]

Next ==
    \/ \E p \in Peer : Write(p)
    \/ \E p, q \in Peer : p # q /\ (Exchange(p, q) \/ Receive(p, q))

Spec == Init /\ [][Next]_ops
=============================================================================
