--------------------------- MODULE MCAntiEntropy ---------------------------
(* Three peers on a line: 1 and 3 only ever meet 2.                        *)
EXTENDS AntiEntropy, FiniteSets

CONSTANT MaxOps     \* bound on the operations logged by all peers together

Line == {<<1, 2>>, <<2, 3>>}

\* Clients stop once MaxOps operations are logged; synchronisation goes on.
FewOps == Cardinality(UNION {log[p] : p \in Peer}) <= MaxOps

BoundedSpec == Init /\ [][Next /\ FewOps']_vars /\ FairSync
=============================================================================
