------------------------- MODULE MCMergingReplicas -------------------------
(* users(id PRIMARY KEY, email UNIQUE) at replicas that merge states.       *)
EXTENDS MergingReplicas

UsersColumns == [users |-> {"email"}]
UsersUnique == [users |-> <<[cols |-> <<"email">>, composite |-> FALSE]>>]
UsersForeignKeys == <<>>
=============================================================================
