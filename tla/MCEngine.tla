------------------------------ MODULE MCEngine ------------------------------
(* Schemas and clusters for model checking Engine.                         *)
EXTENDS Engine

\* users(id PRIMARY KEY, email UNIQUE).
UsersTables == {"users"}
UsersColumns == [users |-> {"email"}]
UsersUnique == [users |-> <<[cols |-> <<"email">>, composite |-> FALSE]>>]
UsersValues == [users |-> [email |-> {1, 2}]]
UsersForeignKeys == <<>>
UsersUpdatable == [users |-> {"email"}]

\* members(id PRIMARY KEY, email UNIQUE, team, UNIQUE(email, team)).
MembersTables == {"members"}
MembersColumns == [members |-> {"email", "team"}]
MembersUnique ==
    [members |-> <<[cols |-> <<"email", "team">>, composite |-> TRUE],
                   [cols |-> <<"email">>, composite |-> FALSE]>>]
MembersValues == [members |-> [email |-> {1}, team |-> {Null, 1}]]
MembersUpdatable == [members |-> {"team"}]

\* users(id PRIMARY KEY), orders(id PRIMARY KEY, user_id REFERENCES users) and
\* items(id PRIMARY KEY, order_id REFERENCES orders).
ChainTables == {"items", "orders", "users"}
ChainColumns == [users |-> {}, orders |-> {"user_id"}, items |-> {"order_id"}]
ChainUnique == [t \in ChainTables |-> <<>>]
ChainValues == [users |-> <<>>, orders |-> [user_id |-> {Null, 1}], items |-> [order_id |-> {1}]]
ChainForeignKeys ==
    <<[child |-> "items", col |-> "order_id", parent |-> "orders"],
      [child |-> "orders", col |-> "user_id", parent |-> "users"]>>
ChainUpdatable == [users |-> {}, orders |-> {"user_id"}, items |-> {}]

NoSkew == [p \in Peer |-> 0]
\* The physical clock of the last peer is a millisecond ahead.
LastAhead == [p \in Peer |-> IF \A q \in Peer : q <= p THEN 1 ELSE 0]
=============================================================================
