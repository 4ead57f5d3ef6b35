---------------------------- MODULE MCRepositories ----------------------------
(* Two users and few values of everything that is stored. *)
EXTENDS Repositories

Dollars(minor) == [class |-> "Money", minor |-> minor, currency |-> "USD"]

Txn(user, plaid) ==
    [user |-> user, plaid |-> plaid, amount |-> Dollars(1000), rawName |-> {"blue", "cup"},
     name |-> Null, category |-> Null, at |-> 1, removed |-> FALSE]

SomeBatches ==
    {<<Txn(u, p)>> : u \in Users, p \in Plaids}
        \cup {<<Txn("u", p), Txn(v, q)>> : p, q \in Plaids, v \in Users}

SomeWords == {{"blue"}, {"cafe"}}
SomeEnrichments == {[name |-> {"cafe", "blue"}, category |-> "dining"]}
SomeMerchants == {[merchant |-> "blue", category |-> c] : c \in {"dining", "travel"}}
SomeBaselines ==
    {[user |-> "u", category |-> c, period |-> "weekly", mean |-> Dollars(n), median |-> Dollars(9)] :
        c \in {"dining"}, n \in {7, 8}}
SomeAddresses == {[name |-> n, upper |-> FALSE] : n \in {"ann", "bob"}}
                    \cup {[name |-> "ann", upper |-> TRUE]}
SomeSeed ==
    [user |-> "u", address |-> [name |-> "ann", upper |-> FALSE], gmail |-> "g",
     txn |-> Numbered(1, Txn("u", "p"))]
SomeTotals == {Null, Dollars(1000)}
SomeItems == {{}, {Dollars(400)}}
=============================================================================
