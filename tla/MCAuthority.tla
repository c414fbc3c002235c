---------------------------- MODULE MCAuthority -----------------------------
(***************************************************************************)
(* Accounts whose active authorities name each other in chains, in         *)
(* cycles and with thresholds that need several, with few keys.            *)
(***************************************************************************)
EXTENDS Authority, TLC

Auth(threshold, keys, accounts) == [threshold |-> threshold, keys |-> keys, accounts |-> accounts]

Empty == [x \in {} |-> 0]

MCAccounts == <<"a", "b", "c", "d", "temp">>
MCKeys == <<"k1", "k2", "k3">>

ActiveOf ==
    [a |-> {Auth(1, Empty, "b" :> 1),
            Auth(1, "k1" :> 1, "b" :> 1 @@ "c" :> 1),
            Auth(2, "k1" :> 1, "b" :> 1 @@ "c" :> 1),
            Auth(3, "k1" :> 1 @@ "k2" :> 1, "b" :> 1 @@ "c" :> 2)},
     b |-> {Auth(1, "k2" :> 1, Empty),
            Auth(1, Empty, "c" :> 1),
            Auth(2, "k2" :> 1 @@ "k3" :> 1, "a" :> 1),
            Auth(1, Empty, "a" :> 1 @@ "c" :> 1)},
     c |-> {Auth(1, "k3" :> 1, Empty),
            Auth(1, Empty, "d" :> 1),
            Auth(3, "k3" :> 1, "b" :> 1 @@ "d" :> 1 @@ "temp" :> 1)},
     d |-> {Auth(1, "k2" :> 1, Empty),
            Auth(1, Empty, "a" :> 1)}]

MCAuthorities(x, l) ==
    CASE l = "active" /\ x \in DOMAIN ActiveOf -> ActiveOf[x]
      [] l = "master" /\ x = "a" -> {Auth(1, "k1" :> 1, Empty), Auth(2, "k1" :> 1, "b" :> 1)}
      [] l = "regular" /\ x = "b" -> {Auth(1, "k1" :> 1, Empty), Auth(1, Empty, "c" :> 1)}
      [] OTHER -> {Auth(1, "k3" :> 1, Empty)}

Req(regular, active, master, other) ==
    [regular |-> regular, active |-> active, master |-> master, other |-> other]

MCTransactions ==
    {Req({}, {"a"}, {}, <<>>),
     Req({}, {"a", "b"}, {}, <<>>),
     Req({}, {"b"}, {"a"}, <<>>),
     Req({}, {"c"}, {}, <<Auth(1, Empty, "a" :> 1), Auth(2, "k1" :> 1, "b" :> 1)>>),
     Req({"a", "b"}, {}, {}, <<>>),
     Req({"a"}, {"b"}, {}, <<>>)}

MCApprovals == {None} \cup {[None EXCEPT ![l] = {a}] : l \in Levels, a \in {"a", "b", "c", "d"}}
=============================================================================
