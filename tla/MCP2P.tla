------------------------------- MODULE MCP2P -------------------------------
(***************************************************************************)
(* Two peers; blocks a1 to a11 and, from a1, b2 b3.                        *)
(***************************************************************************)
EXTENDS P2P

NetPaths == {<<"0", "a1", "a2", "a3", "a4", "a5", "a6", "a7", "a8", "a9", "a10", "a11">>,
             <<"0", "a1", "b2", "b3">>}
NetBlocks == {"a1", "a2", "a3", "a4", "a5", "a6", "a7", "a8", "a9", "a10", "a11",
              "b2", "b3"}
NetPrev == [b \in NetBlocks |-> CHOOSE x \in NetBlocks \cup {"0"} :
                \E path \in NetPaths : \E i \in 2..Len(path) : path[i] = b /\ path[i - 1] = x]
NetAncestors == [b \in NetBlocks \cup {"0"} |->
    UNION {{path[j] : j \in 1..i} : <<path, i>> \in {<<x, k>> \in NetPaths \X (1..12) :
                                                   k <= Len(x) /\ x[k] = b}}]
NetNum == [b \in DOMAIN NetAncestors |-> Cardinality(NetAncestors[b]) - 1]
NoProducer == [b \in NetBlocks |-> "A"]
NoSkipped == [b \in NetBlocks |-> {}]
NoSchedule == [b \in NetBlocks \cup {"0"} |-> {"A"}]

Env(moves, asks, news, drops, joins, faults) ==
    [moves |-> moves, asks |-> asks, news |-> news, drops |-> drops, joins |-> joins,
     faults |-> faults]

Mix(ours, p, q, e) == [ours |-> ours, theirs |-> ("p" :> p @@ "q" :> q), env |-> e]

\* One peer, which grows or switches to the other branch; two peers, on one
\* branch or two; a lost connection; and what else may go wrong.
NetMixes == {
    Mix("0", "a11", "0", Env(0, 0, 0, 0, 1, {})),
    Mix("b2", "a7", "0", Env(0, 1, 0, 0, 1, {})),
    Mix("a1", "a3", "0", Env(1, 1, 0, 0, 1, {})),
    Mix("a1", "b2", "0", Env(1, 1, 0, 0, 1, {})),
    Mix("b2", "b2", "a2", Env(1, 0, 0, 0, 2, {})),
    Mix("b2", "a3", "a4", Env(0, 0, 0, 0, 2, {})),
    Mix("a1", "a2", "a3", Env(0, 0, 0, 1, 3, {"lost"})),
    Mix("a1", "a2", "a2", Env(0, 1, 0, 0, 2, {"missing"})),
    Mix("a1", "a2", "a3", Env(0, 0, 0, 0, 2, {"slow"})),
    Mix("a2", "a3", "0", Env(0, 0, 0, 0, 1, {"wrong"})),
    Mix("a1", "a2", "a2", Env(0, 0, 0, 0, 2, {"wrong"})),
    Mix("a2", "a3", "0", Env(0, 1, 2, 0, 1, {"inventory"})),
    Mix("a2", "a3", "a2", Env(0, 0, 1, 0, 2, {"inventory"})),
    Mix("a2", "a2", "a2", Env(0, 1, 2, 0, 2, {"inventory"})),
    Mix("a2", "a2", "a2", Env(0, 0, 3, 1, 2, {"inventory", "lost", "missing"})) }
============================================================================
