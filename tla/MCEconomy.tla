------------------------------ MODULE MCEconomy -----------------------------
EXTENDS Economy

MCBeneficiaries == {<<>>, <<[account |-> 4, weight |-> 2]>>, <<[account |-> 5, weight |-> 1]>>,
                    <<[account |-> 4, weight |-> 3], [account |-> 3, weight |-> 1]>>}
MCVotes == {-4, 2, 4}
MCTransfers == {<<[from |-> 3, to |-> 4, amount |-> 1], [from |-> 4, to |-> 3, amount |-> 5]>>,
                <<[from |-> 4, to |-> 3, amount |-> 3]>>}
MCFirstHistory == <<[account |-> 3, auth |-> 9, last_valid |-> 1]>>

MCMixes == {{"ledger"}, {"withdraw", "routes"}, {"withdraw", "delegate"}, {"awards"}, {"awards", "delegate"},
            {"escrow"}, {"market"}, {"market", "recovery"}, {"committee"}, {"invites"}, {"subscriptions"},
            {"proposals", "recovery"}}
MCMaxOps(m) == CASE "escrow" \in m -> 5
                 [] m \in {{"withdraw", "routes"}, {"market", "recovery"}, {"committee"}, {"invites"},
                           {"proposals", "recovery"}} -> 4
                 [] m = {"awards", "delegate"} -> 2
                 [] OTHER -> 3
MCMaxTime(m) == IF m \in {{"escrow"}, {"withdraw", "routes"}, {"committee"}, {"invites"}, {"subscriptions"}}
                THEN 5 ELSE 4
MCFirstAccounts(m) == IF m \in {{"escrow"}, {"market"}} THEN 0..5 ELSE 0..4
=============================================================================
