------------------------------- MODULE Escrow -------------------------------
(***************************************************************************)
(* Escrow transfers: tokens held between two parties and an agent, from    *)
(* ratification through a dispute to their release.                        *)
(***************************************************************************)
EXTENDS Ledger

CONSTANTS EscrowId, Delays             \* how far ahead an operation may set a time

is_approved(e) == e.to_approved /\ e.agent_approved

escrow_transfer(from, to, agent, id, amount, fee, deadline, expiration) ==
    /\ {from, to, agent} \subseteq db.exists /\ from \in Users
    /\ from # agent /\ to # agent
    /\ deadline < expiration
    /\ deadline > db.time /\ expiration > db.time
    /\ db.balance[from] >= amount + fee
    /\ \A e \in db.escrows : ~(e.from = from /\ e.escrow_id = id)
    /\ db' = [adjust_balance(db, from, -(amount + fee)) EXCEPT !.escrows = @ \cup
                 {[from |-> from, to |-> to, agent |-> agent, escrow_id |-> id,
                   ratification_deadline |-> deadline, escrow_expiration |-> expiration,
                   token_balance |-> amount, pending_fee |-> fee,
                   to_approved |-> FALSE, agent_approved |-> FALSE, disputed |-> FALSE]}]

\* Mutant: a rejection returns the tokens but not the fee.
reject_keeping_fee(d, e) ==
    [adjust_balance(d, e.from, e.token_balance) EXCEPT !.escrows = @ \ {e}]

\* everything goes back to the sender
ReturnEscrow(d, e) ==
    [adjust_balance(d, e.from, e.token_balance + e.pending_fee) EXCEPT !.escrows = @ \ {e}]

escrow_approve(e, who, approve) ==
    LET ok == [e EXCEPT !.to_approved = @ \/ who = e.to, !.agent_approved = @ \/ who = e.agent]
    IN  /\ who \in {e.to, e.agent}
        /\ e.ratification_deadline >= db.time
        /\ who = e.to => ~e.to_approved
        /\ who = e.agent => ~e.agent_approved
        /\ \/ /\ ~approve
              /\ db' = ReturnEscrow(db, e)
           \/ /\ approve /\ ~is_approved(ok)
              /\ db' = [db EXCEPT !.escrows = (@ \ {e}) \cup {ok}]
           \/ /\ approve /\ is_approved(ok)
              /\ db' = [adjust_balance(db, e.agent, e.pending_fee) EXCEPT
                           !.escrows = (@ \ {e}) \cup {[ok EXCEPT !.pending_fee = 0]}]

escrow_dispute(e, who) ==
    /\ who \in {e.from, e.to}
    /\ db.time < e.escrow_expiration
    /\ is_approved(e) /\ ~e.disputed
    /\ db' = [db EXCEPT !.escrows = (@ \ {e}) \cup {[e EXCEPT !.disputed = TRUE]}]

MayRelease(e, who, receiver) ==
    \/ e.disputed /\ who = e.agent
    \/ /\ ~e.disputed /\ who \in {e.from, e.to}
       /\ e.escrow_expiration > db.time =>
             /\ who = e.from => receiver = e.to
             /\ who # e.from => receiver = e.from

escrow_release(e, who, receiver, amount) ==
    LET left == [e EXCEPT !.token_balance = @ - amount] IN
    /\ receiver \in {e.from, e.to}
    /\ amount > 0 /\ e.token_balance >= amount
    /\ is_approved(e)
    /\ MayRelease(e, who, receiver)
    /\ db' = [adjust_balance(db, receiver, amount) EXCEPT
                 !.escrows = (@ \ {e}) \cup (IF left.token_balance = 0 THEN {} ELSE {left})]

expire_escrow_ratification(d) ==
    ForEach(d, {e \in d.escrows : ~is_approved(e) /\ e.ratification_deadline <= d.time},
            LAMBDA e : e.from * (Max(EscrowId) + 1) + e.escrow_id, ReturnEscrow)

----------------------------------------------------------------------------
(* Properties                                                              *)

\* Between two blocks every escrow is either waiting for its ratification with time left, or
\* approved by both with the agent paid: the deadline returns what the parties left unanswered
\* (database.cpp:2583), and the fee is paid exactly when the last of the two agrees
\* (chain_evaluator.cpp:768).
EscrowInTime ==
    \A e \in db.escrows :
        \/ is_approved(e) /\ e.pending_fee = 0
        \/ ~is_approved(e) /\ e.ratification_deadline > db.time /\ ~e.disputed
=============================================================================
