----------------------------- MODULE Proposals ------------------------------
(***************************************************************************)
(* Proposals: operations that are applied together once every account they *)
(* need has approved, at the approval that completes them or, when there   *)
(* is a review period, when the proposal expires.                          *)
(*                                                                         *)
(* The proposed operations are transfers, which need the active authority  *)
(* of their senders.  An account approves by its name or, through its key, *)
(* as long as that is its key.                                             *)
(***************************************************************************)
EXTENDS AccountRecovery

CONSTANTS
    CHAIN_MAX_PROPOSAL_LIFETIME,
    Title,
    Transfers              \* lists of [from, to, amount] an operation may propose

NoReview == 1000000        \* review_period_time is not set

Required(transfers) == {transfers[i].from : i \in DOMAIN transfers}

proposal_create(author, title, transfers, expiration, review) ==
    LET required == Required(transfers)
        new == [id |-> db.next_proposal, author |-> author, title |-> title, transfers |-> transfers,
                expiration |-> expiration, review |-> review, approvals |-> {}, keys |-> {}]
    IN  /\ author \in Users /\ transfers # <<>>
        /\ \A p \in db.proposals : ~(p.author = author /\ p.title = title)
        /\ expiration > db.time
        /\ expiration <= db.time + CHAIN_MAX_PROPOSAL_LIFETIME
        /\ review # NoReview => review > db.time /\ review < expiration
        /\ required \subseteq db.exists
        /\ db' = [db EXCEPT !.proposals = @ \cup {new},
                            !.next_proposal = @ + 1,
                            !.required_approvals = @ \cup {[account |-> a, proposal |-> new.id] : a \in required}]

----------------------------------------------------------------------------
(* Execution                                                               *)

\* verify_authority, from the approvals and keys of p and the authorities of this moment
is_authorized_to_execute(d, p) ==
    \A a \in Required(p.transfers) : a \in p.approvals \/ d.master[a] \in p.keys

Removed(d, p) ==
    [d EXCEPT !.proposals = @ \ {p},
              !.required_approvals = {r \in @ : ~(r.proposal = p.id /\ r.account \in Required(p.transfers))}]

CanTransfer(d, t) == t.to \in d.exists /\ d.balance[t.from] >= t.amount

\* Mutant: what the transfers before the one that fails have done stays.
AsFarAsPossible(d, transfers) ==
    FoldLeft(LAMBDA r, t : IF CanTransfer(r.db, t)
                           THEN [r EXCEPT !.db = adjust_balance(adjust_balance(r.db, t.from, -t.amount), t.to, t.amount)]
                           ELSE r,
             [ok |-> TRUE, db |-> d], transfers)

\* the transfers one after the other; the undo session takes back what was done before a failure
Transferred(d, transfers) ==
    LET done == FoldLeft(LAMBDA r, t :
                    IF r.ok /\ CanTransfer(r.db, t)
                    THEN [r EXCEPT !.db = adjust_balance(adjust_balance(r.db, t.from, -t.amount), t.to, t.amount)]
                    ELSE [r EXCEPT !.ok = FALSE],
                    [ok |-> TRUE, db |-> d], transfers)
    IN  IF done.ok THEN done ELSE [ok |-> FALSE, db |-> d]

\* the proposal is removed when all of it was applied
push_proposal(d, p) ==
    LET done == Transferred(d, p.transfers)
    IN  IF done.ok THEN Removed(done.db, p) ELSE d

\* keys and approvals that nothing needs are refused when this operation brings them; approvals are
\* only looked at when every key is needed
Relevant(p, add, add_keys) ==
    LET unused == p.keys \ {db.master[a] : a \in Required(p.transfers) \ p.approvals}
    IN  IF unused # {} THEN unused \cap add_keys = {}
        ELSE add \subseteq Required(p.transfers)

InReviewPeriod(p) == p.review # NoReview /\ db.time >= p.review

proposal_update(p, add, del, add_keys, del_keys) ==
    LET q == [p EXCEPT !.approvals = (@ \cup add) \ del, !.keys = (@ \cup add_keys) \ del_keys]
        updated == [db EXCEPT !.proposals = (@ \ {p}) \cup {q}]
    IN  /\ add \cup del \cup add_keys \cup del_keys # {}
        /\ add \cap del = {} /\ add_keys \cap del_keys = {}
        /\ add \cup del \subseteq Users
        /\ InReviewPeriod(p) => add = {} /\ add_keys = {}
        /\ del \subseteq p.approvals /\ del_keys \subseteq p.keys
        /\ add \cap p.approvals = {} /\ add_keys \cap p.keys = {}
        /\ \/ /\ p.review # NoReview
              /\ db' = IF InReviewPeriod(p) /\ q.approvals = {} /\ q.keys = {} THEN Removed(updated, q) ELSE updated
           \/ /\ p.review = NoReview
              /\ Relevant(q, add, add_keys)
              /\ db' = IF is_authorized_to_execute(db, q) THEN push_proposal(updated, q) ELSE updated

proposal_delete(p, requester) ==
    /\ requester \in Users
    /\ requester = p.author \/ requester \in Required(p.transfers)
    /\ db' = Removed(db, p)

\* Mutant: a proposal that could not be applied when it expired is kept for another try.
ExpireUnlessFailed(d, p) == IF is_authorized_to_execute(d, p) THEN push_proposal(d, p) ELSE Removed(d, p)

\* the last chance: authorized proposals are applied, and all are removed
ExpireProposal(d, p) ==
    LET pushed == push_proposal(d, p)
    IN  IF is_authorized_to_execute(d, p) /\ pushed # d THEN pushed ELSE Removed(d, p)

clear_expired_proposals(d) ==
    ForEach(d, {p \in d.proposals : p.expiration <= d.time},
            LAMBDA p : p.expiration * d.next_proposal + p.id, ExpireProposal)

----------------------------------------------------------------------------
(* Properties                                                              *)

Moved(p, a) ==
    FoldLeft(LAMBDA s, t : s + (IF t.to = a THEN t.amount ELSE 0) - (IF t.from = a THEN t.amount ELSE 0),
             0, p.transfers)

\* The proposals a step has removed
GoneProposals == {p \in db.proposals : \A q \in db'.proposals : q.id # p.id}

\* Between two blocks no proposal is left that has expired, and the approvals that accounts are asked
\* for are exactly those of the proposals that still exist, however these ended: applied, deleted,
\* given up in review or expired (database_proposal_object.cpp:33, 49).
ProposalsInTime ==
    /\ \A p \in db.proposals : p.expiration > db.time
    /\ db.required_approvals =
          UNION {{[account |-> a, proposal |-> p.id] : a \in Required(p.transfers)} : p \in db.proposals}
=============================================================================
