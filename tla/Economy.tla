------------------------------ MODULE Economy -------------------------------
(***************************************************************************)
(* The money of the chain as a whole: the operations of all components on  *)
(* one database, and the block that ends with everything _apply_block does *)
(* to it after its transactions, in that order.                            *)
(*                                                                         *)
(* Transactions see the time of the block before.  In a behaviour the      *)
(* transactions use the operations of one mix of parts, a bound on what is *)
(* explored together; the end of a block is always whole.                  *)
(***************************************************************************)
EXTENDS Awards, Escrow, AccountMarket, Committee, Invites, PaidSubscriptions, Proposals

CONSTANTS
    Mixes,                 \* sets of parts whose operations are used together
    FirstAccounts(_),      \* accounts that exist at the start, for a mix
    Leads,                 \* accounts that open escrows, have routes, are sold,
                           \* recovered, paid by the committee and author proposals
    FirstBalance, FirstShares, FirstFund,
    FirstHistory,          \* master authorities replaced before
    Producer,              \* the witness that produces
    MaxTime(_), MaxOps(_)  \* bounds for a mix: the last block, the number of operations

VARIABLES mix, ops

vars == <<db, mix, ops>>

Everyone(x) == [a \in Account |-> x]
Holders == FirstAccounts(mix) \ Special

Init ==
    /\ mix \in Mixes
    /\ ops = 0
    /\ db = [time |-> 1, block |-> 1, exists |-> FirstAccounts(mix),
             balance |-> [a \in Account |-> IF a \in Holders THEN FirstBalance ELSE 0],
             shares |-> [a \in Account |-> IF a \in Holders THEN FirstShares ELSE 0],
             reserved |-> Everyone(0), bidders |-> {},
             current_supply |-> Cardinality(Holders) * FirstBalance + FirstFund + 2 * FirstBalance,
             total_vesting_fund |-> FirstFund,
             total_vesting_shares |-> Cardinality(Holders) * FirstShares,
             committee_fund |-> FirstBalance, total_reward_fund |-> FirstBalance, overpaid |-> 0,
             delegated |-> Everyone(0), received |-> Everyone(0), delegations |-> {}, expirations |-> <<>>,
             to_withdraw |-> Everyone(0), withdrawn |-> Everyone(0), withdraw_rate |-> Everyone(0),
             next_withdrawal |-> Everyone(Never), routes |-> {},
             energy |-> Everyone(CHAIN_100_PERCENT), last_vote_time |-> Everyone(1),
             total_reward_shares |-> 0, award_shares_expire |-> <<>>,
             escrows |-> {},
             master |-> [a \in Account |-> a], last_master_update |-> Everyone(-Never),
             last_account_recovery |-> Everyone(-Never),
             recovery_account |-> Everyone(NoAccount), authority_history |-> FirstHistory,
             recovery_requests |-> {}, change_recovery |-> {},
             sale |-> Everyone(NotOnSale), subaccount |-> Everyone(NoSubaccounts),
             committee_requests |-> 0, requests |-> {}, request_votes |-> {},
             invites |-> {}, subscriptions |-> {}, subscribes |-> {},
             proposals |-> {}, next_proposal |-> 0, required_approvals |-> {}]

----------------------------------------------------------------------------
(* Transactions                                                            *)

LedgerOps ==
    \E a \in Users, n \in Amounts :
        \/ \E b \in db.exists : transfer(a, b, n) \/ transfer_to_vesting(a, b, n)
        \/ \E b \in Account \ db.exists : transfer_anonymous(a, n, b)

WithdrawOps == \E a \in Users, n \in Amounts \cup {0} : withdraw_vesting(a, n)

RouteOps ==
    \E a \in Leads, b \in db.exists, p \in Percents, v \in BOOLEAN : set_withdraw_vesting_route(a, b, p, v)

DelegateOps ==
    \E a \in Users :
        \/ \E b \in Users, n \in Amounts \cup {0} : delegate_vesting_shares(a, b, n)
        \/ \E b \in Account \ db.exists, f \in Amounts \cup {0}, n \in Amounts \cup {0} :
              account_create(a, b, f, n)

AwardOps ==
    \E a \in Users, b \in Users, e \in Percents, bs \in Beneficiaries :
        \/ award(a, b, e, bs)
        \/ \E n \in Amounts : fixed_award(a, b, n, e, bs)

EscrowOps ==
    \/ \E from \in Leads, to, agent \in Users, id \in EscrowId, n, fee \in Amounts, t, u \in Delays :
          escrow_transfer(from, to, agent, id, n, fee, db.time + t, db.time + t + u)
    \/ \E e \in db.escrows, who \in Users :
          \/ \E ok \in BOOLEAN : escrow_approve(e, who, ok)
          \/ escrow_dispute(e, who)
          \/ \E r \in Users, n \in Amounts : escrow_release(e, who, r, n)

MarketOps ==
    \E a \in Leads, n \in Prices :
        \/ \E s \in Users, on \in BOOLEAN :
              \/ set_account_price(a, s, n, on)
              \/ \E b \in Users : target_account_sale(a, s, n, on, b)
              \/ set_subaccount_price(a, s, n, on)
        \/ \E b \in Users, t \in WallClock : Bid(b, a, n, AccountCreationFee, b, t)
        \/ \E b \in Users : BuyAtPrice(b, a, n, AccountCreationFee, b)
        \/ \E b \in Users, new \in Account \ db.exists : BuySubaccount(b, a, new, n, AccountCreationFee, new)

RecoveryOps ==
    \E a \in Leads :
        \/ \E k \in Keys : account_update(a, k)
        \/ \E p \in Users, k \in Keys \cup {OpenAuthority} : request_account_recovery(p, a, k)
        \/ \E k \in Keys, r \in Keys : recover_account(a, k, r)
        \/ \E p \in Users : change_recovery_account(a, p)

CommitteeOps ==
    \/ \E a \in Users, w \in Leads, u \in Urls, n, m \in Amounts \cup {0}, t \in Durations :
          committee_worker_create_request(a, w, u, n, m, t)
    \/ \E c \in db.requests :
          \/ committee_worker_cancel_request(c)
          \/ \E a \in Users, p \in Votes : committee_vote_request(a, c, p)

InviteOps ==
    \/ \E a \in Users, k \in InviteKey, n \in Amounts : create_invite(a, k, n)
    \/ \E i \in db.invites :
          \/ \E a \in db.exists : claim_invite_balance(a, i) \/ use_invite_balance(a, i)
          \/ \E n \in Account \ db.exists : invite_registration(n, i)

SubscriptionOps ==
    \/ \E a \in Users, l \in Levels, n \in Prices, p \in Periods : set_paid_subscription(a, l, n, p)
    \/ \E a \in Users, x \in db.subscriptions, l \in Levels, r \in BOOLEAN : paid_subscribe(a, x, l, r)

ProposalOps ==
    \/ \E a \in Leads, t \in Title, x \in Transfers, e \in Delays, r \in Delays \cup {0} :
          proposal_create(a, t, x, db.time + e, IF r = 0 THEN NoReview ELSE db.time + r)
    \/ \E p \in db.proposals :
          \/ \E S \in SUBSET Users : proposal_update(p, S, {}, {}, {}) \/ proposal_update(p, {}, S, {}, {})
          \/ \E k \in Keys : proposal_update(p, {}, {}, {k}, {}) \/ proposal_update(p, {}, {}, {}, {k})
          \/ \E a \in Users : proposal_delete(p, a)

Transaction ==
    /\ ops < MaxOps(mix)
    /\ ops' = ops + 1
    /\ UNCHANGED mix
    /\ \/ "ledger" \in mix /\ LedgerOps
       \/ "withdraw" \in mix /\ WithdrawOps
       \/ "routes" \in mix /\ RouteOps
       \/ "delegate" \in mix /\ DelegateOps
       \/ "awards" \in mix /\ AwardOps
       \/ "escrow" \in mix /\ EscrowOps
       \/ "market" \in mix /\ MarketOps
       \/ "recovery" \in mix /\ RecoveryOps
       \/ "committee" \in mix /\ CommitteeOps
       \/ "invites" \in mix /\ InviteOps
       \/ "subscriptions" \in mix /\ SubscriptionOps
       \/ "proposals" \in mix /\ ProposalOps

----------------------------------------------------------------------------
(* The end of a block                                                      *)

AfterTransactions(d) ==
    LET d0 == Then(d, clear_expired_proposals)
        d1 == Then(d0, clear_expired_delegations)
        d2 == Then(d1, clear_used_invites)
        d3 == Then(d2, clear_closed_committee_requests)
        d4 == Then(d3, expire_award_shares_processing)
        d5 == Then(d4, LAMBDA v : process_funds(v, Producer))
        d6 == Then(d5, process_vesting_withdrawals)
        d7 == Then(d6, account_recovery_processing)
        d8 == Then(d7, expire_escrow_ratification)
        d9 == Then(d8, account_on_auction_expiration)
        d10 == Then(d9, clear_null_account_balance)
        d11 == Then(d10, clear_anonymous_account_balance)
        d12 == Then(d11, claim_committee_account_balance)
    IN  Then(d12, committee_processing)

EndBlock ==
    /\ db.time < MaxTime(mix)
    /\ \E d \in {AfterTransactions([db EXCEPT !.time = @ + 1, !.block = @ + 1])} :
          \E e \in paid_subscribe_processing(d) : db' = e
    /\ UNCHANGED <<mix, ops>>

Next == Transaction \/ EndBlock

Spec == Init /\ [][Next]_vars

----------------------------------------------------------------------------
(* Properties                                                              *)

\* Shares, funds and totals never go below zero, nor does the balance of an account that never bid
\* (a bid alone checks no balance, chain_evaluator.cpp:2139), and energy stays within its percents.
TypeOK ==
    /\ db.balance \in [Account -> Int] /\ db.reserved \in [Account -> Nat]
    /\ \A a \in Account \ db.bidders : db.balance[a] >= 0
    /\ db.shares \in [Account -> Nat]
    /\ db.delegated \in [Account -> Nat] /\ db.received \in [Account -> Nat]
    /\ {db.current_supply, db.total_vesting_fund, db.total_vesting_shares, db.committee_fund,
        db.total_reward_fund, db.total_reward_shares} \subseteq Nat
    /\ db.energy \in [Account -> (-CHAIN_100_PERCENT)..CHAIN_100_PERCENT]

HeldInEscrow == MapThenSumSet(LAMBDA e : e.token_balance + e.pending_fee, db.escrows)

\* No operation and no timer makes or loses a token: the supply is what accounts hold, reserve
\* and vest, what the funds hold and what escrows and invites keep.  The one exception is counted
\* in overpaid: a fixed award whose beneficiaries' parts exceed the reward
\* (chain_evaluator.cpp:523).
TokensConserved ==
    db.current_supply + db.overpaid =
        Total(db.balance) + Total(db.reserved) + db.total_vesting_fund + db.committee_fund
      + db.total_reward_fund + HeldInEscrow + MapThenSumSet(LAMBDA i : i.balance, db.invites)

\* total_vesting_shares is the sum of the shares of all accounts, whoever vests, withdraws along
\* routes, is paid or is cleared (database.cpp:2118, 2142, 1923).
SharesConserved == db.total_vesting_shares = Total(db.shares)

\* Tokens and shares are conserved, and nothing but the balance of an account that has bid goes below
\* zero: what each operation checks before it takes is enough, in whatever order they come.
Conserved == TypeOK /\ TokensConserved /\ SharesConserved

\* Vesting and withdrawing never lower what a share is worth: every conversion rounds in favour of
\* the fund (database.cpp:1279, 2104).
SharePriceNeverFalls ==
    [][db.total_vesting_shares > 0 /\ db'.total_vesting_shares > 0 =>
          db'.total_vesting_fund * db.total_vesting_shares >= db.total_vesting_fund * db'.total_vesting_shares]_db

\* A block leaves nothing behind that was due at its time: requests to recover an account, changes
\* of the recovery partner, authorities too old to recover with, instalments of withdrawals and
\* delegated shares on their way back (database.cpp:2546, 2040, 4234), in whatever order they were
\* made, renewed or replaced.
NothingLeftDue ==
    /\ \A r \in db.recovery_requests : r.expires > db.time
    /\ \A r \in db.change_recovery : r.effective > db.time
    /\ \A i \in DOMAIN db.authority_history :
          db.authority_history[i].last_valid + CHAIN_MASTER_AUTH_RECOVERY_PERIOD >= db.time
    /\ \A a \in Account : db.next_withdrawal[a] > db.time
    /\ \A i \in DOMAIN db.expirations : db.expirations[i].expiration >= db.time

\* The same of everything that ends by itself: escrows and proposals too, with what belongs to them.
NothingOverdue == NothingLeftDue /\ EscrowInTime /\ ProposalsInTime

\* A proposal takes effect as a whole or not at all, and at its expiration only when all it needs
\* have approved (database_proposal_object.cpp:21, 49): where nothing else moves tokens, the
\* balances change by the sums of proposals that the step removes.
ProposalsWhole ==
    [][mix \subseteq {"proposals", "recovery"} =>
          \E S \in SUBSET GoneProposals :
             /\ db'.time > db.time => \A p \in S : is_authorized_to_execute(db, p)
             /\ \A a \in Account \ Special :
                   db'.balance[a] - db.balance[a] = MapThenSumSet(LAMBDA p : Moved(p, a), S)]_db
=============================================================================
