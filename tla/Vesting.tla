------------------------------ MODULE Vesting -------------------------------
(***************************************************************************)
(* Vesting shares: withdrawn in intervals along routes, delegated and      *)
(* returned after a delay, and the energy they are awarded with.           *)
(***************************************************************************)
EXTENDS Ledger

CONSTANTS
    CHAIN_VESTING_WITHDRAW_INTERVAL,   \* in blocks
    WithdrawIntervals,
    CHAIN_MAX_WITHDRAW_ROUTES,
    CHAIN_ENERGY_REGENERATION,         \* in blocks
    MinDelegation,                     \* in tokens
    CreateAccountDelegationRatio,
    CreateAccountDelegationTime,
    Percents                           \* percents an operation may name

ASSUME VestingParameters ==
    /\ CHAIN_VESTING_WITHDRAW_INTERVAL \in Nat \ {0}
    /\ WithdrawIntervals \in Nat \ {0}
    /\ CHAIN_ENERGY_REGENERATION \in Nat \ {0}
    /\ Percents \subseteq 0..CHAIN_100_PERCENT

Never == 1000000                       \* time_point_sec::maximum()

available_vesting_shares(d, a) == d.shares[a] - d.delegated[a]

available_considering_withdrawal(d, a) ==
    available_vesting_shares(d, a) - (d.to_withdraw[a] - d.withdrawn[a])

effective_vesting_shares(d, a) == d.shares[a] - d.delegated[a] + d.received[a]

CurrentEnergy(d, a) ==
    least(d.energy[a] + (CHAIN_100_PERCENT * (d.time - d.last_vote_time[a])) \div CHAIN_ENERGY_REGENERATION,
          CHAIN_100_PERCENT)

shares_sender_recalc_energy(d, a, shares) ==
    LET effective == effective_vesting_shares(d, a) IN
    IF effective <= 0 THEN d
    ELSE [d EXCEPT !.energy[a] = most(CurrentEnergy(d, a) - (CHAIN_100_PERCENT * shares) \div effective,
                                      -CHAIN_100_PERCENT),
                   !.last_vote_time[a] = d.time]

----------------------------------------------------------------------------
(* Withdrawal                                                              *)

StopWithdrawal(d, a) ==
    [d EXCEPT !.withdraw_rate[a] = 0, !.next_withdrawal[a] = Never]

withdraw_vesting(a, amount) ==
    /\ a \in Users
    /\ available_vesting_shares(db, a) >= amount
    /\ \/ /\ amount = 0
          /\ db.withdraw_rate[a] # 0
          /\ db' = [StopWithdrawal(db, a) EXCEPT !.to_withdraw[a] = 0, !.withdrawn[a] = 0]
       \/ /\ amount # 0
          /\ LET rate == most(1, available_vesting_shares(db, a) \div WithdrawIntervals) IN
             /\ db.withdraw_rate[a] # rate
             /\ db' = [db EXCEPT !.withdraw_rate[a] = rate,
                                 !.next_withdrawal[a] = db.time + CHAIN_VESTING_WITHDRAW_INTERVAL,
                                 !.to_withdraw[a] = amount, !.withdrawn[a] = 0]

\* routes as the loops see them: upper_bound skips the one to the account with id 0
Routes(routes, a) == {r \in routes : r.from = a /\ r.to # CHAIN_NULL_ACCOUNT}

set_withdraw_vesting_route(a, to, percent, auto_vest) ==
    LET others == {r \in db.routes : ~(r.from = a /\ r.to = to)}
        routes == IF percent = 0 THEN others
                  ELSE others \cup {[from |-> a, to |-> to, percent |-> percent, auto_vest |-> auto_vest]}
    IN  /\ a \in Users /\ to \in db.exists
        /\ others = db.routes =>
              /\ percent # 0
              /\ Cardinality({r \in db.routes : r.from = a}) < CHAIN_MAX_WITHDRAW_ROUTES
        /\ MapThenSumSet(LAMBDA r : r.percent, Routes(routes, a)) <= CHAIN_100_PERCENT
        /\ db' = [db EXCEPT !.routes = routes]

Deposit(amount, r) == (amount * r.percent) \div CHAIN_100_PERCENT

\* shares are converted to tokens for account a at the price of this moment
PayOut(d, a, shares) ==
    LET tokens == ToTokens(d, shares) IN
    [d EXCEPT !.balance[a] = @ + tokens,
              !.total_vesting_fund = @ - tokens,
              !.total_vesting_shares = @ - shares]

WithdrawOnce(d, a) ==
    LET left == d.to_withdraw[a] - d.withdrawn[a]
        rate == d.withdraw_rate[a]
        amount == most(0, least(d.shares[a], IF left < rate THEN d.to_withdraw[a] % rate ELSE rate))
        vested == {r \in Routes(d.routes, a) : r.auto_vest}
        paid == {r \in Routes(d.routes, a) : ~r.auto_vest}
        to_id(r) == r.to
        as_shares == MapThenSumSet(LAMBDA r : Deposit(amount, r), vested)
        as_tokens == MapThenSumSet(LAMBDA r : Deposit(amount, r), paid)
        to_convert == most(0, amount - as_shares - as_tokens)
        d1 == ForEach(d, vested, to_id, LAMBDA v, r : [v EXCEPT !.shares[r.to] = @ + Deposit(amount, r)])
        d2 == ForEach(d1, paid, to_id, LAMBDA v, r : PayOut(v, r.to, Deposit(amount, r)))
        d3 == Then(d2, LAMBDA v : shares_sender_recalc_energy(v, a, as_tokens + to_convert))
        d4 == Then(d3, LAMBDA v : [PayOut(v, a, to_convert) EXCEPT !.shares[a] = @ - amount,
                                                                  !.withdrawn[a] = @ + amount])
    IN  Then(d4, LAMBDA v :
            IF v.withdrawn[a] >= v.to_withdraw[a] \/ v.shares[a] = 0 THEN StopWithdrawal(v, a)
            ELSE [v EXCEPT !.next_withdrawal[a] = @ + CHAIN_VESTING_WITHDRAW_INTERVAL])

process_vesting_withdrawals(d) ==
    ForEach(d, {a \in Account : d.next_withdrawal[a] <= d.time},
            LAMBDA a : d.next_withdrawal[a] * Cardinality(Account) + a, WithdrawOnce)

----------------------------------------------------------------------------
(* Delegation                                                              *)

Delegations(d, from, to) == {x \in d.delegations : x.from = from /\ x.to = to}

\* vesting_delegation_expiration_objects are kept in order of expiration
InsertExpiration(s, x) ==
    LET before == {i \in DOMAIN s : s[i].expiration <= x.expiration}
    IN  InsertAt(s, Cardinality(before) + 1, x)

delegate_vesting_shares(from, to, amount) ==
    LET old == Delegations(db, from, to)
        had == MapThenSumSet(LAMBDA x : x.shares, old)
        since == IF old = {} THEN db.time ELSE (CHOOSE x \in old : TRUE).min_time
        delta == amount - had
        min_delegation == ToShares(db, MinDelegation)
        new == [from |-> from, to |-> to, shares |-> amount, min_time |-> since]
        noted == [db EXCEPT !.received[to] = @ + delta,
                            !.delegations = (@ \ old) \cup (IF amount > 0 THEN {new} ELSE {})]
        expiring == [from |-> from, shares |-> -delta,
                     expiration |-> most(db.time + CHAIN_ENERGY_REGENERATION, since)]
    IN  /\ from \in Users /\ to \in db.exists /\ from # to
        /\ old = {} => amount # 0
        /\ \/ /\ delta > 0
              /\ available_considering_withdrawal(db, from) >= delta
              /\ CurrentEnergy(db, from) >= 0
              /\ old = {} => amount >= min_delegation
              /\ \E d \in {shares_sender_recalc_energy(noted, from, delta)} :
                    db' = [d EXCEPT !.delegated[from] = @ + delta]
           \/ /\ delta <= 0
              /\ amount = 0 \/ amount >= min_delegation
              /\ db' = [noted EXCEPT !.expirations = InsertExpiration(@, expiring)]

\* Mutant: the delegator's count keeps the shares that have come back.
ReturnForgotten(d) == [d EXCEPT !.expirations = Tail(@)]

ReturnDelegation(d) ==
    LET x == Head(d.expirations) IN
    shares_sender_recalc_energy([d EXCEPT !.delegated[x.from] = @ - x.shares, !.expirations = Tail(@)],
                                x.from, x.shares)

clear_expired_delegations(d) ==
    ForEach(d, {i \in DOMAIN d.expirations : d.expirations[i].expiration < d.time},
            LAMBDA i : i, LAMBDA v, i : ReturnDelegation(v))

----------------------------------------------------------------------------
(* account_create: a fee that becomes shares, or a delegation              *)

account_create(creator, n, fee, delegation) ==
    LET target == ToShares(db, CreateAccountDelegationRatio * AccountCreationFee)
        current == ToShares(db, CreateAccountDelegationRatio * fee) + delegation
        new == [from |-> creator, to |-> n, shares |-> delegation,
                min_time |-> db.time + CreateAccountDelegationTime]
    IN  /\ creator \in Users /\ n \in Account \ db.exists
        /\ db.balance[creator] >= fee
        /\ available_considering_withdrawal(db, creator) >= delegation
        /\ delegation > 0 => CurrentEnergy(db, creator) >= 0
        /\ current >= target
        /\ \E d \in {CreateAccount(shares_sender_recalc_energy(db, creator, delegation), n, creator)} :
           \E e \in {[d EXCEPT !.balance[creator] = @ - fee,
                               !.delegated[creator] = @ + delegation,
                               !.received[n] = delegation,
                               !.delegations = @ \cup (IF delegation > 0 THEN {new} ELSE {})]} :
              db' = create_vesting(e, n, fee)

----------------------------------------------------------------------------
(* Properties                                                              *)

Outstanding(a) == IF db.withdraw_rate[a] = 0 THEN 0 ELSE db.to_withdraw[a] - db.withdrawn[a]

\* The delegated shares an account carries (database.cpp:4239, chain_evaluator.cpp:1744) are
\* exactly its delegations and those still on their way back; what it received is what is
\* delegated to it now.  No share is counted twice or lost on the way back.
DelegationsMatch ==
    \A a \in Account :
        /\ db.delegated[a] =
              MapThenSumSet(LAMBDA x : x.shares, {x \in db.delegations : x.from = a})
            + MapThenSumSet(LAMBDA i : db.expirations[i].shares,
                            {i \in DOMAIN db.expirations : db.expirations[i].from = a})
        /\ db.received[a] = MapThenSumSet(LAMBDA x : x.shares, {x \in db.delegations : x.to = a})

\* An account owns the shares it has delegated and the ones a withdrawal still has to take,
\* however delegations, returns and withdrawals overlap (the two checks are made by different
\* operations: chain_evaluator.cpp:981 and chain_evaluator.cpp:1717).
SharesCovered ==
    \A a \in Account \ Special : db.shares[a] >= db.delegated[a] + Outstanding(a)

\* The shares an account has delegated, received and is withdrawing agree with the objects that say so
\* and are covered by what it holds.
SharesAccounted == DelegationsMatch /\ SharesCovered
=============================================================================
