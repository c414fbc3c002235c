------------------------------- MODULE Ledger -------------------------------
(***************************************************************************)
(* The money of the chain: liquid balances, vesting shares and the fund    *)
(* behind them, the committee and reward funds, and the supply.  The state *)
(* database is one record db; what runs inside a block is an operator from *)
(* a database to the next one, so that the end of a block composes them in *)
(* the order of _apply_block.  The rules are those after hardfork 11.      *)
(*                                                                         *)
(* Time is counted in blocks.  Accounts are the numbers of their ids;      *)
(* an account exists from the operation that creates it.                   *)
(***************************************************************************)
EXTENDS Integers, FiniteSets, FiniteSetsExt, SequencesExt

CONSTANTS
    Account,                   \* ids: 0 null, 1 committee, 2 anonymous, then the others
    CHAIN_100_PERCENT,
    CHAIN_DIGITAL_ASSET_ISSUED_PER_BLOCK,
    InflationWitnessPercent,
    InflationRatio,            \* committee's part of what the witness leaves
    NewSharesPerToken,         \* the price while there are no shares: 1000000 for 1000 tokens
    AccountCreationFee,
    Amounts                    \* amounts of tokens or shares an operation may name

NoAccount == -1
CHAIN_NULL_ACCOUNT == 0
CHAIN_COMMITTEE_ACCOUNT == 1
CHAIN_ANONYMOUS_ACCOUNT == 2
Special == {CHAIN_NULL_ACCOUNT, CHAIN_COMMITTEE_ACCOUNT, CHAIN_ANONYMOUS_ACCOUNT}

ASSUME LedgerParameters ==
    /\ Account \subseteq Nat /\ IsFiniteSet(Account) /\ Special \subseteq Account
    /\ CHAIN_100_PERCENT \in Nat \ {0}
    /\ CHAIN_DIGITAL_ASSET_ISSUED_PER_BLOCK \in Nat
    /\ InflationWitnessPercent \in 0..CHAIN_100_PERCENT
    /\ InflationRatio \in 0..CHAIN_100_PERCENT
    /\ NewSharesPerToken \in Nat \ {0}
    /\ Amounts \subseteq Nat

VARIABLE db

Users == db.exists \ Special           \* accounts with keys: those that can sign

least(a, b) == IF a < b THEN a ELSE b
most(a, b) == IF a < b THEN b ELSE a

\* Op applied to the value of d: one step of several in a block
Then(d, Op(_)) == CHOOSE r \in {Op(v) : v \in {d}} : TRUE

\* Op applied for the members of S, in the order of their keys
ForEach(d, S, key(_), Op(_, _)) ==
    LET Place(x) == Cardinality({y \in S : key(y) < key(x)}) + 1
        order == [i \in 1..Cardinality(S) |-> CHOOSE x \in S : Place(x) = i]
    IN  FoldLeft(LAMBDA d1, x : Then(d1, LAMBDA v : Op(v, x)), d, order)

Total(f) == MapThenSumSet(LAMBDA x : f[x], DOMAIN f)

----------------------------------------------------------------------------
(* Balances and shares                                                     *)

adjust_balance(d, a, delta) == [d EXCEPT !.balance[a] = @ + delta]

burn_asset(d, delta) == [d EXCEPT !.current_supply = @ - delta]

\* asset * price, both ways; the division rounds down
get_vesting_share_price(d) ==
    IF d.total_vesting_fund = 0 \/ d.total_vesting_shares = 0
    THEN [tokens |-> 1, shares |-> NewSharesPerToken]
    ELSE [tokens |-> d.total_vesting_fund, shares |-> d.total_vesting_shares]

ToShares(d, tokens) ==
    (tokens * get_vesting_share_price(d).shares) \div get_vesting_share_price(d).tokens

ToTokens(d, shares) ==
    (shares * get_vesting_share_price(d).tokens) \div get_vesting_share_price(d).shares

\* Mutant: the new shares are rounded up.
generous_vesting(d, a, tokens) ==
    LET new_vesting == ToShares(d, tokens) + 1 IN
    [d EXCEPT !.shares[a] = @ + new_vesting,
              !.total_vesting_fund = @ + tokens,
              !.total_vesting_shares = @ + new_vesting]

create_vesting(d, a, tokens) ==
    LET new_vesting == ToShares(d, tokens) IN
    [d EXCEPT !.shares[a] = @ + new_vesting,
              !.total_vesting_fund = @ + tokens,
              !.total_vesting_shares = @ + new_vesting]

\* create<account_object> as the operations that make an account use it
CreateAccount(d, n, recovery) ==
    [d EXCEPT !.exists = @ \cup {n},
              !.energy[n] = CHAIN_100_PERCENT,
              !.last_vote_time[n] = d.time,
              !.recovery_account[n] = recovery]

----------------------------------------------------------------------------
(* Operations                                                              *)

transfer(from, to, amount) ==
    /\ from \in Users /\ to \in db.exists /\ amount > 0
    /\ db.balance[from] >= amount
    /\ to = CHAIN_ANONYMOUS_ACCOUNT => amount >= AccountCreationFee
    /\ db' = adjust_balance(adjust_balance(db, from, -amount), to, amount)

\* a transfer to the anonymous account whose memo carries the key of account n
transfer_anonymous(from, amount, n) ==
    /\ from \in Users /\ n \in Account \ db.exists /\ amount > 0
    /\ db.balance[from] >= amount
    /\ amount >= AccountCreationFee
    /\ \E d \in {CreateAccount(adjust_balance(db, from, -amount), n, NoAccount)} :
          db' = create_vesting(d, n, amount)

transfer_to_vesting(from, to, amount) ==
    /\ from \in Users /\ to \in db.exists /\ amount > 0
    /\ db.balance[from] >= amount
    /\ db' = create_vesting(adjust_balance(db, from, -amount), to, amount)

----------------------------------------------------------------------------
(* The end of a block                                                      *)

process_funds(d, witness) ==
    LET issued == CHAIN_DIGITAL_ASSET_ISSUED_PER_BLOCK
        witness_reward == (issued * InflationWitnessPercent) \div CHAIN_100_PERCENT
        ratio_reward == issued - witness_reward
        committee_part == (ratio_reward * InflationRatio) \div CHAIN_100_PERCENT
    IN  create_vesting([d EXCEPT !.committee_fund = @ + committee_part,
                                 !.total_reward_fund = @ + ratio_reward - committee_part,
                                 !.current_supply = @ + issued],
                       witness, witness_reward)

\* what a system account holds, in tokens: its shares are sold to the fund
Holds(d, a) == d.balance[a] + ToTokens(d, d.shares[a])

ClearAccount(d, a) ==
    [d EXCEPT !.balance[a] = 0, !.shares[a] = 0,
              !.total_vesting_shares = @ - d.shares[a],
              !.total_vesting_fund = @ - ToTokens(d, d.shares[a])]

clear_null_account_balance(d) ==
    burn_asset(ClearAccount(d, CHAIN_NULL_ACCOUNT), Holds(d, CHAIN_NULL_ACCOUNT))

clear_anonymous_account_balance(d) ==
    burn_asset(ClearAccount(d, CHAIN_ANONYMOUS_ACCOUNT), Holds(d, CHAIN_ANONYMOUS_ACCOUNT))

claim_committee_account_balance(d) ==
    [ClearAccount(d, CHAIN_COMMITTEE_ACCOUNT) EXCEPT !.committee_fund = @ + Holds(d, CHAIN_COMMITTEE_ACCOUNT)]
=============================================================================
