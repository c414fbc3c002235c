------------------------------- MODULE Awards -------------------------------
(***************************************************************************)
(* Awards: energy turned into reward shares that claim a part of the       *)
(* reward fund and fade after the time energy takes to regenerate.         *)
(***************************************************************************)
EXTENDS Vesting

CONSTANTS
    VoteAccountingMinRshares,          \* median vote_accounting_min_rshares
    Beneficiaries                      \* lists of [account, weight] an operation may name

ASSUME AwardsParameters ==
    /\ VoteAccountingMinRshares \in Nat \ {0}
    /\ \A b \in Beneficiaries : \A i \in DOMAIN b : b[i].weight \in 0..CHAIN_100_PERCENT

\* what validate() demands of a list of beneficiaries
ValidBeneficiaries(b) == FoldLeft(LAMBDA s, x : s + x.weight, 0, b) <= CHAIN_100_PERCENT

Rshares(d, a, energy) == (effective_vesting_shares(d, a) * energy) \div CHAIN_100_PERCENT

calc_rshare_award(d, rshares) ==
    (d.total_reward_fund * rshares) \div (d.total_reward_shares + rshares)

\* Mutant: the reward shares of the award are not remembered for expiration.
claim_forgotten(d, rshares) ==
    [d EXCEPT !.total_reward_fund = @ - calc_rshare_award(d, rshares),
              !.total_reward_shares = @ + rshares]

claim_rshare_award(d, rshares) ==
    [d EXCEPT !.total_reward_fund = @ - calc_rshare_award(d, rshares),
              !.total_reward_shares = @ + rshares,
              !.award_shares_expire = Append(@, [expires |-> d.time + CHAIN_ENERGY_REGENERATION,
                                                 rshares |-> rshares])]

SpendEnergy(d, a, energy) ==
    [d EXCEPT !.energy[a] = CurrentEnergy(d, a) - energy, !.last_vote_time[a] = d.time]

Part(tokens, b) == (tokens * b.weight) \div CHAIN_100_PERCENT

PartsOf(tokens, bs) == FoldLeft(LAMBDA s, b : s + Part(tokens, b), 0, bs)

\* each beneficiary gets its part of tokens; the receiver what this leaves of reward
PayAward(d, receiver, tokens, reward, bs) ==
    LET rest == reward - PartsOf(tokens, bs)
        paid == ForEach(d, DOMAIN bs, LAMBDA i : i,
                        LAMBDA v, i : create_vesting(v, bs[i].account, Part(tokens, bs[i])))
    IN  IF rest > 0 THEN Then(paid, LAMBDA v : create_vesting(v, receiver, rest)) ELSE paid

award(initiator, receiver, energy, bs) ==
    LET rshares == Rshares(db, initiator, energy)
        tokens == calc_rshare_award(db, rshares)
    IN  /\ initiator \in Users /\ receiver \in db.exists
        /\ ValidBeneficiaries(bs)
        /\ CurrentEnergy(db, initiator) > 0
        /\ energy <= CurrentEnergy(db, initiator)
        /\ \E spent \in {SpendEnergy(db, initiator, energy)} :
              IF rshares < VoteAccountingMinRshares THEN db' = spent
              ELSE \E d \in {claim_rshare_award(spent, rshares)} :
                      \/ tokens = 0 /\ db' = d
                      \/ /\ tokens > 0
                         /\ \A i \in DOMAIN bs : bs[i].account \in db.exists
                         /\ db' = PayAward(d, receiver, tokens, tokens, bs)

\* Beneficiaries are paid from the whole claim and the rest of it goes to the committee, so that
\* together they can exceed the claim: overpaid counts the excess.
fixed_award(initiator, receiver, reward_amount, max_energy, bs) ==
    LET max_rshares == Rshares(db, initiator, max_energy)
        rs == (reward_amount * db.total_reward_shares) \div (db.total_reward_fund - reward_amount)
        need_energy == least((rs * max_energy) \div max_rshares + 1, CHAIN_100_PERCENT)
        rshares == Rshares(db, initiator, need_energy)
        tokens == calc_rshare_award(db, rshares)
    IN  /\ initiator \in Users /\ receiver \in db.exists
        /\ \A i \in DOMAIN bs : bs[i].account \in db.exists
        /\ ValidBeneficiaries(bs) /\ reward_amount > 0
        /\ CurrentEnergy(db, initiator) > 0
        /\ max_energy <= CurrentEnergy(db, initiator)
        /\ max_rshares > 0
        /\ calc_rshare_award(db, max_rshares) >= reward_amount
        /\ db.total_reward_fund > reward_amount
        /\ rs <= max_rshares
        /\ rshares >= VoteAccountingMinRshares
        /\ tokens >= reward_amount
        /\ \E d \in {SpendEnergy(claim_rshare_award(db, rshares), initiator, need_energy)} :
           \E e \in {PayAward(d, receiver, tokens, reward_amount, bs)} :
              db' = [e EXCEPT !.committee_fund = @ + tokens - reward_amount,
                              !.overpaid = @ + most(0, PartsOf(tokens, bs) - reward_amount)]

expire_award_shares_processing(d) ==
    LET gone == SelectSeq(d.award_shares_expire, LAMBDA x : x.expires <= d.time)
    IN  [d EXCEPT !.award_shares_expire = SelectSeq(@, LAMBDA x : x.expires > d.time),
                  !.total_reward_shares = @ - FoldLeft(LAMBDA s, x : s + x.rshares, 0, gone)]

----------------------------------------------------------------------------
(* Properties                                                              *)

\* The competition for the reward fund (total_reward_shares, database.cpp:2472) is the sum of the
\* awards made within the last regeneration period: every award fades once and in time, so a
\* later award is never divided by shares that are gone (database.cpp:2529).
AwardsFade ==
    /\ db.total_reward_shares = FoldLeft(LAMBDA s, x : s + x.rshares, 0, db.award_shares_expire)
    /\ \A i \in DOMAIN db.award_shares_expire :
          db.award_shares_expire[i].expires \in (db.time + 1)..(db.time + CHAIN_ENERGY_REGENERATION)
=============================================================================
