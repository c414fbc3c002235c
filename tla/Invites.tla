------------------------------ MODULE Invites -------------------------------
(***************************************************************************)
(* Invites: tokens put aside under a key, for whoever knows its secret to  *)
(* take as tokens, as shares, or as the shares of a new account.           *)
(***************************************************************************)
EXTENDS Ledger

CONSTANTS InviteKey, CreateInviteMinBalance, CHAIN_CLEAR_USED_INVITE_DELAY

\* the values of status
Unused == 0
Claimed == 1
Registered == 2
UsedAsShares == 3

create_invite(creator, key, amount) ==
    /\ creator \in Users /\ amount > 0
    /\ db.balance[creator] >= amount
    /\ amount >= CreateInviteMinBalance
    /\ \A i \in db.invites : i.key # key
    /\ db' = [adjust_balance(db, creator, -amount) EXCEPT !.invites = @ \cup
                 {[creator |-> creator, key |-> key, balance |-> amount, claimed |-> 0,
                   status |-> Unused, claim_time |-> 0]}]

UseInvite(d, i, status) ==
    [d EXCEPT !.invites = (@ \ {i}) \cup
        {[i EXCEPT !.status = status, !.claimed = i.balance, !.balance = 0, !.claim_time = d.time]}]

claim_invite_balance(receiver, i) ==
    /\ receiver \in db.exists
    /\ i.status = Unused
    /\ db' = UseInvite(adjust_balance(db, receiver, i.balance), i, Claimed)

\* the new account keeps the defaults: full energy, and no vote yet
invite_registration(n, i) ==
    /\ n \in Account \ db.exists
    /\ i.status = Unused
    /\ \E d \in {create_vesting([db EXCEPT !.exists = @ \cup {n}, !.recovery_account[n] = i.creator,
                                           !.energy[n] = CHAIN_100_PERCENT, !.last_vote_time[n] = 0],
                                n, i.balance)} :
          db' = UseInvite(d, i, Registered)

use_invite_balance(receiver, i) ==
    /\ receiver \in db.exists
    /\ i.status = Unused
    /\ \E d \in {create_vesting(db, receiver, i.balance)} : db' = UseInvite(d, i, UsedAsShares)

clear_used_invites(d) ==
    [d EXCEPT !.invites = {i \in @ : i.status = Unused
                                     \/ d.time - CHAIN_CLEAR_USED_INVITE_DELAY <= i.claim_time}]
=============================================================================
