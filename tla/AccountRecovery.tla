-------------------------- MODULE AccountRecovery ---------------------------
(***************************************************************************)
(* Who owns an account: its master authority, the authorities it had       *)
(* lately, and the recovery partner that may ask for a new one.  An        *)
(* authority is the number of the key it consists of; OpenAuthority has no *)
(* weight threshold.                                                       *)
(***************************************************************************)
EXTENDS Ledger

CONSTANTS
    CHAIN_MASTER_UPDATE_LIMIT,
    CHAIN_MASTER_AUTH_RECOVERY_PERIOD,
    CHAIN_ACCOUNT_RECOVERY_REQUEST_EXPIRATION_PERIOD,
    CHAIN_ACCOUNT_ON_SALE_DELAY,
    TopWitness,                        \* the recovery partner of those that have none
    Keys

OpenAuthority == 0
NoKey == 0

ASSUME RecoveryParameters == Keys \subseteq Nat \ {OpenAuthority}

\* the fields of an account that is not for sale
NotOnSale == [seller |-> NoAccount, price |-> 0, on_sale |-> FALSE, start |-> 0, target |-> NoAccount,
              on_auction |-> FALSE, bid |-> 0, bidder |-> NoAccount, key |-> NoKey, last_bid |-> 0]

update_master_authority(d, a, auth) ==
    [d EXCEPT !.authority_history = Append(@, [account |-> a, auth |-> d.master[a], last_valid |-> d.time]),
              !.master[a] = auth,
              !.last_master_update[a] = d.time]

\* the part of account_update that replaces the master authority
account_update(a, auth) ==
    /\ a \in Users
    /\ db.time - db.last_master_update[a] > CHAIN_MASTER_UPDATE_LIMIT
    /\ db' = update_master_authority(db, a, auth)

Partner(a) == IF db.recovery_account[a] = NoAccount THEN TopWitness ELSE db.recovery_account[a]

request_account_recovery(partner, a, auth) ==
    LET requests == {r \in db.recovery_requests : r.account = a}
        new == [account |-> a, auth |-> auth,
                expires |-> db.time + CHAIN_ACCOUNT_RECOVERY_REQUEST_EXPIRATION_PERIOD]
    IN  /\ {partner, a} \subseteq Users /\ partner = Partner(a)
        /\ requests = {} => auth # OpenAuthority
        /\ db' = [db EXCEPT !.recovery_requests =
                     (@ \ requests) \cup (IF auth = OpenAuthority THEN {} ELSE {new})]

\* the account comes off the market; an auction that has bids is left to the end of the block
recover_account(a, new, recent) ==
    LET request == {r \in db.recovery_requests : r.account = a}
    IN  /\ a \in Users /\ new # recent /\ new # OpenAuthority
        /\ db.time - db.last_account_recovery[a] > CHAIN_MASTER_UPDATE_LIMIT
        /\ \E r \in request : r.auth = new
        /\ \E i \in DOMAIN db.authority_history :
              db.authority_history[i].account = a /\ db.authority_history[i].auth = recent
        /\ \E d \in {update_master_authority(db, a, new)} :
              db' = [d EXCEPT !.recovery_requests = @ \ request,
                              !.last_account_recovery[a] = db.time,
                              !.sale[a] = [@ EXCEPT !.seller = NoAccount, !.price = 0,
                                                    !.on_sale = FALSE, !.start = 0]]

change_recovery_account(a, partner) ==
    LET requests == {r \in db.change_recovery : r.account = a}
        new == [account |-> a, partner |-> partner, effective |-> db.time + CHAIN_MASTER_AUTH_RECOVERY_PERIOD]
    IN  /\ a \in Users /\ partner \in db.exists
        /\ db' = [db EXCEPT !.change_recovery =
                     (@ \ requests) \cup
                     (IF requests # {} /\ db.recovery_account[a] = partner THEN {} ELSE {new})]

\* historical authorities are dropped from the oldest on, up to the first that is still valid
ForgetAuthorities(s, now) ==
    LET old == {i \in DOMAIN s : \A j \in 1..i : s[j].last_valid + CHAIN_MASTER_AUTH_RECOVERY_PERIOD < now}
    IN  SubSeq(s, Cardinality(old) + 1, Len(s))

ExpireRequests(requests, now) == {r \in requests : r.expires > now}

account_recovery_processing(d) ==
    LET effective == {r \in d.change_recovery : r.effective <= d.time}
    IN  [d EXCEPT !.recovery_requests = ExpireRequests(@, d.time),
                  !.authority_history = ForgetAuthorities(@, d.time),
                  !.change_recovery = @ \ effective,
                  !.recovery_account = [a \in Account |->
                      IF \E r \in effective : r.account = a
                      THEN (CHOOSE r \in effective : r.account = a).partner ELSE @[a]]]
=============================================================================
