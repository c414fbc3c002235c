----------------------------- MODULE Authority ------------------------------
(***************************************************************************)
(* Who may authorize a transaction: the weighted trees of keys and         *)
(* accounts behind each account, the recursive check of a set of           *)
(* signatures and approvals against them (sign_state, verify_authority),   *)
(* and the choice of the keys that a client should sign with.              *)
(*                                                                         *)
(* An authority is [threshold, keys, accounts]: keys and accounts are      *)
(* functions from those listed to their weights.  Maps and sets are        *)
(* ordered in the code and the check returns as soon as the threshold is   *)
(* reached, so the orders are constants.                                   *)
(***************************************************************************)
EXTENDS Naturals, FiniteSets, SequencesExt, FiniteSetsExt

CONSTANTS
    Accounts, Keys,              \* sequences: the order of names and of public keys
    TempAccount,                 \* the name every sign_state holds as approved
    CHAIN_MAX_SIG_CHECK_DEPTH,
    Authorities(_, _),           \* the authorities account a may be given at a level
    Transactions,                \* what the operations of a transaction or a proposal require
    Approvals                    \* the approvals a proposal may have, by level

VARIABLES
    auths,                       \* account_authority_object: level, account -> authority
    required,                    \* [regular, active, master: sets of accounts; other: authorities]
    sigs,                        \* the keys a transaction is signed with, or that approved a proposal
    approvals                    \* the accounts that approved a proposal, by level

vars == <<auths, required, sigs, approvals>>

Levels == {"regular", "active", "master"}

Account == Range(Accounts)
Key == Range(Keys)

ASSUME OrderAssumption ==
    /\ IsInjective(Accounts) /\ IsInjective(Keys)
    /\ CHAIN_MAX_SIG_CHECK_DEPTH \in Nat

\* the members of S in the order of the sequence s
InOrder(s, S) == SelectSeq(s, LAMBDA x : x \in S)

----------------------------------------------------------------------------
(* sign_state                                                              *)

\* get: the level whose authorities account names stand for; used: signatures found to be needed;
\* approved_by: approved accounts, those of them with the flag set in relevant
sign_state(provided, available, get, approved) ==
    [provided |-> provided, available |-> available, get |-> get, used |-> {},
     approved_by |-> approved \cup {TempAccount}, relevant |-> {TempAccount} \ approved]

signed_by(s, k) == k \in s.provided \cup s.available

Weighed(r, w, auth) == [r EXCEPT !.total = @ + w, !.done = r.total + w >= auth.threshold]

WeighKey(r, k, auth) ==
    IF r.done \/ ~signed_by(r.s, k) THEN r
    ELSE Weighed([r EXCEPT !.s.used = @ \cup {k}], auth.keys[k], auth)

RECURSIVE check_authority(_, _, _)
check_authority(s, auth, depth) ==
    LET keys == FoldLeft(LAMBDA r, k : WeighKey(r, k, auth),
                         [s |-> s, total |-> 0, done |-> FALSE], InOrder(Keys, DOMAIN auth.keys))
        weighAccount(r, a) ==
            IF r.done THEN r
            ELSE IF a \in r.s.approved_by THEN Weighed(r, auth.accounts[a], auth)
            ELSE IF depth = CHAIN_MAX_SIG_CHECK_DEPTH THEN r
            ELSE LET below == check_authority(r.s, auths[r.s.get][a], depth + 1)
                 IN  IF below.ok
                     THEN Weighed([r EXCEPT !.s = [below.s EXCEPT !.approved_by = @ \cup {a},
                                                                  !.relevant = @ \cup {a}]],
                                  auth.accounts[a], auth)
                     ELSE [r EXCEPT !.s = below.s]
        all == FoldLeft(weighAccount, keys, InOrder(Accounts, DOMAIN auth.accounts))
    IN  [s |-> all.s, ok |-> all.done \/ all.total >= auth.threshold]

check_account(s, a) ==
    IF a \in s.approved_by THEN [s |-> [s EXCEPT !.relevant = @ \cup {a}], ok |-> TRUE]
    ELSE check_authority(s, auths[s.get][a], 0)

\* Mutant: only the authority of the transaction's own level is asked for.
OwnLevelOnly(s, id, levels) == check_account(s, id)

\* the account's own authority, or else the first of the levels above that holds
FirstOf(s, id, levels) ==
    FoldLeft(LAMBDA r, l : IF r.ok THEN r ELSE check_authority(r.s, auths[l][id], 0),
             check_account(s, id), levels)

remove_unused_signatures(s) == s.provided \ s.used

filter_unused_approvals(s) == s.approved_by \ s.relevant

----------------------------------------------------------------------------
(* verify_authority                                                        *)

\* each id through Check, in order, with the state handed on; the ids that failed
CheckAll(s, ids, Check(_, _)) ==
    FoldLeft(LAMBDA r, id : LET c == Check(r.s, id)
                            IN  [s |-> c.s, missing |-> IF c.ok THEN r.missing ELSE r.missing \cup {id}],
             [s |-> s, missing |-> {}], ids)

assert_unused_approvals(s) ==
    IF remove_unused_signatures(s) # {} THEN "irrelevant_sig"
    ELSE IF filter_unused_approvals(s) # {} THEN "irrelevant_approval"
    ELSE "ok"

verify_regular(signed, r, approved) ==
    LET s == sign_state(signed, {}, "regular", approved.regular)
        regular == CheckAll(s, InOrder(Accounts, r.regular),
                            LAMBDA t, id : FirstOf(t, id, <<"active", "master">>))
    IN  IF r.active # {} \/ r.master # {} \/ r.other # <<>> THEN "mixed"
        ELSE IF regular.missing # {} THEN "missing_regular"
        ELSE assert_unused_approvals(regular.s)

\* Mutant: a required master authority is looked up among the approved accounts like an active one.
MasterByAnyApproval(s, id, approved) ==
    LET c == check_account(s, id)
    IN  IF c.ok THEN c ELSE check_authority(c.s, auths.master[id], 0)

check_master(s, id, approved) ==
    LET c == IF id \in approved.master THEN [s |-> s, ok |-> TRUE]
             ELSE check_authority(s, auths.master[id], 0)
    IN  IF ~c.ok THEN c
        ELSE [c EXCEPT !.s.approved_by = @ \cup {id}, !.s.relevant = @ \cup {id}]

verify_authority(signed, r, approved) ==
    LET s == sign_state(signed, {}, "active", approved.active \cup approved.master)
        other == CheckAll(s, r.other, LAMBDA t, auth : check_authority(t, auth, 0))
        active == CheckAll(other.s, InOrder(Accounts, r.active),
                           LAMBDA t, id : FirstOf(t, id, <<"master">>))
        master == CheckAll(active.s, InOrder(Accounts, r.master),
                           LAMBDA t, id : check_master(t, id, approved))
    IN  IF r.regular # {} THEN verify_regular(signed, r, approved)
        ELSE IF other.missing # {} THEN "missing_other"
        ELSE IF active.missing # {} THEN "missing_active"
        ELSE IF master.missing # {} THEN "missing_master"
        ELSE assert_unused_approvals(master.s)

Missing == {"missing_other", "missing_active", "missing_master", "missing_regular"}

----------------------------------------------------------------------------
(* What a client should sign with                                          *)

\* the signatures a state has found needed that are among the available keys
Needed(s) == s.used \cap s.available

get_required_signatures(signed, available, r) ==
    LET from(get, ids, others) ==
            LET s == sign_state(signed, available, get, {})
                o == CheckAll(s, others, LAMBDA t, auth : check_authority(t, auth, 0))
            IN  Needed(CheckAll(o.s, InOrder(Accounts, ids), check_account).s)
    IN  IF r.regular # {} THEN from("regular", r.regular, <<>>)
        ELSE from("active", r.active, r.other) \cup from("master", r.master, <<>>)

None == [l \in Levels |-> {}]

\* Mutant: a key is left out for good, whatever the check of the others says.
DropEach(r, k, req) == [r EXCEPT !.keys = @ \ {k}]

\* a key is left out when the others verify; an irrelevant signature is not caught, and ends it
Drop(r, k, req) ==
    LET verdict == verify_authority(r.keys \ {k}, req, None)
    IN  CASE r.threw -> r
          [] verdict = "ok" -> [r EXCEPT !.keys = @ \ {k}]
          [] verdict \in Missing -> r
          [] OTHER -> [r EXCEPT !.threw = TRUE]

\* for a transaction that has no signatures yet, as the wallet's
minimize_required_signatures(available, r) ==
    LET s == get_required_signatures({}, available, r)
        mixed == r.regular # {} /\ (r.active # {} \/ r.master # {})
    IN  FoldLeft(LAMBDA m, k : Drop(m, k, r), [keys |-> s, threw |-> mixed], InOrder(Keys, s))

----------------------------------------------------------------------------
(* Accounts change their authorities while a transaction or a proposal     *)
(* waits; what is signed and approved is any of the possible inputs.       *)

Nothing == [regular |-> {}, active |-> {}, master |-> {}, other |-> <<>>]

Init ==
    /\ auths = [l \in Levels |-> [a \in Account |-> CHOOSE x \in Authorities(a, l) : TRUE]]
    /\ required = Nothing
    /\ sigs = {} /\ approvals = None

\* the transaction, or the proposal with its approvals, that is checked from now on
Submit(r, signed, approved) ==
    /\ required = Nothing
    /\ required' = r /\ sigs' = signed /\ approvals' = approved
    /\ UNCHANGED auths

\* the accounts an authority lists have to exist; the hour between two master authorities has passed
account_update(a, l, auth) ==
    /\ DOMAIN auth.accounts \subseteq Account
    /\ auths' = [auths EXCEPT ![l][a] = auth]
    /\ UNCHANGED <<required, sigs, approvals>>

Next ==
    \/ \E r \in Transactions, signed \in SUBSET Key, approved \in Approvals : Submit(r, signed, approved)
    \/ \E a \in Account, l \in Levels : \E auth \in Authorities(a, l) : account_update(a, l, auth)

Spec == Init /\ [][Next]_vars

----------------------------------------------------------------------------
(* Properties                                                              *)

Satisfied(auth, signed, granted) ==
    MapThenSumSet(LAMBDA k : auth.keys[k], signed \cap DOMAIN auth.keys)
      + MapThenSumSet(LAMBDA a : auth.accounts[a], granted \cap DOMAIN auth.accounts) >= auth.threshold

\* the accounts that grant their authority, at one of the levels, within n levels of accounts
Grants(signed, levels, approved, n) ==
    LET g[i \in 0..n] ==
            IF i = 0 THEN approved \cup {TempAccount}
            ELSE LET below == g[i - 1]
                 IN  below \cup {a \in Account : \E l \in levels : Satisfied(auths[l][a], signed, below)}
    IN  g[n]

\* the definition of being authorized, given who grants
Authorized(signed, granted) ==
    /\ \A a \in required.regular : a \in granted \/ \E l \in Levels : Satisfied(auths[l][a], signed, granted)
    /\ \A a \in required.active :
          a \in granted \/ \E l \in {"active", "master"} : Satisfied(auths[l][a], signed, granted)
    /\ \A a \in required.master : a \in approvals.master \/ Satisfied(auths.master[a], signed, granted)
    /\ \A i \in DOMAIN required.other : Satisfied(required.other[i], signed, granted)

Passes(verdict) == verdict \in {"ok", "irrelevant_sig", "irrelevant_approval"}

Approved == IF required.regular # {} THEN approvals.regular ELSE approvals.active \cup approvals.master

\* What passes verify_authority is authorized: there is a tree of accounts that ends in signatures and
\* approvals.  The check caches accounts it has found approved and goes round cycles of accounts; the
\* cache must not let accounts vouch for each other (sign_state.cpp:40).
OnlyAuthorized ==
    Passes(verify_authority(sigs, required, approvals)) =>
        Authorized(sigs, Grants(sigs, IF required.regular # {} THEN {"regular"} ELSE {"active", "master"},
                                Approved, Cardinality(Account)))

\* A transaction that is authorized by a tree within the depth limit passes, whatever the order of
\* keys and accounts, where the check stops early and what it has found on other branches before
\* (sign_state.cpp:31).
AuthorizedPasses ==
    /\ verify_authority(sigs, required, approvals) # "mixed"
    /\ Authorized(sigs, Grants(sigs, IF required.regular # {} THEN {"regular"} ELSE {"active"},
                               Approved, CHAIN_MAX_SIG_CHECK_DEPTH))
    => Passes(verify_authority(sigs, required, approvals))

\* the keys chosen are accepted as they are, and each is needed
NeededAll(minimal) ==
    /\ ~minimal.threw
    /\ verify_authority(minimal.keys, required, None) = "ok"
    /\ \A k \in minimal.keys : verify_authority(minimal.keys \ {k}, required, None) \in Missing

\* With keys available that satisfy the active authorities required, the keys chosen for signing are
\* accepted as they are, and none of them can be left out; the attempts to leave keys out are not ended
\* by the check for irrelevant signatures (transaction.cpp:332).
MinimalKeysSuffice ==
    LET granted == Grants(sigs, {"active"}, {}, CHAIN_MAX_SIG_CHECK_DEPTH)
    IN  /\ required.regular = {} /\ required.master = {} /\ approvals = None
        /\ \A a \in required.active : Satisfied(auths.active[a], sigs, granted)
        /\ \A i \in DOMAIN required.other : Satisfied(required.other[i], sigs, granted)
        => NeededAll(minimize_required_signatures(sigs, required))
=============================================================================
