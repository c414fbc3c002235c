---------------------------- MODULE WitnessVotes ----------------------------
(***************************************************************************)
(* How vesting shares become votes for witnesses, with all hardforks       *)
(* active: an account votes for witnesses itself, its influence divided    *)
(* evenly between them, or gives its influence to a proxy.                 *)
(*                                                                         *)
(* Nothing here is ever recomputed from scratch: every operation changes   *)
(* the sums proxied_vsf_votes, witnesses_vote_weight and votes by a        *)
(* difference, and the differences have to add up.                         *)
(*                                                                         *)
(* A failed assertion undoes the operation, or the block in which          *)
(* withdrawals are processed, as a whole: such a step is not enabled.      *)
(***************************************************************************)
EXTENDS Integers, FiniteSets, FiniteSetsExt

CONSTANTS
    Account,
    Witness,
    NoProxy,     \* CHAIN_PROXY_TO_SELF_ACCOUNT, the empty name
    MaxDepth,    \* CHAIN_MAX_PROXY_RECURSION_DEPTH
    MaxVotes,    \* CHAIN_MAX_ACCOUNT_WITNESS_VOTES
    Amount,      \* the amounts by which vesting shares change
    MaxShares    \* bound: the shares of one account

ASSUME WitnessVotesAssumption ==
    /\ IsFiniteSet(Account) /\ IsFiniteSet(Witness) /\ NoProxy \notin Account
    /\ MaxDepth \in Nat \ {0} /\ MaxVotes \in Nat \ {0} /\ MaxShares \in Nat
    /\ Amount \subseteq Nat \ {0}

VARIABLES
    shares,     \* account_object::vesting_shares
    proxy,      \* account_object::proxy
    votedFor,   \* witness_vote_objects of the account; witnesses_voted_for
                \* counts them
    proxied,    \* account_object::proxied_vsf_votes
    weight,     \* account_object::witnesses_vote_weight
    votes       \* witness_object::votes

tally == [proxied |-> proxied, weight |-> weight, votes |-> votes]

vars == <<shares, proxy, votedFor, proxied, weight, votes>>

-----------------------------------------------------------------------------
\* The account n proxies above a, NoProxy when the chain is shorter.
Up(px, a, n) ==
    LET up[k \in 0..n] ==
            IF k = 0 THEN a
            ELSE IF up[k - 1] = NoProxy THEN NoProxy ELSE px[up[k - 1]]
    IN  up[n]

Level == 0..(MaxDepth - 1)

SumOf(f, S) == MapThenSumSet(LAMBDA x : f[x], S)

\* Division of share_type truncates towards zero.
Divided(x, n) == IF x >= 0 THEN x \div n ELSE -((-x) \div n)

NotNegative(x) == IF x < 0 THEN 0 ELSE x

\* account_object::witness_vote_weight.
Influence(sh, pr, a) == sh[a] + SumOf(pr[a], Level)

TotalShares(sh) == SumOf(sh, Account)

\* The assertion at the end of adjust_witness_vote.
Asserted(t, sh) == \A w \in Witness : t.votes[w] <= TotalShares(sh)

(***************************************************************************)
(* adjust_witness_votes: an account that votes itself passes the change on *)
(* to its witnesses, each getting an equal part.                           *)
(***************************************************************************)
adjust_witness_votes(t, vf, a, delta) ==
    LET fair == Divided(delta, Cardinality(vf[a]))
    IN  IF vf[a] = {} THEN t
        ELSE [t EXCEPT
                !.weight[a] = @ + fair,
                !.votes = [w \in Witness |->
                              IF w \in vf[a] THEN NotNegative(@[w] + fair)
                              ELSE @[w]]]

(***************************************************************************)
(* adjust_proxied_witness_votes: delta[i] is the change i levels below a.  *)
(* It reaches the proxy at depth d as a change d + i levels below, and the *)
(* account at the end of the chain votes with what is left within          *)
(* MaxDepth; a chain that is longer is cut.                                *)
(***************************************************************************)
adjust_proxied_witness_votes(t, px, vf, a, delta) ==
    LET above(p, j) == {d \in 0..j : Up(px, a, d + 1) = p}
        depth == {k \in 0..MaxDepth :
                     Up(px, a, k) # NoProxy /\ Up(px, a, k + 1) = NoProxy}
        t1 == [t EXCEPT !.proxied = [p \in Account |-> [j \in Level |->
                  @[p][j] + SumOf([d \in 0..j |-> delta[j - d]], above(p, j))]]]
    IN  IF depth = {} THEN t1
        ELSE LET k == CHOOSE k \in depth : TRUE
             IN  adjust_witness_votes(t1, vf, Up(px, a, k),
                                      SumOf(delta, 0..(MaxDepth - k)))

\* The overload for a change of the account's own shares.
Own(x) == [i \in 0..MaxDepth |-> IF i = 0 THEN x ELSE 0]

\* Everything the account stands for, its own shares and those below it.
Whole(a, sign) ==
    [i \in 0..MaxDepth |-> sign * (IF i = 0 THEN shares[a] ELSE proxied[a][i - 1])]

-----------------------------------------------------------------------------
(***************************************************************************)
(* account_witness_proxy_evaluator.                                        *)
(***************************************************************************)

\* Mutant: the account itself is not in the set the walk starts with.
LoopCheckFromProxy(a, p) ==
    \A n \in 1..MaxDepth : Up(proxy, p, n) # NoProxy =>
        /\ \A m \in 0..(n - 1) : Up(proxy, p, n) # Up(proxy, p, m)
        /\ n + 2 <= MaxDepth

(***************************************************************************)
(* The walk up from the new proxy: no account twice, none beyond the       *)
(* depth.  The code follows a pointer to a copy that has gone out of       *)
(* scope; nothing is written over it before it is read.                    *)
(***************************************************************************)
NoLoop(a, p) ==
    \A n \in 1..MaxDepth : Up(proxy, p, n) # NoProxy =>
        /\ Up(proxy, p, n) # a
        /\ \A m \in 0..(n - 1) : Up(proxy, p, n) # Up(proxy, p, m)
        /\ n + 2 <= MaxDepth

SetTally(t) == proxied' = t.proxied /\ weight' = t.weight /\ votes' = t.votes

\* clear_witness_votes is the empty set of votes and a weight of 0.
SetProxy(a, p) ==
    LET t1 == adjust_proxied_witness_votes(tally, proxy, votedFor, a, Whole(a, -1))
        vf == [votedFor EXCEPT ![a] = {}]
        px == [proxy EXCEPT ![a] = p]
        t2 == [t1 EXCEPT !.weight[a] = 0]
        t3 == adjust_proxied_witness_votes(t2, px, vf, a, Whole(a, 1))
    IN  /\ p # a /\ proxy[a] # p
        /\ NoLoop(a, p)
        /\ Asserted(t1, shares) /\ Asserted(t3, shares)
        /\ SetTally(t3) /\ proxy' = px /\ votedFor' = vf
        /\ UNCHANGED shares

ClearProxy(a) ==
    LET t1 == adjust_proxied_witness_votes(tally, proxy, votedFor, a, Whole(a, -1))
    IN  /\ proxy[a] # NoProxy
        /\ Asserted(t1, shares)
        /\ SetTally(t1) /\ proxy' = [proxy EXCEPT ![a] = NoProxy]
        /\ UNCHANGED <<shares, votedFor>>

(***************************************************************************)
(* account_witness_vote_evaluator.  A proxy is cleared first; then the     *)
(* account's old weight is taken from its witnesses and the new one, for   *)
(* one witness more or less, given to them.                                *)
(***************************************************************************)
\* Mutant: the old weight is not taken back.
RevoteAddsOnly(t, a, old, new) ==
    LET w1 == IF new = {} THEN 0
              ELSE Influence(shares, t.proxied, a) \div Cardinality(new)
    IN  [t EXCEPT
            !.weight[a] = w1,
            !.votes = [w \in Witness |-> @[w] + (IF w \in new THEN w1 ELSE 0)]]

Revote(t, a, old, new) ==
    LET w0 == t.weight[a]
        w1 == IF new = {} THEN 0
              ELSE Influence(shares, t.proxied, a) \div Cardinality(new)
    IN  [t EXCEPT
            !.weight[a] = w1,
            !.votes = [w \in Witness |->
                (IF w \in old THEN NotNegative(@[w] - w0) ELSE @[w])
                   + (IF w \in new THEN w1 ELSE 0)]]

Vote(a, new) ==
    LET t1 == IF proxy[a] = NoProxy THEN tally
              ELSE adjust_proxied_witness_votes(tally, proxy, votedFor, a,
                                                Whole(a, -1))
        t2 == Revote(t1, a, votedFor[a], new)
    IN  /\ Asserted(t1, shares) /\ Asserted(t2, shares)
        /\ SetTally(t2)
        /\ proxy' = [proxy EXCEPT ![a] = NoProxy]
        /\ votedFor' = [votedFor EXCEPT ![a] = new]
        /\ UNCHANGED shares

Approve(a, w) ==
    /\ w \notin votedFor[a] /\ Cardinality(votedFor[a]) < MaxVotes
    /\ Vote(a, votedFor[a] \cup {w})

Reject(a, w) ==
    /\ w \in votedFor[a]
    /\ Vote(a, votedFor[a] \ {w})

(***************************************************************************)
(* Vesting shares change: create_vesting, and process_vesting_withdrawals  *)
(* to tokens or, along a route, to the shares of another account.          *)
(***************************************************************************)
Deposit(a, x) ==
    LET sh == [shares EXCEPT ![a] = @ + x]
        t == adjust_proxied_witness_votes(tally, proxy, votedFor, a, Own(x))
    IN  /\ sh[a] <= MaxShares
        /\ Asserted(t, sh)
        /\ shares' = sh /\ SetTally(t)
        /\ UNCHANGED <<proxy, votedFor>>

Withdraw(a, x) ==
    LET sh == [shares EXCEPT ![a] = @ - x]
        t == adjust_proxied_witness_votes(tally, proxy, votedFor, a, Own(-x))
    IN  /\ x <= shares[a]
        /\ Asserted(t, sh)
        /\ shares' = sh /\ SetTally(t)
        /\ UNCHANGED <<proxy, votedFor>>

\* The destination is credited before the source is debited.
Routed(b, x) == adjust_proxied_witness_votes(tally, proxy, votedFor, b, Own(x))

WithdrawTo(a, b, x) ==
    LET sh == [shares EXCEPT ![b] = @ + x]
        t1 == Routed(b, x)
        t2 == adjust_proxied_witness_votes(t1, proxy, votedFor, a, Own(-x))
    IN  /\ x <= shares[a] /\ sh[b] <= MaxShares
        /\ Asserted(t1, shares) /\ Asserted(t2, shares)
        /\ shares' = [sh EXCEPT ![a] = @ - x] /\ SetTally(t2)
        /\ UNCHANGED <<proxy, votedFor>>

Init ==
    /\ shares = [a \in Account |-> 0]
    /\ proxy = [a \in Account |-> NoProxy]
    /\ votedFor = [a \in Account |-> {}]
    /\ proxied = [a \in Account |-> [i \in Level |-> 0]]
    /\ weight = [a \in Account |-> 0]
    /\ votes = [w \in Witness |-> 0]

Next ==
    \E a \in Account :
        \/ \E p \in Account : SetProxy(a, p)
        \/ ClearProxy(a)
        \/ \E w \in Witness : Approve(a, w) \/ Reject(a, w)
        \/ \E x \in Amount : Deposit(a, x) \/ Withdraw(a, x)
        \/ \E x \in Amount, b \in Account : WithdrawTo(a, b, x)

Spec == Init /\ [][Next]_vars

-----------------------------------------------------------------------------
(***************************************************************************)
(* Properties.                                                             *)
(***************************************************************************)

\* The weights are the sums of what was added; none of them is negative.
TypeOK ==
    /\ shares \in [Account -> 0..MaxShares]
    /\ proxy \in [Account -> Account \cup {NoProxy}]
    /\ votedFor \in [Account -> SUBSET Witness]
    /\ proxied \in [Account -> [Level -> Nat]]
    /\ weight \in [Account -> Nat]
    /\ votes \in [Witness -> Nat]

(***************************************************************************)
(* account_object.hpp calls proxied_vsf_votes "the total VFS votes proxied *)
(* to this account": whatever order proxies were set, cleared and shares   *)
(* moved in, level i of an account is exactly the sum of the shares of the *)
(* accounts i + 1 proxies below it.                                        *)
(***************************************************************************)
ProxiedIsBelow ==
    \A a \in Account, i \in Level :
        proxied[a][i] = SumOf(shares, {b \in Account : Up(proxy, b, i + 1) = a})

\* account_witness_proxy_evaluator: "This proxy would create a proxy loop."
\* Following proxies from any account comes to an end.
NoProxyLoop ==
    \A a \in Account, n \in 1..Cardinality(Account) : Up(proxy, a, n) # a

\* The accounts whose votes for w count.
Voters(w) == {a \in Account : w \in votedFor[a]}

(***************************************************************************)
(* witness_objects.hpp: "The total votes for this witness."  Every share   *)
(* counts once: the votes of a witness are the sum, over the accounts that *)
(* vote for it, of their influence divided by the number of their votes.   *)
(* It holds exactly when all amounts can be divided by all numbers of      *)
(* votes.  The influence includes the shares proxied to the account.       *)
(***************************************************************************)
EveryShareCounts ==
    /\ ProxiedIsBelow
    /\ \A a \in Account : votedFor[a] # {} =>
            /\ proxy[a] = NoProxy
            /\ weight[a] * Cardinality(votedFor[a]) = Influence(shares, proxied, a)
    /\ \A w \in Witness : votes[w] = SumOf(weight, Voters(w))

=============================================================================
