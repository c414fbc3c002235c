------------------------- MODULE WitnessVotesProofs -------------------------
(***************************************************************************)
(* What holds of proxies, proxied shares and the weights of voters for any *)
(* number of accounts, any depth of recursion and any amounts.             *)
(***************************************************************************)
EXTENDS WitnessVotes, InductionLemmas

Proxies == [Account -> Account \cup {NoProxy}]

(***************************************************************************)
(* Following proxies.                                                      *)
(***************************************************************************)
Above(px, x) == IF x = NoProxy THEN NoProxy ELSE px[x]

\* The function by which Up is defined.
UpFunction(px, a, n, f) ==
    f = [k \in 0..n |-> IF k = 0 THEN a
                        ELSE IF f[k - 1] = NoProxy THEN NoProxy ELSE px[f[k - 1]]]

\* Up is the value of that function at n.
LEMMA UpDef == \A px, a, n : Up(px, a, n) = (CHOOSE f : UpFunction(px, a, n, f))[n]
BY DEF Up, UpFunction

\* There is such a function for every n.
LEMMA UpFunctionExists ==
    ASSUME NEW px, NEW a
    PROVE  \A n \in Nat : \E f : UpFunction(px, a, n, f)
<1> DEFINE T == {n \in Nat : \E f : UpFunction(px, a, n, f)}
<1>1. 0 \in T
  <2> DEFINE f == [k \in 0..0 |-> a]
  <2>1. UpFunction(px, a, 0, f)
    BY DEF UpFunction
  <2> QED BY <2>1
<1>2. ASSUME NEW n \in Nat, n \in T PROVE n + 1 \in T
  <2>1. PICK f : UpFunction(px, a, n, f)
    BY <1>2
  <2> DEFINE g == [k \in 0..(n + 1) |-> IF k = n + 1 THEN Above(px, f[n]) ELSE f[k]]
  <2>2. \A k \in 0..n : g[k] = f[k]
    OBVIOUS
  <2>3. \A k \in 0..(n + 1) : g[k] = IF k = 0 THEN a ELSE Above(px, g[k - 1])
    <3> TAKE k \in 0..(n + 1)
    <3>1. CASE k = n + 1
      BY <2>2, <3>1
    <3>2. CASE k \in 1..n
      <4>1. f[k] = Above(px, f[k - 1]) /\ k - 1 \in 0..n
        BY <2>1, <3>2 DEF UpFunction, Above
      <4> QED BY <2>2, <3>2, <4>1
    <3>3. CASE k = 0
      BY <2>1, <2>2, <3>3 DEF UpFunction
    <3> QED BY <3>1, <3>2, <3>3
  <2>4. UpFunction(px, a, n + 1, g)
    <3>1. g = [k \in 0..(n + 1) |-> g[k]]
      OBVIOUS
    <3> QED BY <2>3, <3>1 DEF UpFunction, Above
  <2> QED BY <2>4
<1>3. \A n \in Nat : n \in T
  <2> HIDE DEF T
  <2> QED BY <1>1, <1>2, NatInduct
<1> QED
  BY <1>3

\* Two of them agree where both are defined.
LEMMA UpFunctionsAgree ==
    ASSUME NEW px, NEW a, NEW n \in Nat, NEW m \in Nat, m <= n,
           NEW f, UpFunction(px, a, n, f), NEW g, UpFunction(px, a, m, g)
    PROVE  f[m] = g[m]
<1> DEFINE T == {k \in Nat : k <= m => f[k] = g[k]}
<1>1. 0 \in T
  BY DEF UpFunction
<1>2. ASSUME NEW k \in Nat, k \in T PROVE k + 1 \in T
  <2> SUFFICES ASSUME k + 1 <= m PROVE f[k + 1] = g[k + 1]
    OBVIOUS
  <2>1. f[k] = g[k] /\ k + 1 \in 0..n /\ k + 1 \in 0..m /\ (k + 1) - 1 = k /\ k + 1 # 0
    BY <1>2
  <2>2. f[k + 1] = IF f[k] = NoProxy THEN NoProxy ELSE px[f[k]]
    BY <2>1 DEF UpFunction
  <2>3. g[k + 1] = IF g[k] = NoProxy THEN NoProxy ELSE px[g[k]]
    BY <2>1 DEF UpFunction
  <2> QED BY <2>1, <2>2, <2>3
<1>3. \A k \in Nat : k \in T
  <2> HIDE DEF T
  <2> QED BY <1>1, <1>2, NatInduct
<1> QED
  BY <1>3

\* One step up after another.
LEMMA UpStep ==
    ASSUME NEW px, NEW a
    PROVE  /\ Up(px, a, 0) = a
           /\ \A n \in Nat : Up(px, a, n + 1) = Above(px, Up(px, a, n))
<1>1. \A n \in Nat : \E f : UpFunction(px, a, n, f) /\ Up(px, a, n) = f[n]
  <2> TAKE n \in Nat
  <2>1. PICK f : f = CHOOSE g : UpFunction(px, a, n, g)
    OBVIOUS
  <2>2. \E g : UpFunction(px, a, n, g)
    BY UpFunctionExists
  <2>3. UpFunction(px, a, n, f)
    BY <2>1, <2>2, Zenon
  <2> QED BY <2>1, <2>3, UpDef
<1>2. Up(px, a, 0) = a
  <2>1. PICK f : UpFunction(px, a, 0, f) /\ Up(px, a, 0) = f[0]
    BY <1>1
  <2> QED BY <2>1 DEF UpFunction
<1>3. ASSUME NEW n \in Nat PROVE Up(px, a, n + 1) = Above(px, Up(px, a, n))
  <2>1. PICK f : UpFunction(px, a, n, f) /\ Up(px, a, n) = f[n]
    BY <1>1
  <2>2. PICK g : UpFunction(px, a, n + 1, g) /\ Up(px, a, n + 1) = g[n + 1]
    BY <1>1
  <2>3. g[n] = f[n]
    BY <2>1, <2>2, UpFunctionsAgree
  <2>4. g[n + 1] = Above(px, g[n])
    BY <2>2 DEF UpFunction, Above
  <2> QED BY <2>1, <2>2, <2>3, <2>4
<1> QED
  BY <1>2, <1>3

\* Above an account are accounts, and above the last one nothing.
LEMMA UpType ==
    ASSUME NEW px \in Proxies, NEW a \in Account \cup {NoProxy}
    PROVE  \A n \in Nat : Up(px, a, n) \in Account \cup {NoProxy}
<1> DEFINE T == {n \in Nat : Up(px, a, n) \in Account \cup {NoProxy}}
<1>1. 0 \in T
  BY UpStep
<1>2. ASSUME NEW n \in Nat, n \in T PROVE n + 1 \in T
  <2>1. Up(px, a, n + 1) = Above(px, Up(px, a, n))
    BY UpStep
  <2> QED BY <1>2, <2>1 DEF Above, Proxies
<1>3. \A n \in Nat : n \in T
  <2> HIDE DEF T
  <2> QED BY <1>1, <1>2, NatInduct
<1> QED
  BY <1>3

\* n steps after m steps are m + n steps.
LEMMA UpPlus ==
    ASSUME NEW px, NEW a, NEW m \in Nat
    PROVE  \A n \in Nat : Up(px, Up(px, a, m), n) = Up(px, a, m + n)
<1> DEFINE T == {n \in Nat : Up(px, Up(px, a, m), n) = Up(px, a, m + n)}
<1>1. 0 \in T
  BY UpStep
<1>2. ASSUME NEW n \in Nat, n \in T PROVE n + 1 \in T
  <2>1. Up(px, Up(px, a, m), n + 1) = Above(px, Up(px, Up(px, a, m), n))
    BY UpStep
  <2>2. m + n \in Nat /\ m + (n + 1) = (m + n) + 1
    OBVIOUS
  <2>3. Up(px, a, (m + n) + 1) = Above(px, Up(px, a, m + n))
    BY <2>2, UpStep
  <2>4. Up(px, Up(px, a, m), n) = Up(px, a, m + n)
    BY <1>2
  <2> QED BY <2>1, <2>2, <2>3, <2>4
<1>3. \A n \in Nat : n \in T
  <2> HIDE DEF T
  <2> QED BY <1>1, <1>2, NatInduct
<1> QED
  BY <1>3

\* There is nothing above the end of a proxy chain.
LEMMA UpNothing ==
    ASSUME NEW px PROVE \A n \in Nat : Up(px, NoProxy, n) = NoProxy
<1> DEFINE T == {n \in Nat : Up(px, NoProxy, n) = NoProxy}
<1>1. 0 \in T
  BY UpStep
<1>2. ASSUME NEW n \in Nat, n \in T PROVE n + 1 \in T
  <2>1. Up(px, NoProxy, n + 1) = Above(px, Up(px, NoProxy, n))
    BY UpStep
  <2> QED BY <1>2, <2>1 DEF Above
<1>3. \A n \in Nat : n \in T
  <2> HIDE DEF T
  <2> QED BY <1>1, <1>2, NatInduct
<1> QED
  BY <1>3

\* The walk up from b does not depend on the proxy of an account it has not met.
LEMMA UpSame ==
    ASSUME NEW px \in Proxies, NEW qx \in Proxies, NEW a \in Account,
           \A x \in Account : x # a => qx[x] = px[x],
           NEW b \in Account \cup {NoProxy}, NEW n \in Nat,
           \A m \in 0..(n - 1) : Up(px, b, m) # a
    PROVE  Up(qx, b, n) = Up(px, b, n)
<1> DEFINE T == {k \in Nat : k <= n => Up(qx, b, k) = Up(px, b, k)}
<1>1. 0 \in T
  BY UpStep
<1>2. ASSUME NEW k \in Nat, k \in T PROVE k + 1 \in T
  <2> SUFFICES ASSUME k + 1 <= n PROVE Up(qx, b, k + 1) = Up(px, b, k + 1)
    OBVIOUS
  <2>1. Up(qx, b, k) = Up(px, b, k) /\ Up(px, b, k) # a
    BY <1>2
  <2>2. Up(px, b, k) \in Account \cup {NoProxy}
    BY UpType
  <2>3. Above(qx, Up(px, b, k)) = Above(px, Up(px, b, k))
    BY <2>1, <2>2 DEF Above
  <2>4. /\ Up(qx, b, k + 1) = Above(qx, Up(qx, b, k))
        /\ Up(px, b, k + 1) = Above(px, Up(px, b, k))
    BY UpStep, ZenonT(60)
  <2> QED BY <2>1, <2>3, <2>4
<1>3. \A k \in Nat : k \in T
  <2> HIDE DEF T
  <2> QED BY <1>1, <1>2, NatInduct
<1> QED
  BY <1>3

-----------------------------------------------------------------------------
(***************************************************************************)
(* Proxies make no loop: no account is above itself, at any distance.      *)
(***************************************************************************)
NoLoops(px) == \A a \in Account, n \in Nat \ {0} : Up(px, a, n) # a

(***************************************************************************)
(* The walk of account_witness_proxy_evaluator looks only MaxDepth far. It *)
(* is enough: a chain that goes on after that is refused.                  *)
(***************************************************************************)
LEMMA WalkIsEnough ==
    ASSUME NEW a \in Account, NEW p \in Account, p # a, NoLoop(a, p)
    PROVE  \A n \in Nat : Up(proxy, p, n) # a
<1> SUFFICES ASSUME NEW n \in Nat, Up(proxy, p, n) = a PROVE FALSE
  OBVIOUS
<1>1. n # 0
  BY UpStep
<1>2. a # NoProxy
  BY WitnessVotesAssumption
<1>3. CASE n <= MaxDepth
  BY <1>1, <1>2, <1>3, WitnessVotesAssumption DEF NoLoop
<1>4. CASE n > MaxDepth
  <2>1. MaxDepth \in 1..MaxDepth /\ n - MaxDepth \in Nat /\ MaxDepth + (n - MaxDepth) = n
    BY <1>4, WitnessVotesAssumption
  <2>2. Up(proxy, p, MaxDepth) # NoProxy
    <3> SUFFICES ASSUME Up(proxy, p, MaxDepth) = NoProxy PROVE FALSE
      OBVIOUS
    <3>1. Up(proxy, Up(proxy, p, MaxDepth), n - MaxDepth) = Up(proxy, p, n)
      BY <2>1, UpPlus
    <3> QED BY <1>2, <2>1, <3>1, UpNothing
  <2>3. MaxDepth + 2 <= MaxDepth
    BY <2>1, <2>2 DEF NoLoop
  <2> QED BY <2>3, WitnessVotesAssumption
<1> QED
  BY <1>3, <1>4, WitnessVotesAssumption

\* A proxy that does not lead back makes no loop; nor does clearing one.
LEMMA NewProxyNoLoop ==
    ASSUME NEW px \in Proxies, NoLoops(px), NEW a \in Account,
           NEW p \in Account \cup {NoProxy}, \A n \in Nat : Up(px, p, n) # a
    PROVE  NoLoops([px EXCEPT ![a] = p])
<1>0. PICK qx \in Proxies : qx = [px EXCEPT ![a] = p]
  BY DEF Proxies
<1>1. qx[a] = p /\ \A x \in Account : x # a => qx[x] = px[x]
  BY <1>0 DEF Proxies
<1>2. a # NoProxy
  BY WitnessVotesAssumption
<1>3. \A n \in Nat : Up(qx, p, n) # a
  <2> TAKE n \in Nat
  <2>1. Up(qx, p, n) = Up(px, p, n)
    BY <1>1, UpSame
  <2> QED BY <2>1
<1>4. ASSUME NEW n \in Nat \ {0} PROVE Up(qx, a, n) # a
  <2>1. Up(qx, a, 1) = p
    <3>1. Up(qx, a, 0 + 1) = Above(qx, Up(qx, a, 0)) /\ Up(qx, a, 0) = a
      BY UpStep
    <3> QED BY <1>1, <1>2, <3>1 DEF Above
  <2>2. n - 1 \in Nat /\ 1 + (n - 1) = n
    OBVIOUS
  <2>3. Up(qx, p, n - 1) = Up(qx, a, n)
    BY <2>1, <2>2, UpPlus
  <2> QED BY <1>3, <2>2, <2>3
<1>5. ASSUME NEW b \in Account, NEW n \in Nat \ {0}, Up(qx, b, n) = b PROVE FALSE
  <2>1. CASE \A m \in 0..(n - 1) : Up(qx, b, m) # a
    <3>1. Up(px, b, n) = Up(qx, b, n)
      BY <1>1, <2>1, UpSame
    <3> QED BY <1>5, <3>1 DEF NoLoops
  <2>2. ASSUME NEW m \in 0..(n - 1), Up(qx, b, m) = a PROVE FALSE
    <3>1. Up(qx, a, n) = Up(qx, b, m + n)
      BY <2>2, UpPlus
    <3>2. Up(qx, b, n + m) = Up(qx, b, m)
      BY <1>5, UpPlus
    <3>3. m + n = n + m
      OBVIOUS
    <3> QED BY <1>4, <2>2, <3>1, <3>2, <3>3
  <2> QED BY <2>1, <2>2
<1> QED
  BY <1>0, <1>5 DEF NoLoops

ProxyInv == proxy \in Proxies /\ NoLoops(proxy)

\* The invariant about the proxies holds throughout.
LEMMA ProxyInvHolds == Spec => []ProxyInv
<1>1. Init => ProxyInv
  <2> SUFFICES ASSUME Init PROVE ProxyInv
    OBVIOUS
  <2>1. proxy \in Proxies /\ \A a \in Account : proxy[a] = NoProxy
    BY DEF Init, Proxies
  <2>2. ASSUME NEW a \in Account, NEW n \in Nat \ {0} PROVE Up(proxy, a, n) # a
    <3>1. Up(proxy, a, 0) = a /\ Up(proxy, a, 0 + 1) = Above(proxy, Up(proxy, a, 0))
      BY UpStep
    <3>2. Up(proxy, a, 1) = NoProxy
      BY <2>1, <3>1 DEF Above
    <3>3. n - 1 \in Nat /\ 1 + (n - 1) = n
      OBVIOUS
    <3>4. Up(proxy, Up(proxy, a, 1), n - 1) = Up(proxy, a, n)
      BY <3>3, UpPlus
    <3> QED BY <3>2, <3>3, <3>4, UpNothing, WitnessVotesAssumption
  <2> QED BY <2>1, <2>2 DEF ProxyInv, NoLoops
<1>2. ProxyInv /\ [Next]_vars => ProxyInv'
  <2> SUFFICES ASSUME ProxyInv, [Next]_vars PROVE ProxyInv'
    OBVIOUS
  <2>1. ASSUME NEW a \in Account, NEW p \in Account \cup {NoProxy},
               proxy' = [proxy EXCEPT ![a] = p], \A n \in Nat : Up(proxy, p, n) # a
        PROVE  ProxyInv'
    BY <2>1, NewProxyNoLoop DEF ProxyInv, Proxies
  <2>2. ASSUME proxy' = proxy PROVE ProxyInv'
    BY <2>2 DEF ProxyInv, NoLoops
  <2>3. ASSUME NEW a \in Account, proxy' = [proxy EXCEPT ![a] = NoProxy] PROVE ProxyInv'
    <3>1. \A n \in Nat : Up(proxy, NoProxy, n) # a
      BY UpNothing, WitnessVotesAssumption
    <3>2. NoProxy \in Account \cup {NoProxy}
      OBVIOUS
    <3> QED BY <2>1, <2>3, <3>1, <3>2
  <2>4. ASSUME NEW a \in Account, NEW p \in Account, SetProxy(a, p) PROVE ProxyInv'
    <3>1. p # a /\ NoLoop(a, p) /\ proxy' = [proxy EXCEPT ![a] = p]
      BY <2>4 DEF SetProxy
    <3> QED BY <2>1, <3>1, WalkIsEnough
  <2>5. ASSUME NEW a \in Account, ClearProxy(a) PROVE ProxyInv'
    BY <2>3, <2>5 DEF ClearProxy
  <2>6. ASSUME NEW a \in Account, NEW w \in Witness, Approve(a, w) \/ Reject(a, w)
        PROVE  ProxyInv'
    BY <2>3, <2>6 DEF Approve, Reject, Vote
  <2>7. ASSUME NEW a \in Account, NEW b \in Account, NEW x \in Amount,
               Deposit(a, x) \/ Withdraw(a, x) \/ WithdrawTo(a, b, x)
        PROVE  ProxyInv'
    BY <2>2, <2>7 DEF Deposit, Withdraw, WithdrawTo
  <2>8. CASE UNCHANGED vars
    BY <2>2, <2>8 DEF vars
  <2> QED BY <2>4, <2>5, <2>6, <2>7, <2>8 DEF Next
<1> QED
  BY <1>1, <1>2, PTL DEF Spec

(***************************************************************************)
(* account_witness_proxy_evaluator: "This proxy would create a proxy       *)
(* loop."  For any number of accounts and any depth of the walk, following *)
(* proxies from an account never leads back to it.                         *)
(***************************************************************************)
THEOREM ProxiesEnd == Spec => []NoProxyLoop
<1>1. ProxyInv => NoProxyLoop
  BY FS_CardinalityType, WitnessVotesAssumption DEF ProxyInv, NoLoops, NoProxyLoop
<1> QED
  BY <1>1, ProxyInvHolds, PTL

-----------------------------------------------------------------------------
(***************************************************************************)
(* What adjust_proxied_witness_votes does to the proxied shares.           *)
(***************************************************************************)
AtDistance(px, a, p, j) == {d \in 0..j : Up(px, a, d + 1) = p}

Reached(px, a, delta, p, j) ==
    SumOver([d \in 0..j |-> delta[j - d]], AtDistance(px, a, p, j))

AddUp(px, pr, a, delta) ==
    [p \in Account |-> [j \in Level |-> pr[p][j] + Reached(px, a, delta, p, j)]]

IsTally(t) == t = [proxied |-> t.proxied, weight |-> t.weight, votes |-> t.votes]

\* The sum of the model is the one the lemmas are about.
LEMMA SumOfIs == \A f, S : SumOf(f, S) = SumOver(f, S)
BY DEF SumOf, SumOver

\* The votes of the last account change, the proxied shares do not.
LEMMA AdjustVotesTally ==
    ASSUME NEW t, IsTally(t), NEW vf, NEW a, NEW x
    PROVE  /\ IsTally(adjust_witness_votes(t, vf, a, x))
           /\ adjust_witness_votes(t, vf, a, x).proxied = t.proxied
BY DEF adjust_witness_votes, IsTally

\* adjust_proxied_witness_votes adds the change to every proxy above the account.
LEMMA AdjustIs ==
    ASSUME NEW t, IsTally(t), NEW px, NEW vf, NEW a, NEW delta
    PROVE  /\ IsTally(adjust_proxied_witness_votes(t, px, vf, a, delta))
           /\ adjust_proxied_witness_votes(t, px, vf, a, delta).proxied
                 = AddUp(px, t.proxied, a, delta)
<1> DEFINE t1 == [t EXCEPT !.proxied = AddUp(px, t.proxied, a, delta)]
<1>1. IsTally(t1) /\ t1.proxied = AddUp(px, t.proxied, a, delta)
  BY DEF IsTally
<1>2. \/ adjust_proxied_witness_votes(t, px, vf, a, delta) = t1
      \/ \E b, x : adjust_proxied_witness_votes(t, px, vf, a, delta)
                     = adjust_witness_votes(t1, vf, b, x)
  BY SumOfIs DEF adjust_proxied_witness_votes, AddUp, Reached, AtDistance
<1> HIDE DEF t1
<1> QED
  BY <1>1, <1>2, AdjustVotesTally

-----------------------------------------------------------------------------
(***************************************************************************)
(* The proxied shares are those below.                                     *)
(***************************************************************************)
Below(px, p, i) == {b \in Account : Up(px, b, i + 1) = p}

\* The accounts of Below(px, q, j) that do not come to q by way of a.
Beside(px, a, q, j) ==
    {b \in Account : Up(px, b, j + 1) = q /\ \A m \in 0..j : Up(px, b, m) # a}

\* delta is all that a stands for, by level: its own shares and those below it.
AllOf(px, sh, a, delta) ==
    /\ delta \in [0..MaxDepth -> Int]
    /\ delta[0] = sh[a]
    /\ \A i \in Level : delta[i + 1] = SumOver(sh, Below(px, a, i))

\* Without loops an account is at one distance at most.
LEMMA OneDistance ==
    ASSUME NEW px, NoLoops(px), NEW a, NEW p \in Account,
           NEW d \in Nat, NEW e \in Nat, Up(px, a, d) = p, Up(px, a, e) = p
    PROVE  d = e
<1>1. ASSUME NEW m \in Nat, NEW n \in Nat, m < n, Up(px, a, m) = p, Up(px, a, n) = p
      PROVE  FALSE
  <2>1. n - m \in Nat \ {0} /\ m + (n - m) = n
    BY <1>1
  <2>2. Up(px, Up(px, a, m), n - m) = Up(px, a, n)
    BY <2>1, UpPlus
  <2> QED BY <1>1, <2>1, <2>2 DEF NoLoops
<1>2. d < e \/ e < d \/ d = e
  OBVIOUS
<1> QED
  BY <1>1, <1>2

\* Going d + 1 up from a is going from j - d below a to j + 1 above.
LEMMA ByWayOf ==
    ASSUME NEW px, NEW a, NEW b, NEW j \in Nat, NEW m \in 0..j, Up(px, b, m) = a
    PROVE  Up(px, b, j + 1) = Up(px, a, (j - m) + 1)
<1>1. m \in Nat /\ (j - m) + 1 \in Nat /\ m + ((j - m) + 1) = j + 1
  OBVIOUS
<1> QED
  BY <1>1, UpPlus

\* Distances are finite sets, and so are sets of accounts.
LEMMA FiniteParts ==
    /\ \A S \in SUBSET Account : IsFiniteSet(S)
    /\ \A px, a, p, j : j \in Nat => IsFiniteSet(AtDistance(px, a, p, j))
<1>1. \A S \in SUBSET Account : IsFiniteSet(S)
  BY FS_Subset, WitnessVotesAssumption
<1>2. ASSUME NEW px, NEW a, NEW p, NEW j \in Nat PROVE IsFiniteSet(AtDistance(px, a, p, j))
  <2>1. IsFiniteSet(0..j) /\ AtDistance(px, a, p, j) \in SUBSET (0..j)
    BY FS_Interval DEF AtDistance
  <2> QED BY <2>1, FS_Subset
<1> QED
  BY <1>1, <1>2

\* A sum over one element.
LEMMA SumOverOne ==
    ASSUME NEW x, NEW f, f[x] \in Int
    PROVE  SumOver(f, {x}) = f[x]
<1>1. IsFiniteSet({}) /\ SumOver(f, {}) = 0 /\ {} \cup {x} = {x} /\ x \notin {}
  BY FS_EmptySet, SumOverUnfold
<1>2. SumOver(f, {} \cup {x}) = f[x] + SumOver(f, {})
  BY <1>1, SumOverAdd
<1> QED
  BY <1>1, <1>2

(***************************************************************************)
(* The shares below q are those that do not pass a, and what reaches q of  *)
(* everything a stands for.                                                *)
(***************************************************************************)
LEMMA BelowSplits ==
    ASSUME NEW px \in Proxies, NoLoops(px), NEW a \in Account, NEW q \in Account,
           NEW j \in Level, NEW sh \in [Account -> Int],
           NEW delta, AllOf(px, sh, a, delta)
    PROVE  SumOver(sh, Below(px, q, j))
              = SumOver(sh, Beside(px, a, q, j)) + Reached(px, a, delta, q, j)
<1> DEFINE D == AtDistance(px, a, q, j)
           f == [d \in 0..j |-> delta[j - d]]
<1>0. j \in Nat /\ j <= MaxDepth /\ Level \subseteq Nat
  BY WitnessVotesAssumption DEF Level
<1>1. \A d \in 0..j : f[d] = delta[j - d] /\ delta[j - d] \in Int
  BY <1>0, WitnessVotesAssumption DEF AllOf
<1>2. SumOver(sh, Beside(px, a, q, j)) \in Int
  BY FiniteParts, SumOverType DEF Beside
<1>3. ASSUME NEW b \in Below(px, q, j), b \notin Beside(px, a, q, j)
      PROVE  \E d \in D : Up(px, b, j - d) = a
  <2>1. PICK m \in 0..j : Up(px, b, m) = a
    BY <1>3 DEF Below, Beside
  <2>2. Up(px, a, (j - m) + 1) = q
    BY <1>0, <1>3, <2>1, ByWayOf DEF Below
  <2>3. j - m \in D /\ j - (j - m) = m
    BY <1>0, <2>2 DEF AtDistance
  <2> QED BY <2>1, <2>3
<1>4. Beside(px, a, q, j) \subseteq Below(px, q, j)
  BY DEF Beside, Below
<1>5. CASE D = {}
  <2>1. Below(px, q, j) = Beside(px, a, q, j)
    BY <1>3, <1>4, <1>5
  <2>2. SumOver(f, D) = 0
    BY <1>5, FS_EmptySet, SumOverUnfold
  <2> QED BY <1>2, <2>1, <2>2 DEF Reached
<1>6. ASSUME NEW d \in D
      PROVE  SumOver(sh, Below(px, q, j))
               = SumOver(sh, Beside(px, a, q, j)) + Reached(px, a, delta, q, j)
  <2> DEFINE Y == {b \in Account : Up(px, b, j - d) = a}
  <2>0. d \in 0..j /\ d + 1 \in Nat /\ Up(px, a, d + 1) = q /\ j - d \in 0..j
    BY <1>0, <1>6 DEF AtDistance
  <2>1. D = {d}
    <3>1. ASSUME NEW e \in D PROVE e = d
      <4>1. e + 1 \in Nat /\ Up(px, a, e + 1) = q
        BY <1>0, <3>1 DEF AtDistance
      <4>2. e + 1 = d + 1
        BY <2>0, <4>1, OneDistance
      <4>3. e \in Int /\ d \in Int
        BY <2>0, <3>1 DEF AtDistance
      <4> QED BY <4>2, <4>3
    <3> QED BY <1>6, <3>1
  <2>2. Below(px, q, j) = Beside(px, a, q, j) \cup Y
    <3>1. Below(px, q, j) \subseteq Beside(px, a, q, j) \cup Y
      BY <1>3, <2>1 DEF Below
    <3>2. ASSUME NEW b \in Y PROVE b \in Below(px, q, j)
      <4>1. Up(px, b, j + 1) = Up(px, a, (j - (j - d)) + 1) /\ j - (j - d) = d
        BY <1>0, <2>0, <3>2, ByWayOf
      <4> QED BY <2>0, <3>2, <4>1 DEF Below
    <3> QED BY <1>4, <3>1, <3>2
  <2>3. Beside(px, a, q, j) \cap Y = {}
    BY <2>0 DEF Beside
  <2>4. SumOver(sh, Y) = delta[j - d]
    <3>1. CASE j = d
      <4>1. Y = {a}
        <5>1. j - d = 0
          BY <1>0, <3>1
        <5> QED BY <5>1, UpStep
      <4> QED BY <4>1, <3>1, <1>0, SumOverOne DEF AllOf
    <3>2. CASE j # d
      <4>1. (j - d) - 1 \in Level /\ ((j - d) - 1) + 1 = j - d
        BY <1>0, <2>0, <3>2, WitnessVotesAssumption DEF Level
      <4>2. Y = Below(px, a, (j - d) - 1)
        BY <4>1 DEF Below
      <4> QED BY <4>1, <4>2 DEF AllOf
    <3> QED BY <3>1, <3>2
  <2>5. SumOver(sh, Below(px, q, j)) = SumOver(sh, Beside(px, a, q, j)) + SumOver(sh, Y)
    <3>1. IsFiniteSet(Beside(px, a, q, j)) /\ IsFiniteSet(Y)
      BY FiniteParts DEF Beside
    <3>2. \A x \in Beside(px, a, q, j) \cup Y : sh[x] \in Int
      BY DEF Beside
    <3> HIDE DEF Y
    <3> QED BY <2>2, <2>3, <3>1, <3>2, SumOverUnion
  <2>6. Reached(px, a, delta, q, j) = delta[j - d]
    <3>1. SumOver(f, {d}) = f[d]
      BY <1>1, <2>0, SumOverOne
    <3> QED BY <1>1, <2>0, <2>1, <3>1 DEF Reached
  <2> QED BY <2>4, <2>5, <2>6
<1> QED
  BY <1>5, <1>6

\* What passes a, and what is below it, does not depend on the proxy of a.
LEMMA ProxyOfAIrrelevant ==
    ASSUME NEW px \in Proxies, NEW qx \in Proxies, NoLoops(px), NoLoops(qx),
           NEW a \in Account, \A x \in Account : x # a => qx[x] = px[x],
           NEW j \in Nat
    PROVE  /\ \A q \in Account : Beside(qx, a, q, j) = Beside(px, a, q, j)
           /\ Below(qx, a, j) = Below(px, a, j)
<1>1. ASSUME NEW p1 \in Proxies, NEW p2 \in Proxies, NoLoops(p1),
             \A x \in Account : x # a => p2[x] = p1[x]
      PROVE  /\ \A q \in Account : Beside(p1, a, q, j) \subseteq Beside(p2, a, q, j)
             /\ Below(p1, a, j) \subseteq Below(p2, a, j)
  <2>1. ASSUME NEW b \in Account, NEW n \in Nat, \A m \in 0..(n - 1) : Up(p1, b, m) # a
        PROVE  \A k \in 0..n : Up(p2, b, k) = Up(p1, b, k)
    <3> TAKE k \in 0..n
    <3>1. k \in Nat /\ \A m \in 0..(k - 1) : m \in 0..(n - 1)
      OBVIOUS
    <3> QED BY <1>1, <2>1, <3>1, UpSame
  <2>2. ASSUME NEW q \in Account, NEW b \in Beside(p1, a, q, j)
        PROVE  b \in Beside(p2, a, q, j)
    <3>1. b \in Account /\ j + 1 \in Nat /\ (j + 1) - 1 = j
      BY DEF Beside
    <3>2. \A k \in 0..(j + 1) : Up(p2, b, k) = Up(p1, b, k)
      BY <2>1, <2>2, <3>1 DEF Beside
    <3>3. j + 1 \in 0..(j + 1) /\ \A m \in 0..j : m \in 0..(j + 1)
      OBVIOUS
    <3> QED BY <2>2, <3>1, <3>2, <3>3 DEF Beside
  <2>3. ASSUME NEW b \in Below(p1, a, j) PROVE b \in Below(p2, a, j)
    <3>1. b \in Account /\ j + 1 \in Nat /\ Up(p1, b, j + 1) = a
      BY DEF Below
    <3>2. \A m \in 0..((j + 1) - 1) : Up(p1, b, m) # a
      <4> SUFFICES ASSUME NEW m \in 0..((j + 1) - 1), Up(p1, b, m) = a PROVE FALSE
        OBVIOUS
      <4>1. m \in Nat /\ m # j + 1
        OBVIOUS
      <4> QED BY <1>1, <3>1, <4>1, OneDistance
    <3>3. Up(p2, b, j + 1) = a
      BY <2>1, <3>1, <3>2
    <3> QED BY <3>1, <3>3 DEF Below
  <2> QED BY <2>2, <2>3
<1>2. \A x \in Account : x # a => px[x] = qx[x]
  OBVIOUS
<1>3. /\ \A q \in Account : Beside(px, a, q, j) \subseteq Beside(qx, a, q, j)
      /\ Below(px, a, j) \subseteq Below(qx, a, j)
  BY <1>1
<1>4. /\ \A q \in Account : Beside(qx, a, q, j) \subseteq Beside(px, a, q, j)
      /\ Below(qx, a, j) \subseteq Below(px, a, j)
  BY <1>1, <1>2
<1> QED
  BY <1>3, <1>4

\* The proxied shares pr are the shares sh of the accounts below.
Sums(px, sh, pr) ==
    /\ pr \in [Account -> [Level -> Int]]
    /\ \A p \in Account, i \in Level : pr[p][i] = SumOver(sh, Below(px, p, i))

\* The type of what reaches an account.
LEMMA ReachedType ==
    ASSUME NEW px, NEW a, NEW delta \in [0..MaxDepth -> Int], NEW p, NEW j \in Level
    PROVE  Reached(px, a, delta, p, j) \in Int
<1>1. j \in Nat /\ \A d \in 0..j : j - d \in 0..MaxDepth
  BY WitnessVotesAssumption DEF Level
<1>2. \A d \in AtDistance(px, a, p, j) : [e \in 0..j |-> delta[j - e]][d] \in Int
  BY <1>1 DEF AtDistance
<1> QED
  BY <1>1, <1>2, FiniteParts, SumOverType DEF Reached

\* Taking something away is adding its opposite.
LEMMA ReachedOpposite ==
    ASSUME NEW px, NEW a, NEW p, NEW j \in Level, NEW delta \in [0..MaxDepth -> Int],
           NEW minus, \A i \in 0..MaxDepth : minus[i] = -delta[i]
    PROVE  Reached(px, a, minus, p, j) = -Reached(px, a, delta, p, j)
<1> DEFINE D == AtDistance(px, a, p, j)
           f == [e \in 0..j |-> delta[j - e]]
           g == [e \in 0..j |-> minus[j - e]]
           z == [e \in 0..j |-> 0]
<1>1. j \in Nat /\ \A d \in 0..j : j - d \in 0..MaxDepth
  BY WitnessVotesAssumption DEF Level
<1>2. IsFiniteSet(D) /\ D \subseteq 0..j
  <2>1. IsFiniteSet(AtDistance(px, a, p, j))
    BY <1>1, FiniteParts
  <2> QED BY <2>1 DEF AtDistance
<1>3. \A d \in D : f[d] \in Int /\ g[d] \in Int /\ z[d] = f[d] + g[d] /\ z[d] = 0
  BY <1>1, <1>2
<1> HIDE DEF D, f, g, z
<1>4. SumOver(z, D) = SumOver(f, D) + SumOver(g, D)
  BY <1>2, <1>3, SumOverPlus
<1>5. SumOver(z, D) = 0
  BY <1>2, <1>3, SumOverZero
<1>6. SumOver(f, D) \in Int /\ SumOver(g, D) \in Int
  BY <1>2, <1>3, SumOverType
<1>7. SumOver(g, D) = -SumOver(f, D)
  BY <1>4, <1>5, <1>6
<1> QED
  BY <1>7 DEF Reached, D, f, g

(***************************************************************************)
(* account_witness_proxy_evaluator and the first half of                   *)
(* account_witness_vote_evaluator: all that a stands for is taken from the *)
(* chain above it, and given to the chain of its new proxy.                *)
(***************************************************************************)
LEMMA ProxyMoves ==
    ASSUME NEW px \in Proxies, NoLoops(px), NEW a \in Account,
           NEW p \in Account \cup {NoProxy}, NEW qx, qx = [px EXCEPT ![a] = p], NoLoops(qx),
           NEW sh \in [Account -> Int], NEW pr, Sums(px, sh, pr),
           NEW delta, AllOf(px, sh, a, delta),
           NEW minus, \A i \in 0..MaxDepth : minus[i] = -delta[i]
    PROVE  /\ Sums(qx, sh, AddUp(qx, AddUp(px, pr, a, minus), a, delta))
           /\ p = NoProxy => Sums(qx, sh, AddUp(px, pr, a, minus))
<1>0. qx \in Proxies /\ qx[a] = p /\ \A x \in Account : x # a => qx[x] = px[x]
  BY DEF Proxies
<1>1. Level \subseteq Nat
  BY WitnessVotesAssumption DEF Level
<1>2. AllOf(qx, sh, a, delta)
  BY <1>0, <1>1, ProxyOfAIrrelevant, ZenonT(60) DEF AllOf
<1>3. delta \in [0..MaxDepth -> Int] /\ pr \in [Account -> [Level -> Int]]
  BY DEF AllOf, Sums
<1> DEFINE pr1 == AddUp(px, pr, a, minus)
           pr2 == AddUp(qx, pr1, a, delta)
<1>4. ASSUME NEW q \in Account, NEW j \in Level
      PROVE  /\ pr1[q][j] = SumOver(sh, Beside(qx, a, q, j))
             /\ pr1[q][j] \in Int
             /\ pr2[q][j] = SumOver(sh, Below(qx, q, j))
             /\ pr2[q][j] \in Int
             /\ p = NoProxy => pr1[q][j] = SumOver(sh, Below(qx, q, j))
  <2>1. pr1[q][j] = pr[q][j] + Reached(px, a, minus, q, j)
    BY DEF AddUp
  <2>2. pr2[q][j] = pr1[q][j] + Reached(qx, a, delta, q, j)
    BY DEF AddUp
  <2>3. Reached(px, a, minus, q, j) = -Reached(px, a, delta, q, j)
    BY <1>3, ReachedOpposite
  <2>4. Reached(px, a, delta, q, j) \in Int /\ Reached(qx, a, delta, q, j) \in Int
    BY <1>3, ReachedType
  <2>5. Beside(qx, a, q, j) = Beside(px, a, q, j)
    <3>1. j \in Nat
      BY <1>1
    <3>2. \A y \in Account : Beside(qx, a, y, j) = Beside(px, a, y, j)
      BY <1>0, <3>1, ProxyOfAIrrelevant, ZenonT(60)
    <3> QED BY <3>2
  <2>6. SumOver(sh, Beside(px, a, q, j)) \in Int
    BY FiniteParts, SumOverType DEF Beside
  <2>7. pr[q][j] = SumOver(sh, Beside(px, a, q, j)) + Reached(px, a, delta, q, j)
    BY BelowSplits DEF Sums
  <2>8. SumOver(sh, Below(qx, q, j))
          = SumOver(sh, Beside(qx, a, q, j)) + Reached(qx, a, delta, q, j)
    BY <1>0, <1>2, BelowSplits
  <2>9. pr1[q][j] = SumOver(sh, Beside(qx, a, q, j))
    BY <2>1, <2>3, <2>4, <2>5, <2>6, <2>7
  <2>10. p = NoProxy => Reached(qx, a, delta, q, j) = 0
    <3> SUFFICES ASSUME p = NoProxy PROVE Reached(qx, a, delta, q, j) = 0
      OBVIOUS
    <3>1. Up(qx, a, 0) = a /\ Up(qx, a, 0 + 1) = Above(qx, Up(qx, a, 0))
      BY UpStep
    <3>2. Up(qx, a, 1) = NoProxy
      BY <1>0, <3>1, WitnessVotesAssumption DEF Above
    <3>3. ASSUME NEW d \in 0..j PROVE Up(qx, a, d + 1) = NoProxy
      <4>1. d \in Nat /\ 1 + d = d + 1
        BY <1>1
      <4>2. Up(qx, Up(qx, a, 1), d) = Up(qx, a, 1 + d)
        BY <4>1, UpPlus
      <4> QED BY <3>2, <4>1, <4>2, UpNothing
    <3>4. AtDistance(qx, a, q, j) = {}
      BY <3>3, WitnessVotesAssumption DEF AtDistance
    <3> QED BY <3>4, FS_EmptySet, SumOverUnfold DEF Reached
  <2> HIDE DEF pr1, pr2
  <2> QED BY <2>2, <2>4, <2>5, <2>6, <2>8, <2>9, <2>10
<1>5. pr1 \in [Account -> [Level -> Int]] /\ pr2 \in [Account -> [Level -> Int]]
  <2>1. pr1 = [q \in Account |-> [j \in Level |-> pr1[q][j]]]
    BY DEF AddUp
  <2>2. pr2 = [q \in Account |-> [j \in Level |-> pr2[q][j]]]
    BY DEF AddUp
  <2> HIDE DEF pr1, pr2
  <2> QED BY <1>4, <2>1, <2>2
<1> HIDE DEF pr1, pr2
<1>6. Sums(qx, sh, pr2) /\ (p = NoProxy => Sums(qx, sh, pr1))
  BY <1>4, <1>5 DEF Sums
<1> QED
  BY <1>6 DEF pr1, pr2

\* A change of one account's shares in a sum.
LEMMA SumOverChange ==
    ASSUME NEW S, IsFiniteSet(S), NEW f, \A x \in S : f[x] \in Int,
           NEW g, NEW a, NEW v \in Int, \A x \in S : x # a => g[x] = f[x],
           a \in S => g[a] = f[a] + v
    PROVE  /\ a \in S => SumOver(g, S) = SumOver(f, S) + v
           /\ a \notin S => SumOver(g, S) = SumOver(f, S)
<1>1. CASE a \notin S
  <2>1. SumOver(g, S) = SumOver(f, S)
    BY <1>1, SumOverSame
  <2> QED BY <1>1, <2>1, SumOverType
<1>2. CASE a \in S
  <2>1. IsFiniteSet(S \ {a}) /\ \A x \in S : g[x] \in Int
    BY <1>2, FS_RemoveElement
  <2>2. SumOver(g, S \ {a}) = SumOver(f, S \ {a}) /\ SumOver(f, S \ {a}) \in Int
    BY <2>1, SumOverSame, SumOverType
  <2>3. SumOver(g, S) = g[a] + SumOver(g, S \ {a})
    BY <1>2, <2>1, SumOverRemove
  <2>4. SumOver(f, S) = f[a] + SumOver(f, S \ {a})
    BY <1>2, SumOverRemove
  <2>5. g[a] = f[a] + v /\ f[a] \in Int
    BY <1>2
  <2> QED BY <1>2, <2>2, <2>3, <2>4, <2>5
<1> QED
  BY <1>1, <1>2

(***************************************************************************)
(* adjust_proxied_witness_votes for a change of the account's own shares:  *)
(* it reaches the account i + 1 proxies above at level i.                  *)
(***************************************************************************)
LEMMA SharesChange ==
    ASSUME NEW px \in Proxies, NEW a \in Account, NEW v \in Int,
           NEW sh \in [Account -> Int], NEW pr, Sums(px, sh, pr),
           NEW s2 \in [Account -> Int],
           \A x \in Account : s2[x] = IF x = a THEN sh[x] + v ELSE sh[x]
    PROVE  Sums(px, s2, AddUp(px, pr, a, Own(v)))
<1>0. Own(v) \in [0..MaxDepth -> Int] /\ Level \subseteq Nat
  BY WitnessVotesAssumption DEF Own, Level
<1> DEFINE pr1 == AddUp(px, pr, a, Own(v))
<1>1. ASSUME NEW q \in Account, NEW j \in Level
      PROVE  pr1[q][j] = SumOver(s2, Below(px, q, j)) /\ pr1[q][j] \in Int
  <2> DEFINE D == AtDistance(px, a, q, j)
             f == [d \in 0..j |-> Own(v)[j - d]]
  <2>0. j \in Nat /\ IsFiniteSet(D) /\ D \subseteq 0..j /\ j <= MaxDepth
    <3>1. j \in Nat /\ j <= MaxDepth
      BY WitnessVotesAssumption DEF Level
    <3>2. IsFiniteSet(AtDistance(px, a, q, j))
      BY <3>1, FiniteParts
    <3> QED BY <3>1, <3>2 DEF AtDistance
  <2>1. \A d \in 0..j : f[d] = IF d = j THEN v ELSE 0
    BY <2>0, WitnessVotesAssumption DEF Own
  <2>2. SumOver(f, D) = IF Up(px, a, j + 1) = q THEN v ELSE 0
    <3>1. j \in D <=> Up(px, a, j + 1) = q
      BY <2>0 DEF AtDistance
    <3> DEFINE z == [d \in 0..j |-> 0]
    <3>2. \A d \in D : z[d] = 0 /\ (d # j => f[d] = z[d]) /\ (d = j => f[d] = v)
      BY <2>0, <2>1
    <3> HIDE DEF D, f, z
    <3>3. SumOver(z, D) = 0
      BY <2>0, <3>2, SumOverZero
    <3>4. \A d \in D : z[d] \in Int
      BY <3>2
    <3>5. (j \in D => f[j] = z[j] + v) /\ \A d \in D : d # j => f[d] = z[d]
      BY <3>2
    <3>6. /\ j \in D => SumOver(f, D) = SumOver(z, D) + v
          /\ j \notin D => SumOver(f, D) = SumOver(z, D)
      BY <2>0, <3>4, <3>5, SumOverChange
    <3> QED BY <3>1, <3>3, <3>6
  <2>3. a \in Below(px, q, j) <=> Up(px, a, j + 1) = q
    BY DEF Below
  <2>4. IsFiniteSet(Below(px, q, j)) /\ \A x \in Below(px, q, j) : x \in Account
    BY FiniteParts DEF Below
  <2>5. /\ a \in Below(px, q, j) =>
              SumOver(s2, Below(px, q, j)) = SumOver(sh, Below(px, q, j)) + v
        /\ a \notin Below(px, q, j) =>
              SumOver(s2, Below(px, q, j)) = SumOver(sh, Below(px, q, j))
    BY <2>4, SumOverChange
  <2>6. pr1[q][j] = pr[q][j] + SumOver(f, D)
    BY DEF AddUp, Reached
  <2>7. pr[q][j] = SumOver(sh, Below(px, q, j)) /\ pr[q][j] \in Int
    BY DEF Sums
  <2> HIDE DEF D, f, pr1
  <2> QED BY <2>2, <2>3, <2>5, <2>6, <2>7
<1>2. pr1 = [q \in Account |-> [j \in Level |-> pr1[q][j]]]
  BY DEF AddUp
<1> HIDE DEF pr1
<1>3. Sums(px, s2, pr1)
  BY <1>1, <1>2 DEF Sums
<1> QED
  BY <1>3 DEF pr1

-----------------------------------------------------------------------------
(***************************************************************************)
(* The invariant of the proxied shares.                                    *)
(***************************************************************************)
SumsInv ==
    /\ ProxyInv
    /\ shares \in [Account -> Int]
    /\ Sums(proxy, shares, proxied)

\* Whole(a, 1) is all that a stands for, Whole(a, -1) its opposite.
LEMMA WholeIs ==
    ASSUME SumsInv, NEW a \in Account
    PROVE  /\ AllOf(proxy, shares, a, Whole(a, 1))
           /\ \A i \in 0..MaxDepth : Whole(a, -1)[i] = -(Whole(a, 1)[i])
<1>1. shares[a] \in Int /\ \A i \in Level : proxied[a][i] \in Int
  BY DEF SumsInv, Sums
<1>2. /\ Level = 0..(MaxDepth - 1) /\ MaxDepth \in Nat
      /\ \A i \in 0..MaxDepth : i # 0 => i - 1 \in Level
      /\ \A i \in Level : i + 1 \in 0..MaxDepth /\ i + 1 # 0 /\ (i + 1) - 1 = i
  BY WitnessVotesAssumption DEF Level
<1>3. \A i \in 0..MaxDepth :
          /\ Whole(a, 1)[i] = IF i = 0 THEN shares[a] ELSE proxied[a][i - 1]
          /\ Whole(a, -1)[i] = -(IF i = 0 THEN shares[a] ELSE proxied[a][i - 1])
          /\ (IF i = 0 THEN shares[a] ELSE proxied[a][i - 1]) \in Int
  BY <1>1, <1>2 DEF Whole
<1>4. Whole(a, 1) \in [0..MaxDepth -> Int]
  BY <1>3 DEF Whole
<1>5. \A i \in Level : Whole(a, 1)[i + 1] = SumOver(shares, Below(proxy, a, i))
  <2> TAKE i \in Level
  <2>1. Whole(a, 1)[i + 1] = proxied[a][i]
    BY <1>2, <1>3
  <2> QED BY <2>1 DEF SumsInv, Sums
<1>6. Whole(a, 1)[0] = shares[a]
  BY <1>2, <1>3
<1> QED
  BY <1>3, <1>4, <1>5, <1>6 DEF AllOf

\* Nobody has shares or a proxy in the beginning.
LEMMA SumsInvInit == ASSUME Init, ProxyInv PROVE SumsInv
<1>1. shares \in [Account -> Int] /\ \A a \in Account : shares[a] = 0
  BY DEF Init
<1>2. proxied \in [Account -> [Level -> Int]]
      /\ \A a \in Account, i \in Level : proxied[a][i] = 0
  BY DEF Init
<1>3. \A p \in Account, i \in Level : SumOver(shares, Below(proxy, p, i)) = 0
  <2> TAKE p \in Account, i \in Level
  <2>1. IsFiniteSet(Below(proxy, p, i)) /\ \A x \in Below(proxy, p, i) : shares[x] = 0
    BY <1>1, FiniteParts DEF Below
  <2> QED BY <2>1, SumOverZero
<1> QED
  BY <1>1, <1>2, <1>3 DEF SumsInv, Sums

\* The tally of a state is one, and a step's new tally is the next state's.
LEMMA TallyIs ==
    /\ IsTally(tally) /\ tally.proxied = proxied
    /\ \A t : SetTally(t) => proxied' = t.proxied
BY DEF IsTally, tally, SetTally

\* account_witness_proxy_evaluator with a proxy: taken from the old chain and
\* given to the new one.
LEMMA SetProxySums ==
    ASSUME SumsInv, ProxyInv', NEW a \in Account, NEW p \in Account, SetProxy(a, p)
    PROVE  SumsInv'
<1> DEFINE minus == Whole(a, -1)
           plus == Whole(a, 1)
           t1 == adjust_proxied_witness_votes(tally, proxy, votedFor, a, minus)
           vf == [votedFor EXCEPT ![a] = {}]
           px == [proxy EXCEPT ![a] = p]
           t2 == [t1 EXCEPT !.weight[a] = 0]
           t3 == adjust_proxied_witness_votes(t2, px, vf, a, plus)
<1>1. SetTally(t3) /\ proxy' = px /\ shares' = shares
  BY DEF SetProxy
<1>2. IsTally(t1) /\ t1.proxied = AddUp(proxy, proxied, a, minus)
  BY AdjustIs, TallyIs
<1>3. IsTally(t2) /\ t2.proxied = t1.proxied
  <2> HIDE DEF t1
  <2> QED BY <1>2 DEF IsTally
<1>4. t3.proxied = AddUp(px, t2.proxied, a, plus)
  <2> HIDE DEF t2, px, vf, plus
  <2> QED BY <1>3, AdjustIs
<1>5. proxied' = AddUp(px, AddUp(proxy, proxied, a, minus), a, plus)
  <2> HIDE DEF t1, t2, t3, px, vf, plus, minus
  <2> QED BY <1>1, <1>2, <1>3, <1>4, TallyIs
<1>6. AllOf(proxy, shares, a, plus) /\ \A i \in 0..MaxDepth : minus[i] = -plus[i]
  BY WholeIs
<1>7. /\ proxy \in Proxies /\ NoLoops(proxy) /\ Sums(proxy, shares, proxied)
      /\ shares \in [Account -> Int]
  BY DEF SumsInv, ProxyInv
<1>8. NoLoops(px)
  BY <1>1 DEF ProxyInv, NoLoops
<1>9. Sums(px, shares, AddUp(px, AddUp(proxy, proxied, a, minus), a, plus))
  <2> HIDE DEF minus, plus
  <2> QED BY <1>6, <1>7, <1>8, ProxyMoves
<1>10. Sums(proxy', shares', proxied')
  <2> HIDE DEF minus, plus, px
  <2> QED BY <1>1, <1>5, <1>9
<1> QED
  BY <1>1, <1>7, <1>10 DEF SumsInv, Sums, Below

\* A proxy that is cleared, by account_witness_proxy_evaluator or by the first
\* half of account_witness_vote_evaluator: only taken from the old chain.
LEMMA ClearedSums ==
    ASSUME SumsInv, ProxyInv', NEW a \in Account,
           proxy' = [proxy EXCEPT ![a] = NoProxy], shares' = shares,
           proxied' = AddUp(proxy, proxied, a, Whole(a, -1))
    PROVE  SumsInv'
<1> DEFINE minus == Whole(a, -1)
           plus == Whole(a, 1)
           px == [proxy EXCEPT ![a] = NoProxy]
<1>1. AllOf(proxy, shares, a, plus) /\ \A i \in 0..MaxDepth : minus[i] = -plus[i]
  BY WholeIs
<1>2. /\ proxy \in Proxies /\ NoLoops(proxy) /\ Sums(proxy, shares, proxied)
      /\ shares \in [Account -> Int]
  BY DEF SumsInv, ProxyInv
<1>3. NoLoops(px)
  BY DEF ProxyInv, NoLoops
<1>4. Sums(px, shares, AddUp(proxy, proxied, a, minus))
  <2> HIDE DEF minus, plus
  <2> QED BY <1>1, <1>2, <1>3, ProxyMoves
<1>5. Sums(proxy', shares', proxied')
  <2> HIDE DEF plus
  <2> QED BY <1>4
<1> HIDE DEF px, minus, plus
<1> QED
  BY <1>2, <1>5 DEF SumsInv, Sums, Below

\* account_witness_vote_evaluator: a vote clears the proxy and leaves what was
\* proxied to the account alone.
LEMMA VoteSums ==
    ASSUME SumsInv, ProxyInv', NEW a \in Account, NEW new, Vote(a, new)
    PROVE  SumsInv'
<1> DEFINE t1 == IF proxy[a] = NoProxy THEN tally
                 ELSE adjust_proxied_witness_votes(tally, proxy, votedFor, a,
                                                   Whole(a, -1))
           t2 == Revote(t1, a, votedFor[a], new)
<1>1. SetTally(t2) /\ proxy' = [proxy EXCEPT ![a] = NoProxy] /\ shares' = shares
  BY DEF Vote
<1>2. /\ proxy[a] = NoProxy => t1.proxied = proxied
      /\ proxy[a] # NoProxy => t1.proxied = AddUp(proxy, proxied, a, Whole(a, -1))
      /\ IsTally(t1)
  BY AdjustIs, TallyIs
<1>3. t2.proxied = t1.proxied
  <2> HIDE DEF t1
  <2> QED BY <1>2 DEF IsTally, Revote
<1>4. proxied' = t1.proxied
  <2> HIDE DEF t1, t2
  <2> QED BY <1>1, <1>3, TallyIs
<1>5. CASE proxy[a] # NoProxy
  <2> HIDE DEF t1, t2
  <2> QED BY <1>1, <1>2, <1>4, <1>5, ClearedSums
<1>6. CASE proxy[a] = NoProxy
  <2>1. proxy' = proxy
    BY <1>1, <1>6 DEF SumsInv, ProxyInv, Proxies
  <2>2. proxied' = proxied
    <3> HIDE DEF t1, t2
    <3> QED BY <1>2, <1>4, <1>6
  <2> QED BY <1>1, <2>1, <2>2 DEF SumsInv, Sums, Below
<1> QED
  BY <1>5, <1>6

\* create_vesting, process_vesting_withdrawals: shares of one account change.
LEMMA DepositSums ==
    ASSUME SumsInv, ProxyInv', NEW a \in Account, NEW v \in Int, proxy' = proxy,
           shares' = [shares EXCEPT ![a] = @ + v],
           proxied' = AddUp(proxy, proxied, a, Own(v))
    PROVE  SumsInv'
<1>1. /\ proxy \in Proxies /\ Sums(proxy, shares, proxied)
      /\ shares \in [Account -> Int]
  BY DEF SumsInv, ProxyInv
<1>2. /\ shares' \in [Account -> Int]
      /\ \A x \in Account : shares'[x] = IF x = a THEN shares[x] + v ELSE shares[x]
  BY <1>1
<1>3. PICK s2 : s2 = shares'
  OBVIOUS
<1>4. Sums(proxy, s2, AddUp(proxy, proxied, a, Own(v)))
  BY <1>1, <1>2, <1>3, SharesChange
<1>5. Sums(proxy', shares', proxied')
  BY <1>3, <1>4
<1>6. Sums(proxy, shares, proxied)'
  BY <1>5, Zenon DEF Sums, Below
<1> QED
  BY <1>2, <1>6 DEF SumsInv

\* A withdrawal along a route: credited to one account, then taken from another.
LEMMA RouteSums ==
    ASSUME SumsInv, ProxyInv', NEW a \in Account, NEW b \in Account, NEW x \in Amount,
           WithdrawTo(a, b, x)
    PROVE  SumsInv'
<1> DEFINE sh == [shares EXCEPT ![b] = @ + x]
           t1 == Routed(b, x)
           t2 == adjust_proxied_witness_votes(t1, proxy, votedFor, a, Own(-x))
<1>1. SetTally(t2) /\ proxy' = proxy /\ shares' = [sh EXCEPT ![a] = @ - x]
  BY DEF WithdrawTo
<1>2. IsTally(t1) /\ t1.proxied = AddUp(proxy, proxied, b, Own(x))
  BY AdjustIs, TallyIs DEF Routed
<1>3. t2.proxied = AddUp(proxy, t1.proxied, a, Own(-x))
  <2> HIDE DEF t1
  <2> QED BY <1>2, AdjustIs
<1>4. proxied' = AddUp(proxy, AddUp(proxy, proxied, b, Own(x)), a, Own(-x))
  <2> HIDE DEF t1, t2
  <2> QED BY <1>1, <1>2, <1>3, TallyIs
<1>5. /\ proxy \in Proxies /\ Sums(proxy, shares, proxied)
      /\ shares \in [Account -> Int] /\ x \in Int /\ -x \in Int
  BY WitnessVotesAssumption DEF SumsInv, ProxyInv
<1>6. /\ sh \in [Account -> Int]
      /\ \A y \in Account : sh[y] = IF y = b THEN shares[y] + x ELSE shares[y]
  BY <1>5
<1>7. /\ shares' \in [Account -> Int]
      /\ \A y \in Account : shares'[y] = IF y = a THEN sh[y] + (-x) ELSE sh[y]
  <2> HIDE DEF sh
  <2> QED BY <1>1, <1>5, <1>6
<1>8. Sums(proxy, sh, AddUp(proxy, proxied, b, Own(x)))
  <2> HIDE DEF sh
  <2> QED BY <1>5, <1>6, SharesChange
<1>9. PICK s2, v : s2 = shares' /\ v = -x
  OBVIOUS
<1>10. Sums(proxy, s2, AddUp(proxy, AddUp(proxy, proxied, b, Own(x)), a, Own(v)))
  <2>1. v \in Int /\ s2 \in [Account -> Int]
        /\ \A y \in Account : s2[y] = IF y = a THEN sh[y] + v ELSE sh[y]
    <3> HIDE DEF sh
    <3> QED BY <1>5, <1>7, <1>9
  <2> HIDE DEF sh
  <2> QED BY <1>5, <1>6, <1>8, <2>1, SharesChange
<1> HIDE DEF sh, t1, t2
<1>11. Sums(proxy', shares', proxied')
  <2>1. proxied' = AddUp(proxy, AddUp(proxy, proxied, b, Own(x)), a, Own(v))
    BY <1>4, <1>9, Zenon
  <2> QED BY <1>1, <1>9, <1>10, <2>1, Zenon
<1>12. Sums(proxy, shares, proxied)'
  BY <1>11, Zenon DEF Sums, Below
<1> QED
  BY <1>7, <1>12 DEF SumsInv

\* The invariant about the proxied shares holds throughout.
LEMMA SumsInvHolds == Spec => []SumsInv
<1>1. Init /\ ProxyInv => SumsInv
  BY SumsInvInit
<1>2. SumsInv /\ ProxyInv' /\ [Next]_vars => SumsInv'
  <2> SUFFICES ASSUME SumsInv, ProxyInv', [Next]_vars PROVE SumsInv'
    OBVIOUS
  <2>1. ASSUME NEW a \in Account, ClearProxy(a) PROVE SumsInv'
    <3>1. proxied' = AddUp(proxy, proxied, a, Whole(a, -1))
      BY <2>1, AdjustIs, TallyIs DEF ClearProxy
    <3> QED BY <2>1, <3>1, ClearedSums DEF ClearProxy
  <2>2. ASSUME NEW a \in Account, NEW x \in Amount, Deposit(a, x) PROVE SumsInv'
    <3>1. proxied' = AddUp(proxy, proxied, a, Own(x)) /\ x \in Int
      BY <2>2, AdjustIs, TallyIs, WitnessVotesAssumption DEF Deposit
    <3> QED BY <2>2, <3>1, DepositSums DEF Deposit
  <2>3. ASSUME NEW a \in Account, NEW x \in Amount, Withdraw(a, x) PROVE SumsInv'
    <3>1. /\ proxied' = AddUp(proxy, proxied, a, Own(-x)) /\ -x \in Int
          /\ shares' = [shares EXCEPT ![a] = @ - x] /\ proxy' = proxy
      BY <2>3, AdjustIs, TallyIs, WitnessVotesAssumption DEF Withdraw
    <3>2. shares' = [shares EXCEPT ![a] = @ + (-x)]
      <4>1. shares[a] \in Int /\ x \in Int
        BY WitnessVotesAssumption DEF SumsInv
      <4> QED BY <3>1, <4>1
    <3>3. PICK v \in Int : v = -x
      BY <3>1
    <3>4. shares' = [shares EXCEPT ![a] = @ + v] /\ proxied' = AddUp(proxy, proxied, a, Own(v))
      BY <3>1, <3>2, <3>3
    <3> QED BY <3>1, <3>4, DepositSums
  <2>4. ASSUME NEW a \in Account, NEW w \in Witness, Approve(a, w) \/ Reject(a, w)
        PROVE  SumsInv'
    <3>1. \E new : Vote(a, new)
      BY <2>4 DEF Approve, Reject
    <3> QED BY <3>1, VoteSums
  <2>5. CASE UNCHANGED vars
    BY <2>5 DEF vars, SumsInv, Sums, Below
  <2> QED BY <2>1, <2>2, <2>3, <2>4, <2>5, SetProxySums, RouteSums DEF Next
<1> QED
  BY <1>1, <1>2, ProxyInvHolds, PTL DEF Spec

(***************************************************************************)
(* account_object.hpp: proxied_vsf_votes is "the total VFS votes proxied   *)
(* to this account".  For any number of accounts, any depth and any order  *)
(* of operations, level i of an account is exactly the sum of the shares   *)
(* of the accounts i + 1 proxies below it: no difference that was passed   *)
(* up the chain is lost or counted twice.                                  *)
(***************************************************************************)
THEOREM ProxiedSharesExact == Spec => []ProxiedIsBelow
<1>1. SumsInv => ProxiedIsBelow
  BY SumOfIs DEF SumsInv, Sums, Below, ProxiedIsBelow
<1> QED
  BY <1>1, SumsInvHolds, PTL

-----------------------------------------------------------------------------
(***************************************************************************)
(* The weights of the voters.  A difference is divided by the number of    *)
(* votes and the quotient truncated, for any amounts.                      *)
(***************************************************************************)
\* account_object::witness_vote_weight, of given shares and proxied shares.
Inf(sh, pr, b) == sh[b] + SumOver(pr[b], Level)

ReachedBy(px, a, delta, b) == [j \in Level |-> Reached(px, a, delta, b, j)]

(***************************************************************************)
(* An account k proxies above a gets, over all levels, what a passes up of *)
(* its first MaxDepth - k levels: as much as adjust_witness_votes is told. *)
(***************************************************************************)
LEMMA ReachedAll ==
    ASSUME NEW px \in Proxies, NoLoops(px), NEW a \in Account, NEW b \in Account,
           NEW delta \in [0..MaxDepth -> Int]
    PROVE  /\ \A k \in 1..MaxDepth : Up(px, a, k) = b =>
                 SumOver(ReachedBy(px, a, delta, b), Level)
                   = SumOver(delta, 0..(MaxDepth - k))
           /\ (\A k \in 1..MaxDepth : Up(px, a, k) # b) =>
                 SumOver(ReachedBy(px, a, delta, b), Level) = 0
<1> DEFINE R == ReachedBy(px, a, delta, b)
<1>0. /\ MaxDepth \in Nat \ {0} /\ Level = 0..(MaxDepth - 1)
      /\ IsFiniteSet(Level) /\ \A j \in Level : j \in Nat
  BY FS_Interval, WitnessVotesAssumption DEF Level
<1>1. \A j \in Level : R[j] = Reached(px, a, delta, b, j) /\ R[j] \in Int
  BY ReachedType DEF ReachedBy
<1>2. ASSUME NEW j \in Level, AtDistance(px, a, b, j) = {} PROVE R[j] = 0
  BY <1>1, <1>2, FS_EmptySet, SumOverUnfold DEF Reached
<1>3. ASSUME \A k \in 1..MaxDepth : Up(px, a, k) # b PROVE SumOver(R, Level) = 0
  <2>1. \A j \in Level : AtDistance(px, a, b, j) = {}
    <3> SUFFICES ASSUME NEW j \in Level, NEW d \in AtDistance(px, a, b, j) PROVE FALSE
      OBVIOUS
    <3>1. d + 1 \in 1..MaxDepth /\ Up(px, a, d + 1) = b
      BY <1>0 DEF AtDistance
    <3> QED BY <1>3, <3>1
  <2>2. \A j \in Level : R[j] = 0
    BY <1>2, <2>1
  <2> QED BY <1>0, <2>2, SumOverZero
<1>4. ASSUME NEW k \in 1..MaxDepth, Up(px, a, k) = b
      PROVE  SumOver(R, Level) = SumOver(delta, 0..(MaxDepth - k))
  <2> DEFINE c == k - 1
             n == MaxDepth - k
  <2>0. /\ c \in Nat /\ n \in Nat /\ c + 1 = k /\ c + n = MaxDepth - 1
        /\ Level = (0..(c - 1)) \cup (c..(c + n)) /\ (0..(c - 1)) \cap (c..(c + n)) = {}
        /\ k \in Nat /\ n <= MaxDepth
    BY <1>0
  <2>1. ASSUME NEW j \in Level, NEW d \in AtDistance(px, a, b, j) PROVE d = c
    <3>1. d \in Nat /\ d + 1 \in Nat /\ Up(px, a, d + 1) = b
      BY <1>0 DEF AtDistance
    <3>2. d + 1 = k
      BY <1>4, <2>0, <3>1, OneDistance
    <3> QED BY <3>1, <3>2
  <2>2. ASSUME NEW j \in 0..(c - 1) PROVE R[j] = 0
    <3>1. j \in Level /\ j < c
      BY <2>0
    <3>2. AtDistance(px, a, b, j) = {}
      <4> SUFFICES ASSUME NEW d \in AtDistance(px, a, b, j) PROVE FALSE
        OBVIOUS
      <4>1. d = c /\ d <= j /\ j \in Nat
        BY <1>0, <2>1, <3>1 DEF AtDistance
      <4> QED BY <2>0, <3>1, <4>1
    <3> QED BY <1>2, <3>1, <3>2
  <2>3. ASSUME NEW i \in 0..n PROVE R[c + i] = delta[i] /\ delta[i] \in Int
    <3>1. c + i \in Level /\ c \in 0..(c + i) /\ (c + i) - c = i /\ i \in 0..MaxDepth
      BY <1>0, <2>0
    <3>2. AtDistance(px, a, b, c + i) = {c}
      <4>1. c \in AtDistance(px, a, b, c + i)
        BY <1>4, <2>0, <3>1 DEF AtDistance
      <4> QED BY <2>1, <3>1, <4>1
    <3> DEFINE f == [d \in 0..(c + i) |-> delta[(c + i) - d]]
    <3>3. f[c] = delta[i] /\ f[c] \in Int
      BY <3>1
    <3>4. R[c + i] = SumOver(f, {c})
      BY <1>1, <3>1, <3>2 DEF Reached
    <3> HIDE DEF f, c, R
    <3> QED BY <3>3, <3>4, SumOverOne
  <2> HIDE DEF c, n, R
  <2>4. SumOver(R, 0..(c - 1)) = 0 /\ IsFiniteSet(0..(c - 1)) /\ IsFiniteSet(c..(c + n))
    <3>0. 0 \in Int /\ c \in Int /\ c - 1 \in Int /\ c + n \in Int
      BY <2>0
    <3>1. IsFiniteSet(0..(c - 1)) /\ IsFiniteSet(c..(c + n))
      BY <3>0, FS_Interval
    <3> QED BY <2>2, <3>1, SumOverZero
  <2>5. SumOver(R, c..(c + n)) = SumOver(delta, 0..n)
    <3>1. c \in Nat /\ n \in Nat /\ \A i \in 0..n : delta[i] \in Int /\ R[c + i] = delta[i]
      BY <2>0, <2>3
    <3> QED BY <3>1, SumOverShift, ZenonT(60)
  <2>6. SumOver(R, Level) = SumOver(R, 0..(c - 1)) + SumOver(R, c..(c + n))
    BY <1>1, <2>0, <2>4, SumOverUnion
  <2>7. SumOver(delta, 0..n) \in Int
    <3>1. IsFiniteSet(0..n) /\ \A i \in 0..n : delta[i] \in Int
      BY <2>0, <2>3, FS_Interval
    <3> QED BY <3>1, SumOverType
  <2>8. SumOver(R, Level) = SumOver(delta, 0..n)
    BY <2>4, <2>5, <2>6, <2>7
  <2> QED BY <2>8 DEF n
<1> HIDE DEF R
<1>5. R = ReachedBy(px, a, delta, b)
  BY DEF R
<1> QED
  BY <1>3, <1>4, <1>5

\* The influence of b when pr2 is pr with delta passed up from a.
InfMoves(px, a, delta, b, sh, pr, pr2) ==
    /\ Inf(sh, pr, b) \in Int
    /\ \A k \in 1..MaxDepth : Up(px, a, k) = b =>
          Inf(sh, pr2, b) = Inf(sh, pr, b) + SumOver(delta, 0..(MaxDepth - k))
    /\ (\A k \in 1..MaxDepth : Up(px, a, k) # b) => Inf(sh, pr2, b) = Inf(sh, pr, b)

\* What reaches an account changes its influence by the first MaxDepth - k levels.
LEMMA InfAddUp ==
    ASSUME NEW px \in Proxies, NoLoops(px), NEW a \in Account, NEW b \in Account,
           NEW delta \in [0..MaxDepth -> Int], NEW sh \in [Account -> Int],
           NEW pr \in [Account -> [Level -> Int]]
    PROVE  InfMoves(px, a, delta, b, sh, pr, AddUp(px, pr, a, delta))
<1> DEFINE R == ReachedBy(px, a, delta, b)
           P == AddUp(px, pr, a, delta)[b]
<1>0. IsFiniteSet(Level)
  BY FS_Interval, WitnessVotesAssumption DEF Level
<1>1. \A j \in Level : /\ pr[b][j] \in Int /\ R[j] \in Int
                       /\ P[j] = pr[b][j] + R[j]
  BY ReachedType DEF ReachedBy, AddUp
<1>2. SumOver(R, Level) \in Int /\ SumOver(pr[b], Level) \in Int
  <2> HIDE DEF R, P
  <2> QED BY <1>0, <1>1, SumOverType
<1>3. SumOver(P, Level) = SumOver(pr[b], Level) + SumOver(R, Level)
  <2> HIDE DEF R, P
  <2> QED BY <1>0, <1>1, SumOverPlus
<1>4. /\ \A k \in 1..MaxDepth : Up(px, a, k) = b =>
            SumOver(R, Level) = SumOver(delta, 0..(MaxDepth - k))
      /\ (\A k \in 1..MaxDepth : Up(px, a, k) # b) => SumOver(R, Level) = 0
  BY ReachedAll
<1>5. Inf(sh, AddUp(px, pr, a, delta), b) = sh[b] + SumOver(P, Level)
  BY DEF Inf
<1> HIDE DEF R, P
<1>6. Inf(sh, pr, b) = sh[b] + SumOver(pr[b], Level) /\ sh[b] \in Int
  BY DEF Inf
<1>7. PICK v : v = Inf(sh, AddUp(px, pr, a, delta), b)
  OBVIOUS
<1>8. Inf(sh, pr, b) \in Int /\ v = Inf(sh, pr, b) + SumOver(R, Level)
  BY <1>2, <1>3, <1>5, <1>6, <1>7
<1>9. ASSUME NEW k \in 1..MaxDepth, Up(px, a, k) = b
      PROVE  v = Inf(sh, pr, b) + SumOver(delta, 0..(MaxDepth - k))
  BY <1>4, <1>8, <1>9
<1>10. ASSUME \A k \in 1..MaxDepth : Up(px, a, k) # b
       PROVE  v = Inf(sh, pr, b)
  <2>1. SumOver(R, Level) = 0
    BY <1>4, <1>10
  <2> QED BY <1>8, <2>1
<1> QED
  BY <1>7, <1>8, <1>9, <1>10 DEF InfMoves

\* The witness_vote_objects: sets of witnesses, not more than allowed.
VoteTypes(vf) ==
    /\ vf \in [Account -> SUBSET Witness]
    /\ \A b \in Account : Cardinality(vf[b]) <= MaxVotes

\* The number of an account's votes.
LEMMA CountOfVotes ==
    ASSUME NEW vf, VoteTypes(vf), NEW b \in Account, vf[b] # {}
    PROVE  Cardinality(vf[b]) \in 1..MaxVotes
<1>1. IsFiniteSet(vf[b])
  BY FS_Subset, WitnessVotesAssumption DEF VoteTypes
<1>2. Cardinality(vf[b]) \in Nat /\ Cardinality(vf[b]) # 0
  BY <1>1, FS_CardinalityType, FS_EmptySet
<1> QED
  BY <1>2, WitnessVotesAssumption DEF VoteTypes

\* There are finitely many levels.
LEMMA LevelFinite == IsFiniteSet(Level)
BY FS_Interval, WitnessVotesAssumption DEF Level

\* Accounts that vote have no proxy.
VotersAtEnd(px, vf) == \A b \in Account : vf[b] # {} => px[b] = NoProxy

(***************************************************************************)
(* Division loses less than the divisor, on the side of zero.              *)
(***************************************************************************)
LEMMA DividedNear ==
    ASSUME NEW x \in Int, NEW n \in Nat \ {0}
    PROVE  /\ Divided(x, n) \in Int
           /\ x >= 0 => 0 <= x - n * Divided(x, n) /\ x - n * Divided(x, n) < n
           /\ x <= 0 => -n < x - n * Divided(x, n) /\ x - n * Divided(x, n) <= 0
<1>1. CASE x >= 0
  <2>1. PICK q : q = x \div n
    OBVIOUS
  <2>2. q \in Int /\ n * q <= x /\ x < n * q + n
    BY <2>1
  <2>3. Divided(x, n) = q
    BY <1>1, <2>1 DEF Divided
  <2>4. n * q \in Int
    BY <2>2
  <2>5. x = 0 => n * q = 0
    BY <2>1, <2>2
  <2> QED BY <1>1, <2>2, <2>3, <2>4, <2>5
<1>2. CASE x < 0
  <2>1. PICK q : q = (-x) \div n
    OBVIOUS
  <2>2. q \in Int /\ n * q <= -x /\ -x < n * q + n
    BY <2>1
  <2>3. Divided(x, n) = -q
    BY <1>2, <2>1 DEF Divided
  <2>4. n * q \in Int /\ n * (-q) = -(n * q)
    BY <2>2
  <2> QED BY <1>2, <2>2, <2>3, <2>4
<1> QED
  BY <1>1, <1>2

(***************************************************************************)
(* adjust_witness_votes changes the weight of a voter by the truncated     *)
(* part of what it is told, and no other weight.                           *)
(***************************************************************************)
LEMMA EndWeight ==
    ASSUME NEW vf, VoteTypes(vf), NEW t, IsTally(t), t.weight \in [Account -> Int],
           NEW e \in Account, NEW x \in Int
    PROVE  LET t2 == adjust_witness_votes(t, vf, e, x)
           IN  /\ t2.weight \in [Account -> Int]
               /\ \A b \in Account : vf[b] # {} =>
                     t2.weight[b] = IF b = e THEN t.weight[b] + Divided(x, Cardinality(vf[b]))
                                    ELSE t.weight[b]
<1> DEFINE t2 == adjust_witness_votes(t, vf, e, x)
<1>1. CASE vf[e] = {}
  <2>1. t2 = t
    BY <1>1 DEF adjust_witness_votes
  <2> HIDE DEF t2
  <2>2. /\ t2.weight \in [Account -> Int]
        /\ \A b \in Account : vf[b] # {} =>
              t2.weight[b] = IF b = e THEN t.weight[b] + Divided(x, Cardinality(vf[b]))
                             ELSE t.weight[b]
    BY <1>1, <2>1
  <2> QED BY <2>2 DEF t2
<1>2. CASE vf[e] # {}
  <2>1. PICK n \in 1..MaxVotes : n = Cardinality(vf[e])
    BY <1>2, CountOfVotes
  <2>2. PICK m : m = Divided(x, n)
    OBVIOUS
  <2>3. m \in Int
    <3>1. n \in Nat \ {0}
      BY WitnessVotesAssumption
    <3> QED BY <2>2, <3>1, DividedNear
  <2>4. t2.weight = [t.weight EXCEPT ![e] = @ + m]
    BY <1>2, <2>1, <2>2 DEF adjust_witness_votes, IsTally
  <2> HIDE DEF t2
  <2>5. /\ t2.weight \in [Account -> Int]
        /\ \A b \in Account : vf[b] # {} =>
              t2.weight[b] = IF b = e THEN t.weight[b] + Divided(x, Cardinality(vf[b]))
                             ELSE t.weight[b]
    BY <2>1, <2>2, <2>3, <2>4
  <2> QED BY <2>5 DEF t2
<1> QED
  BY <1>1, <1>2

\* A weight, of b with n votes, that changes the way delta is passed up from a.
WeightMoves(px, n, a, delta, b, w1, w2) ==
    /\ \A k \in 0..MaxDepth : Up(px, a, k) = b =>
          w2 = w1 + Divided(SumOver(delta, 0..(MaxDepth - k)), n)
    /\ (\A k \in 0..MaxDepth : Up(px, a, k) # b) => w2 = w1

(***************************************************************************)
(* adjust_proxied_witness_votes: the account k above a, for k up to        *)
(* MaxDepth, that votes.                                                   *)
(***************************************************************************)
LEMMA AdjustWeight ==
    ASSUME NEW px \in Proxies, NEW vf, VoteTypes(vf),
           NEW t, IsTally(t), t.weight \in [Account -> Int], NEW a \in Account,
           NEW delta \in [0..MaxDepth -> Int]
    PROVE  LET t2 == adjust_proxied_witness_votes(t, px, vf, a, delta)
           IN  /\ t2.weight \in [Account -> Int]
               /\ \A b \in Account : vf[b] # {} /\ px[b] = NoProxy =>
                     WeightMoves(px, Cardinality(vf[b]), a, delta, b, t.weight[b], t2.weight[b])
<1> DEFINE t1 == [t EXCEPT !.proxied = AddUp(px, t.proxied, a, delta)]
           t2 == adjust_proxied_witness_votes(t, px, vf, a, delta)
           depth == {k \in 0..MaxDepth :
                        Up(px, a, k) # NoProxy /\ Up(px, a, k + 1) = NoProxy}
           last == CHOOSE k \in depth : TRUE
<1>1. IsTally(t1) /\ t1.weight = t.weight
  BY DEF IsTally
<1>2. t2 = IF depth = {} THEN t1
           ELSE adjust_witness_votes(t1, vf, Up(px, a, last),
                                     SumOver(delta, 0..(MaxDepth - last)))
  <2> DEFINE t0 == [t EXCEPT !.proxied = [p \in Account |-> [j \in Level |->
                       @[p][j] + SumOf([d \in 0..j |-> delta[j - d]],
                                       {d \in 0..j : Up(px, a, d + 1) = p})]]]
  <2>1. t0 = t1
    BY SumOfIs DEF AddUp, Reached, AtDistance
  <2>2. t2 = IF depth = {} THEN t0
             ELSE adjust_witness_votes(t0, vf, Up(px, a, last),
                                       SumOf(delta, 0..(MaxDepth - last)))
    BY Zenon DEF adjust_proxied_witness_votes
  <2> HIDE DEF t0, t1, t2, depth, last
  <2> QED BY <2>1, <2>2, SumOfIs
<1>3. ASSUME NEW b \in Account, px[b] = NoProxy, NEW k \in 0..MaxDepth, Up(px, a, k) = b
      PROVE  k \in depth
  <2>0. k \in Nat
    BY WitnessVotesAssumption
  <2>1. Up(px, a, k + 1) = Above(px, Up(px, a, k))
    BY <2>0, UpStep
  <2> QED BY <1>3, <2>1, WitnessVotesAssumption DEF Above
<1>4. CASE depth = {}
  <2>1. \A b \in Account : px[b] = NoProxy => \A k \in 0..MaxDepth : Up(px, a, k) # b
    BY <1>3, <1>4
  <2> HIDE DEF t1, t2, depth
  <2>2. t2.weight = t.weight
    BY <1>1, <1>2, <1>4
  <2>3. /\ t2.weight \in [Account -> Int]
        /\ \A b \in Account : vf[b] # {} /\ px[b] = NoProxy =>
              WeightMoves(px, Cardinality(vf[b]), a, delta, b, t.weight[b], t2.weight[b])
    BY <2>1, <2>2 DEF WeightMoves
  <2> QED BY <2>3 DEF t2
<1>5. CASE depth # {}
  <2> DEFINE e == Up(px, a, last)
             x == SumOver(delta, 0..(MaxDepth - last))
  <2>1. last \in depth
    BY <1>5
  <2>2. last \in 0..MaxDepth /\ last \in Nat /\ MaxDepth - last \in Nat /\ e # NoProxy
        /\ Up(px, a, last + 1) = NoProxy
    BY <2>1, WitnessVotesAssumption
  <2> HIDE DEF last
  <2>3. e \in Account
    BY <2>2, UpType
  <2>4. x \in Int
    <3>1. IsFiniteSet(0..(MaxDepth - last))
      <4>1. 0 \in Int /\ MaxDepth - last \in Int
        BY <2>2
      <4> QED BY <4>1, FS_Interval
    <3>2. \A i \in 0..(MaxDepth - last) : delta[i] \in Int
      <4>1. \A i \in 0..(MaxDepth - last) : i \in 0..MaxDepth
        BY <2>2, WitnessVotesAssumption
      <4> QED BY <4>1
    <3> QED BY <3>1, <3>2, SumOverType
  <2>5. ASSUME NEW b \in Account, px[b] = NoProxy, NEW k \in 0..MaxDepth, Up(px, a, k) = b
        PROVE  k = last
    <3> SUFFICES ASSUME k # last PROVE FALSE
      OBVIOUS
    <3>1. Up(px, a, k + 1) = NoProxy /\ k \in Nat
      <4>1. k \in depth
        <5> HIDE DEF depth
        <5> QED BY <1>3, <2>5
      <4> QED BY <4>1, WitnessVotesAssumption
    <3>2. ASSUME NEW i \in Nat, NEW j \in Nat, i < j, Up(px, a, i + 1) = NoProxy
          PROVE  Up(px, a, j) = NoProxy
      <4>1. i + 1 \in Nat /\ j - (i + 1) \in Nat /\ (i + 1) + (j - (i + 1)) = j
        BY <3>2
      <4>2. Up(px, Up(px, a, i + 1), j - (i + 1)) = Up(px, a, j)
        BY <4>1, UpPlus
      <4> QED BY <3>2, <4>1, <4>2, UpNothing
    <3>3. k < last \/ last < k
      BY <2>2, <3>1
    <3> QED BY <2>2, <2>5, <3>1, <3>2, <3>3, WitnessVotesAssumption
  <2>6. t2 = adjust_witness_votes(t1, vf, e, x)
    BY <1>2, <1>5
  <2>7. /\ t2.weight \in [Account -> Int]
        /\ \A b \in Account : vf[b] # {} =>
              t2.weight[b] = IF b = e THEN t.weight[b] + Divided(x, Cardinality(vf[b]))
                             ELSE t.weight[b]
    <3> HIDE DEF t1, t2, e, x
    <3> QED BY <1>1, <2>3, <2>4, <2>6, EndWeight
  <2>8. ASSUME NEW b \in Account, vf[b] # {}, px[b] = NoProxy
        PROVE  WeightMoves(px, Cardinality(vf[b]), a, delta, b, t.weight[b], t2.weight[b])
    <3>1. ASSUME NEW k \in 0..MaxDepth, Up(px, a, k) = b
          PROVE  t2.weight[b] = t.weight[b]
                     + Divided(SumOver(delta, 0..(MaxDepth - k)), Cardinality(vf[b]))
      <4>1. k = last
        BY <2>5, <2>8, <3>1
      <4> HIDE DEF t2
      <4> QED BY <2>7, <2>8, <3>1, <4>1
    <3>2. ASSUME \A k \in 0..MaxDepth : Up(px, a, k) # b
          PROVE  t2.weight[b] = t.weight[b]
      <4> HIDE DEF t2
      <4> QED BY <2>2, <2>7, <2>8, <3>2
    <3> HIDE DEF t2
    <3> QED BY <3>1, <3>2 DEF WeightMoves
  <2> QED BY <2>7, <2>8
<1> QED
  BY <1>4, <1>5

\* Changes that only give, or only take, whatever part of them arrives.
Gives(delta) == \A m \in 0..MaxDepth : SumOver(delta, 0..m) >= 0
Takes(delta) == \A m \in 0..MaxDepth : SumOver(delta, 0..m) <= 0

\* What the weight of an account with n votes, that went from w1 to w2, has
\* missed of an influence that went from i1 to i2.
Missed(n, i1, i2, w1, w2) == (i2 - i1) - n * (w2 - w1)

\* An influence that changes the way delta is passed up from a.
InfluenceMoves(px, a, delta, b, i1, i2) ==
    /\ \A k \in 0..MaxDepth : Up(px, a, k) = b =>
          i2 = i1 + SumOver(delta, 0..(MaxDepth - k))
    /\ (\A k \in 0..MaxDepth : Up(px, a, k) # b) => i2 = i1

(***************************************************************************)
(* One call misses less than one vote for each witness, and what is given  *)
(* errs on the other side than what is taken.                              *)
(***************************************************************************)
LEMMA CallMisses ==
    ASSUME NEW px, NEW a, NEW b, NEW delta \in [0..MaxDepth -> Int], NEW n \in Nat \ {0},
           NEW w1 \in Int, NEW w2,
           WeightMoves(px, n, a, delta, b, w1, w2),
           NEW i1 \in Int, NEW i2, InfluenceMoves(px, a, delta, b, i1, i2)
    PROVE  /\ w2 \in Int /\ i2 \in Int
           /\ Gives(delta) => Missed(n, i1, i2, w1, w2) \in 0..(n - 1)
           /\ Takes(delta) => Missed(n, i1, i2, w1, w2) \in (1 - n)..0
<1>1. CASE \A k \in 0..MaxDepth : Up(px, a, k) # b
  <2>1. i2 = i1 /\ w2 = w1
    BY <1>1 DEF WeightMoves, InfluenceMoves
  <2>2. Missed(n, i1, i2, w1, w2) = 0
    BY <2>1 DEF Missed
  <2> QED BY <2>1, <2>2
<1>2. ASSUME NEW k \in 0..MaxDepth, Up(px, a, k) = b
      PROVE  /\ w2 \in Int /\ i2 \in Int
             /\ Gives(delta) => Missed(n, i1, i2, w1, w2) \in 0..(n - 1)
             /\ Takes(delta) => Missed(n, i1, i2, w1, w2) \in (1 - n)..0
  <2>1. PICK x : x = SumOver(delta, 0..(MaxDepth - k))
    OBVIOUS
  <2>2. MaxDepth - k \in 0..MaxDepth
    BY WitnessVotesAssumption
  <2>3. x \in Int
    <3>1. IsFiniteSet(0..(MaxDepth - k))
      <4>1. 0 \in Int /\ MaxDepth - k \in Int
        BY <2>2, WitnessVotesAssumption
      <4> QED BY <4>1, FS_Interval
    <3>2. \A i \in 0..(MaxDepth - k) : delta[i] \in Int
      <4>1. \A i \in 0..(MaxDepth - k) : i \in 0..MaxDepth
        BY <2>2, WitnessVotesAssumption
      <4> QED BY <4>1
    <3> QED BY <2>1, <3>1, <3>2, SumOverType
  <2>4. PICK q : q = Divided(x, n)
    OBVIOUS
  <2>5. /\ q \in Int
        /\ x >= 0 => 0 <= x - n * q /\ x - n * q < n
        /\ x <= 0 => -n < x - n * q /\ x - n * q <= 0
    BY <2>3, <2>4, DividedNear
  <2>6. i2 = i1 + x /\ w2 = w1 + q
    BY <1>2, <2>1, <2>4 DEF WeightMoves, InfluenceMoves
  <2>7. Missed(n, i1, i2, w1, w2) = x - n * q
    <3>1. i2 - i1 = x /\ w2 - w1 = q
      BY <2>3, <2>5, <2>6
    <3> QED BY <3>1 DEF Missed
  <2>8. n * q \in Int
    BY <2>5
  <2>9. (Gives(delta) => x >= 0) /\ (Takes(delta) => x <= 0)
    BY <2>1, <2>2 DEF Gives, Takes
  <2>10. PICK d : d = x - n * q
    OBVIOUS
  <2>11. /\ d \in Int /\ Missed(n, i1, i2, w1, w2) = d
         /\ Gives(delta) => d \in 0..(n - 1)
         /\ Takes(delta) => d \in (1 - n)..0
    BY <2>3, <2>5, <2>7, <2>8, <2>9, <2>10
  <2> QED BY <2>3, <2>5, <2>6, <2>11
<1> QED
  BY <1>1, <1>2

\* A change of the account's own shares arrives whole, or not at all.
LEMMA OwnSum ==
    ASSUME NEW v \in Int, NEW m \in 0..MaxDepth
    PROVE  SumOver(Own(v), 0..m) = v
<1> DEFINE S == 0..m
           R == S \ {0}
           g == Own(v)
<1>1. IsFiniteSet(S) /\ 0 \in S /\ \A i \in S : i \in 0..MaxDepth
  <2>1. m \in Int /\ 0 \in Int /\ m \in Nat /\ m <= MaxDepth
    BY WitnessVotesAssumption
  <2> QED BY <2>1, FS_Interval, WitnessVotesAssumption
<1>2. g[0] = v /\ (\A i \in S : g[i] \in Int) /\ (\A i \in R : g[i] = 0)
  BY <1>1 DEF Own
<1>3. IsFiniteSet(R)
  BY <1>1, FS_RemoveElement
<1> HIDE DEF g, R
<1>4. SumOver(g, R) = 0
  BY <1>2, <1>3, SumOverZero
<1>5. SumOver(g, S) = g[0] + SumOver(g, S \ {0})
  <2> HIDE DEF S
  <2> QED BY <1>1, <1>2, SumOverRemove
<1>6. SumOver(g, S) = v
  BY <1>2, <1>4, <1>5 DEF R
<1> QED
  BY <1>6 DEF g

\* All that an account stands for is given, and its opposite taken.
LEMMA WholeGives ==
    ASSUME SumsInv, \A b \in Account : shares[b] >= 0, NEW a \in Account
    PROVE  /\ Whole(a, 1) \in [0..MaxDepth -> Int] /\ Gives(Whole(a, 1))
           /\ Whole(a, -1) \in [0..MaxDepth -> Int] /\ Takes(Whole(a, -1))
<1> DEFINE plus == Whole(a, 1)
           minus == Whole(a, -1)
<1>1. AllOf(proxy, shares, a, plus) /\ \A i \in 0..MaxDepth : minus[i] = -plus[i]
  BY WholeIs
<1>2. plus \in [0..MaxDepth -> Int]
  BY <1>1 DEF AllOf
<1>3. minus \in [0..MaxDepth -> Int]
  <2>1. minus = [i \in 0..MaxDepth |-> minus[i]]
    BY DEF Whole
  <2> HIDE DEF minus, plus
  <2> QED BY <1>1, <1>2, <2>1
<1>4. ASSUME NEW i \in 0..MaxDepth PROVE plus[i] >= 0
  <2>1. CASE i = 0
    <3>1. plus[i] = shares[a]
      BY <1>1, <2>1 DEF AllOf
    <3> HIDE DEF plus
    <3> QED BY <3>1
  <2>2. CASE i # 0
    <3>1. i - 1 \in Level /\ (i - 1) + 1 = i
      BY <2>2, WitnessVotesAssumption DEF Level
    <3>2. plus[i] = SumOver(shares, Below(proxy, a, i - 1))
      BY <1>1, <3>1 DEF AllOf
    <3>3. /\ IsFiniteSet(Below(proxy, a, i - 1))
          /\ \A x \in Below(proxy, a, i - 1) : shares[x] \in Int /\ shares[x] >= 0
      BY FiniteParts DEF Below, SumsInv
    <3> HIDE DEF plus
    <3> QED BY <3>2, <3>3, SumOverType
  <2> QED BY <2>1, <2>2
<1> HIDE DEF plus, minus
<1>5. ASSUME NEW m \in 0..MaxDepth
      PROVE  SumOver(plus, 0..m) >= 0 /\ SumOver(minus, 0..m) <= 0
  <2> DEFINE z == [i \in 0..MaxDepth |-> 0]
  <2>1. IsFiniteSet(0..m) /\ \A i \in 0..m : i \in 0..MaxDepth
    <3>1. 0 \in Int /\ m \in Int /\ m \in Nat /\ m <= MaxDepth
      BY WitnessVotesAssumption
    <3> QED BY <3>1, FS_Interval, WitnessVotesAssumption
  <2>2. \A i \in 0..m : /\ plus[i] \in Int /\ minus[i] \in Int /\ plus[i] >= 0
                        /\ z[i] = plus[i] + minus[i] /\ z[i] = 0
    BY <1>1, <1>2, <1>4, <2>1
  <2> HIDE DEF z
  <2>3. SumOver(z, 0..m) = SumOver(plus, 0..m) + SumOver(minus, 0..m)
    BY <2>1, <2>2, SumOverPlus
  <2>4. SumOver(z, 0..m) = 0
    BY <2>1, <2>2, SumOverZero
  <2>5. SumOver(plus, 0..m) \in Int /\ SumOver(plus, 0..m) >= 0 /\ SumOver(minus, 0..m) \in Int
    BY <2>1, <2>2, SumOverType
  <2> QED BY <2>3, <2>4, <2>5
<1>6. Gives(plus) /\ Takes(minus)
  BY <1>5 DEF Gives, Takes
<1> QED
  BY <1>2, <1>3, <1>6 DEF plus, minus

\* The influence of another account, when delta is passed up from a.
LEMMA OtherInfluence ==
    ASSUME NEW px \in Proxies, NoLoops(px), NEW a \in Account, NEW b \in Account, b # a,
           NEW delta \in [0..MaxDepth -> Int], NEW sh \in [Account -> Int],
           NEW pr \in [Account -> [Level -> Int]]
    PROVE  /\ Inf(sh, pr, b) \in Int
           /\ InfluenceMoves(px, a, delta, b, Inf(sh, pr, b), Inf(sh, AddUp(px, pr, a, delta), b))
<1>1. PICK P, i1, i2 :
          P = AddUp(px, pr, a, delta) /\ i1 = Inf(sh, pr, b) /\ i2 = Inf(sh, P, b)
  OBVIOUS
<1>2. InfMoves(px, a, delta, b, sh, pr, P)
  BY <1>1, InfAddUp
<1>3. Up(px, a, 0) = a
  BY UpStep
<1>4. \A k \in 0..MaxDepth : k \in 1..MaxDepth \/ k = 0
  BY WitnessVotesAssumption
<1>5. \A k \in 1..MaxDepth : k \in 0..MaxDepth
  BY WitnessVotesAssumption
<1>6. i1 \in Int /\ InfluenceMoves(px, a, delta, b, i1, i2)
  BY <1>1, <1>2, <1>3, <1>4, <1>5 DEF InfMoves, InfluenceMoves
<1> QED
  BY <1>1, <1>6

\* The type of an influence.
LEMMA InfType ==
    ASSUME NEW sh \in [Account -> Int], NEW pr \in [Account -> [Level -> Int]],
           NEW b \in Account
    PROVE  Inf(sh, pr, b) \in Int
<1>1. \A i \in Level : pr[b][i] \in Int
  OBVIOUS
<1>2. SumOver(pr[b], Level) \in Int
  BY <1>1, LevelFinite, SumOverType
<1> QED
  BY <1>2 DEF Inf

\* The influence of any account, when the shares of c change by v.
LEMMA OwnInfluence ==
    ASSUME NEW px \in Proxies, NoLoops(px), NEW c \in Account, NEW b \in Account,
           NEW v \in Int, NEW sh \in [Account -> Int], NEW s2 \in [Account -> Int],
           \A x \in Account : s2[x] = IF x = c THEN sh[x] + v ELSE sh[x],
           NEW pr \in [Account -> [Level -> Int]]
    PROVE  /\ Own(v) \in [0..MaxDepth -> Int] /\ Inf(sh, pr, b) \in Int
           /\ InfluenceMoves(px, c, Own(v), b, Inf(sh, pr, b),
                             Inf(s2, AddUp(px, pr, c, Own(v)), b))
<1>0. Own(v) \in [0..MaxDepth -> Int]
  BY DEF Own
<1>1. PICK P, i1, i2, delta :
          /\ P = AddUp(px, pr, c, delta) /\ i1 = Inf(sh, pr, b) /\ i2 = Inf(s2, P, b)
          /\ delta = Own(v)
  OBVIOUS
<1>2. InfMoves(px, c, delta, b, s2, pr, P)
  BY <1>0, <1>1, InfAddUp
<1>3. i1 \in Int /\ Inf(s2, pr, b) = IF b = c THEN i1 + v ELSE i1
  <2>1. IsFiniteSet(Level) /\ \A i \in Level : pr[b][i] \in Int
    <3>1. \A i \in Level : pr[b][i] \in Int
      OBVIOUS
    <3> QED BY <3>1, FS_Interval, WitnessVotesAssumption DEF Level
  <2>2. SumOver(pr[b], Level) \in Int
    BY <2>1, SumOverType
  <2>3. sh[b] \in Int
    OBVIOUS
  <2> QED BY <1>1, <2>2, <2>3 DEF Inf
<1>4. Up(px, c, 0) = c /\ \A k \in 1..MaxDepth : Up(px, c, k) # c
  BY UpStep, WitnessVotesAssumption DEF NoLoops
<1>5. ASSUME NEW k \in 0..MaxDepth, Up(px, c, k) = b
      PROVE  i2 = i1 + SumOver(delta, 0..(MaxDepth - k))
  <2>1. CASE k = 0
    <3>1. b = c /\ MaxDepth - k = MaxDepth /\ MaxDepth \in 0..MaxDepth
      BY <1>4, <1>5, <2>1, WitnessVotesAssumption
    <3>2. i2 = i1 + v
      BY <1>1, <1>2, <1>3, <1>4, <3>1 DEF InfMoves
    <3> QED BY <1>1, <3>1, <3>2, OwnSum
  <2>2. CASE k # 0
    <3>1. k \in 1..MaxDepth
      BY <2>2, WitnessVotesAssumption
    <3> QED BY <1>1, <1>2, <1>3, <1>4, <1>5, <3>1 DEF InfMoves
  <2> QED BY <2>1, <2>2
<1>6. ASSUME \A k \in 0..MaxDepth : Up(px, c, k) # b PROVE i2 = i1
  <2>1. b # c /\ \A k \in 1..MaxDepth : Up(px, c, k) # b
    BY <1>4, <1>6, WitnessVotesAssumption
  <2> QED BY <1>1, <1>2, <1>3, <2>1 DEF InfMoves
<1>7. InfluenceMoves(px, c, delta, b, i1, i2)
  BY <1>5, <1>6 DEF InfluenceMoves
<1> QED
  BY <1>0, <1>1, <1>3, <1>7

(***************************************************************************)
(* The invariant of the weights.  Only a voter without a proxy is reached  *)
(* at the end of a chain, and only shares that are not negative make       *)
(* givings and takings err on opposite sides.                              *)
(***************************************************************************)
WeightsInv ==
    /\ SumsInv
    /\ \A b \in Account : shares[b] >= 0
    /\ VoteTypes(votedFor) /\ VotersAtEnd(proxy, votedFor)
    /\ weight \in [Account -> Int]

\* The facts of WeightsInv, for one use in many steps.
LEMMA WeightsInvFacts ==
    ASSUME WeightsInv
    PROVE  /\ SumsInv /\ proxy \in Proxies /\ NoLoops(proxy) /\ Sums(proxy, shares, proxied)
           /\ shares \in [Account -> Int] /\ proxied \in [Account -> [Level -> Int]]
           /\ VoteTypes(votedFor) /\ VotersAtEnd(proxy, votedFor)
           /\ weight \in [Account -> Int] /\ \A b \in Account : shares[b] >= 0
           /\ IsTally(tally) /\ tally.proxied = proxied /\ tally.weight = weight
BY TallyIs DEF WeightsInv, SumsInv, ProxyInv, Sums, tally

(***************************************************************************)
(* What a step does to the weight of an account that votes after it.  With *)
(* the same votes it follows the influence, with others it is computed     *)
(* anew; it misses less than one vote for each witness.                    *)
(***************************************************************************)
Follows(b) ==
    LET n == Cardinality(votedFor'[b])
        was == Influence(shares, proxied, b)
        is == Influence(shares', proxied', b)
    IN  votedFor'[b] # {} =>
            IF votedFor'[b] = votedFor[b]
            THEN Missed(n, was, is, weight[b], weight'[b]) \in (1 - n)..(n - 1)
            ELSE Missed(n, 0, is, 0, weight'[b]) \in 0..(n - 1)

\* The influence of the model is the one the lemmas are about.
LEMMA InfluenceIs == \A sh, pr, b : Influence(sh, pr, b) = Inf(sh, pr, b)
BY SumOfIs DEF Influence, Inf

\* The type of the proxied shares after a call.
LEMMA AddUpType ==
    ASSUME NEW px, NEW a, NEW delta \in [0..MaxDepth -> Int],
           NEW pr \in [Account -> [Level -> Int]]
    PROVE  AddUp(px, pr, a, delta) \in [Account -> [Level -> Int]]
<1>1. \A p \in Account, j \in Level :
          pr[p][j] \in Int /\ Reached(px, a, delta, p, j) \in Int
  BY ReachedType
<1> QED
  BY <1>1 DEF AddUp

\* The tally t counts, after t0, that the shares of c changed by v.
CountsChange(px, vf, c, v, t0, t, sh, s2) ==
    /\ IsTally(t) /\ t.weight \in [Account -> Int]
    /\ t.proxied = AddUp(px, t0.proxied, c, Own(v))
    /\ t.proxied \in [Account -> [Level -> Int]]
    /\ s2 \in [Account -> Int]
    /\ \A b \in Account : vf[b] # {} =>
          LET n == Cardinality(vf[b])
              d == Missed(n, Inf(sh, t0.proxied, b), Inf(s2, t.proxied, b),
                          t0.weight[b], t.weight[b])
          IN  /\ n \in Nat \ {0}
              /\ Inf(sh, t0.proxied, b) \in Int /\ Inf(s2, t.proxied, b) \in Int
              /\ v >= 0 => d \in 0..(n - 1)
              /\ v <= 0 => d \in (1 - n)..0

\* A change v of the shares of c, counted by one call.
LEMMA OneChange ==
    ASSUME NEW px \in Proxies, NoLoops(px), NEW vf, VoteTypes(vf), VotersAtEnd(px, vf),
           NEW c \in Account, NEW v \in Int, NEW t0, IsTally(t0),
           t0.weight \in [Account -> Int], t0.proxied \in [Account -> [Level -> Int]],
           NEW t, t = adjust_proxied_witness_votes(t0, px, vf, c, Own(v)),
           NEW sh \in [Account -> Int], NEW s2, s2 = [sh EXCEPT ![c] = @ + v]
    PROVE  CountsChange(px, vf, c, v, t0, t, sh, s2)
<1>1. /\ s2 \in [Account -> Int]
      /\ \A x \in Account : s2[x] = IF x = c THEN sh[x] + v ELSE sh[x]
  OBVIOUS
<1>2. PICK pr, delta : pr = t0.proxied /\ delta = Own(v)
  OBVIOUS
<1>3. delta \in [0..MaxDepth -> Int] /\ pr \in [Account -> [Level -> Int]]
  BY <1>2 DEF Own
<1>4. IsTally(t) /\ t.proxied = AddUp(px, pr, c, delta)
  BY <1>2, AdjustIs
<1>5. t.proxied \in [Account -> [Level -> Int]]
  <2>1. AddUp(px, pr, c, delta) \in [Account -> [Level -> Int]]
    BY <1>3, AddUpType
  <2> QED BY <1>4, <2>1
<1>6. /\ t.weight \in [Account -> Int]
      /\ \A b \in Account : vf[b] # {} /\ px[b] = NoProxy =>
            WeightMoves(px, Cardinality(vf[b]), c, delta, b, t0.weight[b], t.weight[b])
  BY <1>2, <1>3, AdjustWeight
<1>7. (v >= 0 => Gives(delta)) /\ (v <= 0 => Takes(delta))
  BY <1>2, OwnSum DEF Gives, Takes
<1>8. ASSUME NEW b \in Account, vf[b] # {}, NEW n, n = Cardinality(vf[b]),
             NEW i1, i1 = Inf(sh, pr, b), NEW i2, i2 = Inf(s2, t.proxied, b)
      PROVE  /\ n \in Nat \ {0} /\ i1 \in Int /\ i2 \in Int
             /\ v >= 0 => Missed(n, i1, i2, t0.weight[b], t.weight[b]) \in 0..(n - 1)
             /\ v <= 0 => Missed(n, i1, i2, t0.weight[b], t.weight[b]) \in (1 - n)..0
  <2>1. /\ Inf(sh, pr, b) \in Int
        /\ InfluenceMoves(px, c, Own(v), b, Inf(sh, pr, b),
                          Inf(s2, AddUp(px, pr, c, Own(v)), b))
    BY <1>1, <1>3, OwnInfluence
  <2>2. i1 \in Int /\ InfluenceMoves(px, c, delta, b, i1, i2)
    BY <1>2, <1>4, <1>8, <2>1
  <2>3. PICK w1, w2 : w1 = t0.weight[b] /\ w2 = t.weight[b]
    OBVIOUS
  <2>4. WeightMoves(px, n, c, delta, b, w1, w2) /\ w1 \in Int
    BY <1>6, <1>8, <2>3 DEF VotersAtEnd
  <2>5. n \in Nat \ {0}
    BY <1>8, CountOfVotes, WitnessVotesAssumption
  <2>6. /\ i2 \in Int
        /\ Gives(delta) => Missed(n, i1, i2, w1, w2) \in 0..(n - 1)
        /\ Takes(delta) => Missed(n, i1, i2, w1, w2) \in (1 - n)..0
    BY <1>3, <2>2, <2>4, <2>5, CallMisses
  <2> QED BY <1>7, <2>2, <2>3, <2>5, <2>6
<1> QED
  BY <1>1, <1>2, <1>4, <1>5, <1>6, <1>8 DEF CountsChange


\* What is taken with all that a stands for, from the accounts that vote.
LEMMA TakenMisses ==
    ASSUME WeightsInv, NEW a \in Account, NEW t1,
           t1 = adjust_proxied_witness_votes(tally, proxy, votedFor, a, Whole(a, -1))
    PROVE  /\ IsTally(t1) /\ t1.weight \in [Account -> Int]
           /\ t1.proxied = AddUp(proxy, proxied, a, Whole(a, -1))
           /\ t1.proxied \in [Account -> [Level -> Int]]
           /\ \A b \in Account : b # a /\ votedFor[b] # {} =>
                 LET n == Cardinality(votedFor[b])
                 IN  /\ n \in Nat \ {0}
                     /\ Inf(shares, proxied, b) \in Int /\ Inf(shares, t1.proxied, b) \in Int
                     /\ Missed(n, Inf(shares, proxied, b), Inf(shares, t1.proxied, b),
                               weight[b], t1.weight[b]) \in (1 - n)..0
<1>0. /\ proxy \in Proxies /\ NoLoops(proxy) /\ shares \in [Account -> Int] /\ SumsInv
      /\ proxied \in [Account -> [Level -> Int]]
      /\ VoteTypes(votedFor) /\ VotersAtEnd(proxy, votedFor) /\ weight \in [Account -> Int]
      /\ IsTally(tally) /\ tally.proxied = proxied /\ tally.weight = weight
      /\ \A b \in Account : shares[b] >= 0
  BY WeightsInvFacts
<1>1. PICK delta : delta = Whole(a, -1)
  OBVIOUS
<1>2. delta \in [0..MaxDepth -> Int] /\ Takes(delta)
  BY <1>0, <1>1, WholeGives
<1>3. IsTally(t1) /\ t1.proxied = AddUp(proxy, proxied, a, delta)
  BY <1>0, <1>1, AdjustIs
<1>4. t1.proxied \in [Account -> [Level -> Int]]
  <2>1. AddUp(proxy, proxied, a, delta) \in [Account -> [Level -> Int]]
    BY <1>0, <1>2, AddUpType
  <2> QED BY <1>3, <2>1
<1>5. PICK t0 : t0 = tally
  OBVIOUS
<1>6. /\ t1.weight \in [Account -> Int]
      /\ \A b \in Account : votedFor[b] # {} /\ proxy[b] = NoProxy =>
            WeightMoves(proxy, Cardinality(votedFor[b]), a, delta, b, t0.weight[b], t1.weight[b])
  BY <1>0, <1>1, <1>2, <1>5, AdjustWeight
<1>7. ASSUME NEW b \in Account, b # a, votedFor[b] # {}, NEW n, n = Cardinality(votedFor[b]),
             NEW i1, i1 = Inf(shares, proxied, b), NEW i2, i2 = Inf(shares, t1.proxied, b)
      PROVE  /\ n \in Nat \ {0} /\ i1 \in Int /\ i2 \in Int
             /\ Missed(n, i1, i2, weight[b], t1.weight[b]) \in (1 - n)..0
  <2>1. i1 \in Int /\ InfluenceMoves(proxy, a, delta, b, i1, i2)
    BY <1>0, <1>2, <1>3, <1>7, OtherInfluence
  <2>2. PICK w1, w2 : w1 = weight[b] /\ w2 = t1.weight[b]
    OBVIOUS
  <2>3. WeightMoves(proxy, n, a, delta, b, w1, w2) /\ w1 \in Int
    BY <1>0, <1>5, <1>6, <1>7, <2>2 DEF VotersAtEnd
  <2>4. n \in Nat \ {0}
    BY <1>0, <1>7, CountOfVotes, WitnessVotesAssumption
  <2>5. i2 \in Int /\ Missed(n, i1, i2, w1, w2) \in (1 - n)..0
    BY <1>2, <2>1, <2>3, <2>4, CallMisses
  <2> QED BY <2>1, <2>2, <2>4, <2>5
<1> QED
  BY <1>1, <1>3, <1>4, <1>6, <1>7

\* What is left of WeightsInv' and of the property once the new tally t is known.
LEMMA WeightsNext ==
    ASSUME SumsInv', NEW t, IsTally(t), SetTally(t), t.weight \in [Account -> Int],
           \A b \in Account : shares'[b] >= 0,
           NEW px, proxy' = px, NEW vf, votedFor' = vf, VoteTypes(vf), VotersAtEnd(px, vf)
    PROVE  WeightsInv' /\ proxied' = t.proxied /\ weight' = t.weight
<1>1. proxied' = t.proxied /\ weight' = t.weight
  BY DEF SetTally
<1>2. VoteTypes(votedFor)'
  BY DEF VoteTypes
<1>3. VotersAtEnd(proxy, votedFor)'
  BY DEF VotersAtEnd
<1> QED
  BY <1>1, <1>2, <1>3 DEF WeightsInv

\* create_vesting and a withdrawal to tokens.
LEMMA ChangeFollows ==
    ASSUME WeightsInv, SumsInv', NEW c \in Account, NEW v \in Int,
           shares' = [shares EXCEPT ![c] = @ + v], shares[c] + v >= 0,
           proxy' = proxy, votedFor' = votedFor,
           SetTally(adjust_proxied_witness_votes(tally, proxy, votedFor, c, Own(v)))
    PROVE  WeightsInv' /\ \A b \in Account : Follows(b)
<1>0. /\ proxy \in Proxies /\ NoLoops(proxy) /\ shares \in [Account -> Int]
      /\ proxied \in [Account -> [Level -> Int]]
      /\ VoteTypes(votedFor) /\ VotersAtEnd(proxy, votedFor) /\ weight \in [Account -> Int]
      /\ IsTally(tally) /\ tally.proxied = proxied /\ tally.weight = weight
      /\ \A b \in Account : shares[b] >= 0
  BY WeightsInvFacts
<1>1. PICK t, s2, t0 :
          /\ t = adjust_proxied_witness_votes(tally, proxy, votedFor, c, Own(v))
          /\ s2 = [shares EXCEPT ![c] = @ + v] /\ t0 = tally
  OBVIOUS
<1>2. CountsChange(proxy, votedFor, c, v, t0, t, shares, s2)
  <2>1. /\ IsTally(t0) /\ t0.weight \in [Account -> Int]
        /\ t0.proxied \in [Account -> [Level -> Int]]
        /\ t = adjust_proxied_witness_votes(t0, proxy, votedFor, c, Own(v))
    BY <1>0, <1>1
  <2> QED BY <1>0, <1>1, <2>1, OneChange
<1>3. \A b \in Account : shares'[b] >= 0
  BY <1>0
<1>4. WeightsInv' /\ proxied' = t.proxied /\ weight' = t.weight
  BY <1>0, <1>1, <1>2, <1>3, WeightsNext DEF CountsChange
<1>5. ASSUME NEW b \in Account, votedFor[b] # {}, NEW n, n = Cardinality(votedFor[b])
      PROVE  Missed(n, Inf(shares, proxied, b), Inf(shares', proxied', b), weight[b], weight'[b])
                 \in (1 - n)..(n - 1)
  <2>1. PICK d : d = Missed(n, Inf(shares, t0.proxied, b), Inf(s2, t.proxied, b),
                            t0.weight[b], t.weight[b])
    OBVIOUS
  <2>2. n \in Nat \ {0} /\ (v >= 0 => d \in 0..(n - 1)) /\ (v <= 0 => d \in (1 - n)..0)
    BY <1>2, <1>5, <2>1 DEF CountsChange
  <2>3. d \in (1 - n)..(n - 1)
    BY <2>2
  <2> QED BY <1>0, <1>1, <1>4, <2>1, <2>3
<1>6. \A b \in Account : Follows(b)
  BY <1>5, InfluenceIs DEF Follows
<1> QED
  BY <1>4, <1>6

\* A withdrawal along a route: what is given to b and taken from a may both be
\* counted by the same voter.
LEMMA RouteFollows ==
    ASSUME WeightsInv, SumsInv', NEW a \in Account, NEW b \in Account, NEW x \in Amount,
           WithdrawTo(a, b, x)
    PROVE  WeightsInv' /\ \A e \in Account : Follows(e)
<1>0. /\ proxy \in Proxies /\ NoLoops(proxy) /\ shares \in [Account -> Int]
      /\ proxied \in [Account -> [Level -> Int]]
      /\ VoteTypes(votedFor) /\ VotersAtEnd(proxy, votedFor) /\ weight \in [Account -> Int]
      /\ IsTally(tally) /\ tally.proxied = proxied /\ tally.weight = weight
      /\ \A e \in Account : shares[e] >= 0
  BY WeightsInvFacts
<1>1. x \in Int /\ x > 0 /\ -x \in Int
  BY WitnessVotesAssumption
<1>2. PICK v, t0, t1, s1 :
          /\ v \in Int /\ v = -x /\ t0 = tally
          /\ t1 = adjust_proxied_witness_votes(t0, proxy, votedFor, b, Own(x))
          /\ s1 = [shares EXCEPT ![b] = @ + x]
  BY <1>1
<1>3. PICK t2, s2 : /\ t2 = adjust_proxied_witness_votes(t1, proxy, votedFor, a, Own(v))
                    /\ s2 = [s1 EXCEPT ![a] = @ + v]
  OBVIOUS
<1>4. CountsChange(proxy, votedFor, b, x, t0, t1, shares, s1)
  <2>1. /\ IsTally(t0) /\ t0.weight \in [Account -> Int]
        /\ t0.proxied \in [Account -> [Level -> Int]]
    BY <1>0, <1>2
  <2> QED BY <1>0, <1>1, <1>2, <2>1, OneChange
<1>5. CountsChange(proxy, votedFor, a, v, t1, t2, s1, s2)
  <2>1. /\ IsTally(t1) /\ t1.weight \in [Account -> Int]
        /\ t1.proxied \in [Account -> [Level -> Int]] /\ s1 \in [Account -> Int]
    BY <1>4 DEF CountsChange
  <2>2. v \in Int
    BY <1>2
  <2> QED BY <1>0, <1>3, <2>1, <2>2, OneChange
<1>6. /\ SetTally(t2) /\ proxy' = proxy /\ votedFor' = votedFor /\ x <= shares[a]
      /\ shares' = [s1 EXCEPT ![a] = @ - x]
  BY <1>2, <1>3 DEF WithdrawTo, Routed
<1>7. shares' = s2 /\ \A e \in Account : s2[e] >= 0
  <2>1. s1 \in [Account -> Int] /\ s1[a] >= shares[a] /\ \A e \in Account : s1[e] >= 0
    BY <1>0, <1>1, <1>2
  <2>2. s1[a] - x = s1[a] + v /\ s1[a] + v >= 0
    BY <1>0, <1>1, <1>2, <1>6, <2>1
  <2> QED BY <1>3, <1>6, <2>1, <2>2
<1>8. IsTally(t2) /\ t2.weight \in [Account -> Int]
  BY <1>5 DEF CountsChange
<1>9. WeightsInv' /\ proxied' = t2.proxied /\ weight' = t2.weight
  BY <1>0, <1>6, <1>7, <1>8, WeightsNext
<1>10. ASSUME NEW e \in Account, votedFor[e] # {}, NEW n, n = Cardinality(votedFor[e])
       PROVE  Missed(n, Inf(shares, proxied, e), Inf(shares', proxied', e), weight[e], weight'[e])
                  \in (1 - n)..(n - 1)
  <2>1. PICK i0, i1, i2, w0, w1, w2 :
            /\ i0 = Inf(shares, t0.proxied, e) /\ i1 = Inf(s1, t1.proxied, e)
            /\ i2 = Inf(s2, t2.proxied, e)
            /\ w0 = t0.weight[e] /\ w1 = t1.weight[e] /\ w2 = t2.weight[e]
    OBVIOUS
  <2>2. /\ n \in Nat \ {0} /\ i0 \in Int /\ i1 \in Int
        /\ Missed(n, i0, i1, w0, w1) \in 0..(n - 1)
    BY <1>1, <1>4, <1>10, <2>1 DEF CountsChange
  <2>3. i2 \in Int /\ Missed(n, i1, i2, w1, w2) \in (1 - n)..0
    <3>1. v <= 0
      BY <1>1, <1>2
    <3> QED BY <1>5, <1>10, <2>1, <3>1 DEF CountsChange
  <2>4. w0 \in Int /\ w1 \in Int /\ w2 \in Int
    <3>1. w0 \in Int
      BY <1>0, <1>2, <2>1
    <3>2. w1 \in Int
      BY <1>4, <2>1 DEF CountsChange
    <3>3. w2 \in Int
      BY <1>8, <2>1
    <3> QED BY <3>1, <3>2, <3>3
  <2>5. Missed(n, i0, i2, w0, w2) = Missed(n, i0, i1, w0, w1) + Missed(n, i1, i2, w1, w2)
    <3>1. n \in Nat \ {0}
      BY <2>2
    <3>2. i0 \in Int /\ i1 \in Int /\ i2 \in Int
      BY <2>2, <2>3
    <3> QED BY <2>4, <3>1, <3>2 DEF Missed
  <2>6. Missed(n, i0, i2, w0, w2) \in (1 - n)..(n - 1)
    <3>1. PICK d, f : d = Missed(n, i0, i1, w0, w1) /\ f = Missed(n, i1, i2, w1, w2)
      OBVIOUS
    <3>2. d + f \in (1 - n)..(n - 1)
      BY <2>2, <2>3, <3>1
    <3> QED BY <2>5, <3>1, <3>2
  <2> QED BY <1>0, <1>2, <1>7, <1>9, <2>1, <2>6
<1>11. \A e \in Account : Follows(e)
  BY <1>6, <1>10, InfluenceIs DEF Follows
<1> QED
  BY <1>9, <1>11

\* account_witness_proxy_evaluator without a proxy.
LEMMA ClearFollows ==
    ASSUME WeightsInv, SumsInv', NEW a \in Account, ClearProxy(a)
    PROVE  WeightsInv' /\ \A b \in Account : Follows(b)
<1>0. /\ proxy \in Proxies /\ VoteTypes(votedFor) /\ VotersAtEnd(proxy, votedFor)
      /\ \A b \in Account : shares[b] >= 0
  BY WeightsInvFacts
<1>1. PICK t1, qx :
          /\ t1 = adjust_proxied_witness_votes(tally, proxy, votedFor, a, Whole(a, -1))
          /\ qx = [proxy EXCEPT ![a] = NoProxy]
  OBVIOUS
<1>2. SetTally(t1) /\ proxy' = qx /\ votedFor' = votedFor /\ shares' = shares
      /\ proxy[a] # NoProxy
  BY <1>1 DEF ClearProxy
<1>3. votedFor[a] = {}
  BY <1>0, <1>2 DEF VotersAtEnd
<1>4. VotersAtEnd(qx, votedFor)
  BY <1>0, <1>1 DEF VotersAtEnd, Proxies
<1>5. /\ IsTally(t1) /\ t1.weight \in [Account -> Int]
      /\ \A b \in Account : b # a /\ votedFor[b] # {} =>
            LET n == Cardinality(votedFor[b])
            IN  /\ n \in Nat \ {0}
                /\ Missed(n, Inf(shares, proxied, b), Inf(shares, t1.proxied, b),
                          weight[b], t1.weight[b]) \in (1 - n)..0
  BY <1>1, TakenMisses
<1>6. WeightsInv' /\ proxied' = t1.proxied /\ weight' = t1.weight
  BY <1>0, <1>2, <1>4, <1>5, WeightsNext
<1>7. ASSUME NEW b \in Account, votedFor[b] # {}, NEW n, n = Cardinality(votedFor[b])
      PROVE  Missed(n, Inf(shares, proxied, b), Inf(shares', proxied', b), weight[b], weight'[b])
                 \in (1 - n)..(n - 1)
  <2>1. PICK d : d = Missed(n, Inf(shares, proxied, b), Inf(shares, t1.proxied, b),
                            weight[b], t1.weight[b])
    OBVIOUS
  <2>2. n \in Nat \ {0} /\ d \in (1 - n)..0
    BY <1>3, <1>5, <1>7, <2>1
  <2>3. d \in (1 - n)..(n - 1)
    BY <2>2
  <2> QED BY <1>2, <1>6, <2>1, <2>3
<1>8. \A b \in Account : Follows(b)
  BY <1>2, <1>7, InfluenceIs DEF Follows
<1> QED
  BY <1>6, <1>8

(***************************************************************************)
(* account_witness_proxy_evaluator with a proxy: what is taken from the    *)
(* old chain and given to the new one may be counted by the same voter.    *)
(***************************************************************************)
LEMMA ProxyFollows ==
    ASSUME WeightsInv, SumsInv', NEW a \in Account, NEW p \in Account, SetProxy(a, p)
    PROVE  WeightsInv' /\ \A b \in Account : Follows(b)
<1>0. /\ proxy \in Proxies /\ NoLoops(proxy) /\ shares \in [Account -> Int] /\ SumsInv
      /\ proxied \in [Account -> [Level -> Int]]
      /\ VoteTypes(votedFor) /\ VotersAtEnd(proxy, votedFor) /\ weight \in [Account -> Int]
      /\ \A b \in Account : shares[b] >= 0
  BY WeightsInvFacts
<1>1. PICK t1, qx, vf, plus :
          /\ t1 = adjust_proxied_witness_votes(tally, proxy, votedFor, a, Whole(a, -1))
          /\ qx = [proxy EXCEPT ![a] = p]
          /\ vf = [votedFor EXCEPT ![a] = {}]
          /\ plus = Whole(a, 1)
  OBVIOUS
<1>2. PICK t2 : t2 = [t1 EXCEPT !.weight[a] = 0]
  OBVIOUS
<1>3. PICK t3 : t3 = adjust_proxied_witness_votes(t2, qx, vf, a, plus)
  OBVIOUS
<1>4. SetTally(t3) /\ proxy' = qx /\ votedFor' = vf /\ shares' = shares
  BY <1>1, <1>2, <1>3 DEF SetProxy
<1>5. /\ IsTally(t1) /\ t1.weight \in [Account -> Int]
      /\ t1.proxied = AddUp(proxy, proxied, a, Whole(a, -1))
      /\ t1.proxied \in [Account -> [Level -> Int]]
      /\ \A b \in Account : b # a /\ votedFor[b] # {} =>
            LET n == Cardinality(votedFor[b])
            IN  /\ n \in Nat \ {0}
                /\ Inf(shares, proxied, b) \in Int /\ Inf(shares, t1.proxied, b) \in Int
                /\ Missed(n, Inf(shares, proxied, b), Inf(shares, t1.proxied, b),
                          weight[b], t1.weight[b]) \in (1 - n)..0
  BY <1>1, TakenMisses
<1>6. /\ IsTally(t2) /\ t2.proxied = t1.proxied /\ t2.weight \in [Account -> Int]
      /\ \A b \in Account : b # a => t2.weight[b] = t1.weight[b]
  <2>1. IsTally(t1) /\ t1.weight \in [Account -> Int]
    BY <1>5
  <2>2. IsTally(t2) /\ t2.proxied = t1.proxied /\ t2.weight = [t1.weight EXCEPT ![a] = 0]
    BY <1>2, <2>1 DEF IsTally
  <2> QED BY <2>1, <2>2
<1>7. /\ qx \in Proxies /\ NoLoops(qx) /\ qx[a] = p
      /\ \A b \in Account : b # a => qx[b] = proxy[b]
      /\ \A b \in Account : vf[b] # {} => b # a /\ vf[b] = votedFor[b]
      /\ VoteTypes(vf)
  <2>1. NoLoops(qx)
    <3>1. \A n \in Nat : Up(proxy, p, n) # a
      BY WalkIsEnough DEF SetProxy
    <3> QED BY <1>0, <1>1, <3>1, NewProxyNoLoop
  <2>2. \A b \in Account : vf[b] # {} => b # a /\ vf[b] = votedFor[b]
    BY <1>0, <1>1 DEF VoteTypes
  <2>3. VoteTypes(vf)
    BY <1>0, <1>1, FS_EmptySet, WitnessVotesAssumption DEF VoteTypes
  <2> QED BY <1>0, <1>1, <2>1, <2>2, <2>3 DEF Proxies
<1>8. VotersAtEnd(qx, vf)
  BY <1>0, <1>7 DEF VotersAtEnd
<1>9. plus \in [0..MaxDepth -> Int] /\ Gives(plus)
  BY <1>0, <1>1, WholeGives
<1>10. IsTally(t3) /\ t3.proxied = AddUp(qx, t2.proxied, a, plus)
  BY <1>3, <1>6, AdjustIs
<1>11. /\ t3.weight \in [Account -> Int]
       /\ \A b \in Account : vf[b] # {} /\ qx[b] = NoProxy =>
             WeightMoves(qx, Cardinality(vf[b]), a, plus, b, t2.weight[b], t3.weight[b])
  BY <1>3, <1>6, <1>7, <1>9, AdjustWeight
<1>12. WeightsInv' /\ proxied' = t3.proxied /\ weight' = t3.weight
  BY <1>0, <1>4, <1>7, <1>8, <1>10, <1>11, WeightsNext
<1>13. ASSUME NEW b \in Account, vf[b] # {}, NEW n, n = Cardinality(vf[b])
       PROVE  Missed(n, Inf(shares, proxied, b), Inf(shares', proxied', b), weight[b], weight'[b])
                  \in (1 - n)..(n - 1)
  <2>0. b # a /\ vf[b] = votedFor[b] /\ qx[b] = NoProxy
    BY <1>7, <1>8, <1>13 DEF VotersAtEnd
  <2>1. PICK pr, i0, i1, i2, w0, w1, w2 :
            /\ pr = t1.proxied
            /\ i0 = Inf(shares, proxied, b) /\ i1 = Inf(shares, pr, b)
            /\ i2 = Inf(shares, AddUp(qx, pr, a, plus), b)
            /\ w0 = weight[b] /\ w1 = t1.weight[b] /\ w2 = t3.weight[b]
    OBVIOUS
  <2>2. /\ n \in Nat \ {0} /\ i0 \in Int /\ i1 \in Int
        /\ Missed(n, i0, i1, w0, w1) \in (1 - n)..0
    BY <1>5, <1>13, <2>0, <2>1
  <2>3. w0 \in Int /\ w1 \in Int /\ w2 \in Int
    BY <1>0, <1>5, <1>11, <2>1
  <2>4. i2 \in Int /\ Missed(n, i1, i2, w1, w2) \in 0..(n - 1)
    <3>1. WeightMoves(qx, n, a, plus, b, w1, w2)
      BY <1>6, <1>11, <1>13, <2>0, <2>1
    <3>2. pr \in [Account -> [Level -> Int]]
      BY <1>5, <2>1
    <3>3. InfluenceMoves(qx, a, plus, b, i1, i2)
      BY <1>0, <1>7, <1>9, <2>0, <2>1, <3>2, OtherInfluence
    <3> QED BY <1>9, <2>2, <2>3, <3>1, <3>3, CallMisses
  <2>5. Missed(n, i0, i2, w0, w2) = Missed(n, i0, i1, w0, w1) + Missed(n, i1, i2, w1, w2)
    <3>1. n \in Nat \ {0}
      BY <2>2
    <3>2. i0 \in Int /\ i1 \in Int /\ i2 \in Int
      BY <2>2, <2>4
    <3> QED BY <2>3, <3>1, <3>2 DEF Missed
  <2>6. Missed(n, i0, i2, w0, w2) \in (1 - n)..(n - 1)
    <3>1. PICK d, f : d = Missed(n, i0, i1, w0, w1) /\ f = Missed(n, i1, i2, w1, w2)
      OBVIOUS
    <3>2. d + f \in (1 - n)..(n - 1)
      BY <2>2, <2>4, <3>1
    <3> QED BY <2>5, <3>1, <3>2
  <2> QED BY <1>4, <1>6, <1>10, <1>12, <2>1, <2>6
<1>14. \A b \in Account : Follows(b)
  BY <1>4, <1>7, <1>13, InfluenceIs DEF Follows
<1> QED
  BY <1>12, <1>14

\* account_witness_vote_evaluator: the voter's weight is computed anew, and what
\* it had given to a proxy is taken back.
LEMMA VoteFollows ==
    ASSUME WeightsInv, SumsInv', NEW a \in Account, NEW new \in SUBSET Witness,
           Cardinality(new) <= MaxVotes, new # votedFor[a], Vote(a, new)
    PROVE  WeightsInv' /\ \A b \in Account : Follows(b)
<1>0. /\ proxy \in Proxies /\ NoLoops(proxy) /\ shares \in [Account -> Int]
      /\ proxied \in [Account -> [Level -> Int]]
      /\ VoteTypes(votedFor) /\ VotersAtEnd(proxy, votedFor) /\ weight \in [Account -> Int]
      /\ IsTally(tally) /\ tally.proxied = proxied /\ tally.weight = weight
      /\ \A b \in Account : shares[b] >= 0
  BY WeightsInvFacts
<1>1. PICK t1 : t1 = IF proxy[a] = NoProxy THEN tally
                     ELSE adjust_proxied_witness_votes(tally, proxy, votedFor, a,
                                                       Whole(a, -1))
  OBVIOUS
<1>2. PICK t2 : t2 = Revote(t1, a, votedFor[a], new)
  OBVIOUS
<1>3. PICK qx, vf : qx = [proxy EXCEPT ![a] = NoProxy] /\ vf = [votedFor EXCEPT ![a] = new]
  OBVIOUS
<1>4. SetTally(t2) /\ proxy' = qx /\ votedFor' = vf /\ shares' = shares
  BY <1>1, <1>2, <1>3 DEF Vote
<1>5. /\ VoteTypes(vf) /\ vf[a] = new /\ \A b \in Account : b # a => vf[b] = votedFor[b]
      /\ VotersAtEnd(qx, vf)
  BY <1>0, <1>3 DEF VotersAtEnd, Proxies, VoteTypes
<1>6. /\ IsTally(t1) /\ t1.weight \in [Account -> Int]
      /\ t1.proxied \in [Account -> [Level -> Int]]
      /\ \A b \in Account : b # a /\ votedFor[b] # {} =>
            LET n == Cardinality(votedFor[b])
            IN  /\ n \in Nat \ {0}
                /\ Missed(n, Inf(shares, proxied, b), Inf(shares, t1.proxied, b),
                          weight[b], t1.weight[b]) \in (1 - n)..0
  <2>1. CASE proxy[a] # NoProxy
    <3>1. t1 = adjust_proxied_witness_votes(tally, proxy, votedFor, a, Whole(a, -1))
      BY <1>1, <2>1
    <3> QED BY <3>1, TakenMisses
  <2>2. CASE proxy[a] = NoProxy
    <3>1. IsTally(t1) /\ t1.weight = weight /\ t1.proxied = proxied
      BY <1>0, <1>1, <2>2
    <3>2. ASSUME NEW b \in Account, votedFor[b] # {}, NEW n, n = Cardinality(votedFor[b]),
                 NEW i, i = Inf(shares, proxied, b)
          PROVE  n \in Nat \ {0} /\ Missed(n, i, i, weight[b], weight[b]) \in (1 - n)..0
      <4>1. n \in Nat \ {0}
        BY <1>0, <3>2, CountOfVotes, WitnessVotesAssumption
      <4>2. i \in Int
        BY <1>0, <3>2, InfType
      <4>3. Missed(n, i, i, weight[b], weight[b]) = 0
        <5>1. weight[b] \in Int
          BY <1>0
        <5> QED BY <4>1, <4>2, <5>1 DEF Missed
      <4> QED BY <4>1, <4>3
    <3> QED BY <1>0, <3>1, <3>2
  <2> QED BY <2>1, <2>2
<1>7. PICK q : q = IF new = {} THEN 0 ELSE Inf(shares, t1.proxied, a) \div Cardinality(new)
  OBVIOUS
<1>8. /\ IsTally(t2) /\ t2.proxied = t1.proxied
      /\ t2.weight = [t1.weight EXCEPT ![a] = q]
  BY <1>2, <1>6, <1>7, InfluenceIs DEF Revote, IsTally
<1>9. /\ q \in Int
      /\ new # {} => Missed(Cardinality(new), 0, Inf(shares, t1.proxied, a), 0, q)
                        \in 0..(Cardinality(new) - 1)
  <2>1. CASE new = {}
    BY <1>7, <2>1
  <2>2. CASE new # {}
    <3>1. PICK n \in Nat \ {0} : n = Cardinality(new)
      BY <1>5, <2>2, CountOfVotes, WitnessVotesAssumption
    <3>2. t1.proxied \in [Account -> [Level -> Int]]
      BY <1>6
    <3>3. PICK i \in Int : i = Inf(shares, t1.proxied, a)
      BY <1>0, <3>2, InfType
    <3>4. q = i \div n
      BY <1>7, <2>2, <3>1, <3>3
    <3>5. q \in Int /\ n * q <= i /\ i < n * q + n /\ n * q \in Int
      BY <3>4
    <3>6. Missed(n, 0, i, 0, q) = i - n * q
      BY <3>5 DEF Missed
    <3>7. Missed(n, 0, i, 0, q) \in 0..(n - 1)
      BY <3>5, <3>6
    <3> QED BY <3>1, <3>3, <3>5, <3>7
  <2> QED BY <2>1, <2>2
<1>10. t2.weight \in [Account -> Int] /\ t2.weight[a] = q
       /\ \A b \in Account : b # a => t2.weight[b] = t1.weight[b]
  BY <1>6, <1>8, <1>9
<1>11. WeightsInv' /\ proxied' = t2.proxied /\ weight' = t2.weight
  BY <1>0, <1>4, <1>5, <1>8, <1>10, WeightsNext
<1>12. ASSUME NEW b \in Account, b # a, votedFor[b] # {}, NEW n, n = Cardinality(votedFor[b])
       PROVE  Missed(n, Inf(shares, proxied, b), Inf(shares', proxied', b), weight[b], weight'[b])
                  \in (1 - n)..(n - 1)
  <2>1. PICK d : d = Missed(n, Inf(shares, proxied, b), Inf(shares, t1.proxied, b),
                            weight[b], t1.weight[b])
    OBVIOUS
  <2>2. n \in Nat \ {0} /\ d \in (1 - n)..0
    BY <1>6, <1>12, <2>1
  <2>3. d \in (1 - n)..(n - 1)
    BY <2>2
  <2> QED BY <1>4, <1>8, <1>10, <1>11, <1>12, <2>1, <2>3
<1>13. ASSUME NEW b \in Account PROVE Follows(b)
  <2>1. CASE b = a
    <3>1. votedFor'[a] = new /\ votedFor'[a] # votedFor[a]
      BY <1>4, <1>5
    <3>2. /\ Influence(shares', proxied', a) = Inf(shares, t1.proxied, a)
          /\ weight'[a] = q
      BY <1>4, <1>8, <1>10, <1>11, InfluenceIs
    <3> QED BY <1>9, <2>1, <3>1, <3>2 DEF Follows
  <2>2. CASE b # a
    <3>1. votedFor'[b] = votedFor[b]
      BY <1>4, <1>5, <2>2
    <3> QED BY <1>12, <2>2, <3>1, InfluenceIs DEF Follows
  <2> QED BY <2>1, <2>2
<1> QED
  BY <1>11, <1>13

\* A vote changes the set of votes, within its limits.
LEMMA ApproveRejectFollows ==
    ASSUME WeightsInv, SumsInv', NEW a \in Account, NEW w \in Witness,
           Approve(a, w) \/ Reject(a, w)
    PROVE  WeightsInv' /\ \A b \in Account : Follows(b)
<1>1. votedFor[a] \in SUBSET Witness /\ Cardinality(votedFor[a]) <= MaxVotes
  BY DEF WeightsInv, VoteTypes
<1>2. IsFiniteSet(votedFor[a]) /\ Cardinality(votedFor[a]) \in Nat
  BY <1>1, FS_Subset, FS_CardinalityType, WitnessVotesAssumption
<1>3. CASE Approve(a, w)
  <2>1. Cardinality(votedFor[a] \cup {w}) = Cardinality(votedFor[a]) + 1
    BY <1>2, <1>3, FS_AddElement DEF Approve
  <2>2. Cardinality(votedFor[a] \cup {w}) <= MaxVotes
    BY <1>2, <1>3, <2>1, WitnessVotesAssumption DEF Approve
  <2>3. /\ votedFor[a] \cup {w} \in SUBSET Witness /\ Vote(a, votedFor[a] \cup {w})
        /\ votedFor[a] \cup {w} # votedFor[a]
    BY <1>1, <1>3 DEF Approve
  <2> QED BY <2>2, <2>3, VoteFollows
<1>4. CASE Reject(a, w)
  <2>1. Cardinality(votedFor[a] \ {w}) = Cardinality(votedFor[a]) - 1
    BY <1>2, <1>4, FS_RemoveElement DEF Reject
  <2>2. Cardinality(votedFor[a] \ {w}) <= MaxVotes
    BY <1>1, <1>2, <2>1, WitnessVotesAssumption
  <2>3. /\ votedFor[a] \ {w} \in SUBSET Witness /\ Vote(a, votedFor[a] \ {w})
        /\ votedFor[a] \ {w} # votedFor[a]
    BY <1>1, <1>4 DEF Reject
  <2> QED BY <2>2, <2>3, VoteFollows
<1> QED
  BY <1>3, <1>4

\* One case for every operation.
LEMMA StepFollows ==
    ASSUME WeightsInv, SumsInv', Next
    PROVE  WeightsInv' /\ \A b \in Account : Follows(b)
<1>0. shares \in [Account -> Int] /\ \A b \in Account : shares[b] >= 0
  BY WeightsInvFacts
<1>1. ASSUME NEW a \in Account, NEW x \in Amount, Deposit(a, x)
      PROVE  WeightsInv' /\ \A b \in Account : Follows(b)
  <2>1. x \in Int /\ shares[a] + x >= 0
    BY <1>0, WitnessVotesAssumption
  <2> QED BY <1>1, <2>1, ChangeFollows DEF Deposit
<1>2. ASSUME NEW a \in Account, NEW x \in Amount, Withdraw(a, x)
      PROVE  WeightsInv' /\ \A b \in Account : Follows(b)
  <2>1. PICK v \in Int : v = -x
    BY WitnessVotesAssumption
  <2>2. /\ shares' = [shares EXCEPT ![a] = @ + v] /\ shares[a] + v >= 0
        /\ proxy' = proxy /\ votedFor' = votedFor
        /\ SetTally(adjust_proxied_witness_votes(tally, proxy, votedFor, a, Own(v)))
    <3>1. /\ shares' = [shares EXCEPT ![a] = @ - x] /\ x <= shares[a]
          /\ proxy' = proxy /\ votedFor' = votedFor
          /\ SetTally(adjust_proxied_witness_votes(tally, proxy, votedFor, a, Own(-x)))
      BY <1>2 DEF Withdraw
    <3>2. shares[a] - x = shares[a] + v /\ (x <= shares[a] => shares[a] + v >= 0)
      BY <1>0, <2>1, WitnessVotesAssumption
    <3> QED BY <2>1, <3>1, <3>2
  <2> QED BY <2>2, ChangeFollows
<1> QED
  BY <1>1, <1>2, RouteFollows, ClearFollows, ProxyFollows, ApproveRejectFollows DEF Next

\* Nobody votes in the beginning.
LEMMA WeightsInvInit == ASSUME Init, SumsInv PROVE WeightsInv
<1>1. VoteTypes(votedFor) /\ \A b \in Account : votedFor[b] = {}
  BY FS_EmptySet, WitnessVotesAssumption DEF VoteTypes, Init
<1> QED
  BY <1>1 DEF WeightsInv, VotersAtEnd, Init

(***************************************************************************)
(* witnesses_vote_weight is what an account gives to each witness it votes *)
(* for; adjust_witness_votes only ever changes it by truncated quotients.  *)
(* For any number of accounts and any amounts, no operation lets the       *)
(* weight of any voter, n times, come apart from the voter's influence by  *)
(* as much as n: less than one vote is lost or won for each witness, also  *)
(* where one operation counts two differences for the same voter, and a    *)
(* vote starts from the exact quotient again.                              *)
(***************************************************************************)
THEOREM WeightsFollowInfluence == Spec => [][\A b \in Account : Follows(b)]_vars
<1>1. Init /\ SumsInv => WeightsInv
  BY WeightsInvInit
<1>2. WeightsInv /\ SumsInv' /\ [Next]_vars => WeightsInv'
  <2> SUFFICES ASSUME WeightsInv, SumsInv', UNCHANGED vars PROVE WeightsInv'
    BY StepFollows
  <2> QED BY DEF vars, WeightsInv, VoteTypes, VotersAtEnd
<1>3. WeightsInv /\ SumsInv' /\ [Next]_vars => [\A b \in Account : Follows(b)]_vars
  BY StepFollows
<1> QED
  BY <1>1, <1>2, <1>3, SumsInvHolds, PTL DEF Spec
=============================================================================
