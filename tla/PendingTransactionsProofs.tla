--------------------- MODULE PendingTransactionsProofs ---------------------
(***************************************************************************)
(* Proofs about PendingTransactions, for every set of transactions, every  *)
(* relation of exclusion and every bound.                                  *)
(***************************************************************************)
EXTENDS PendingTransactions, InductionLemmas, SequenceTheorems, TLAPS

\* The bodies of the loops of _generate_block and of the restorer.
TakeStep(when, T, t) ==
    IF Expiration[t] >= when /\ Cardinality(T) < Room /\ Applies(t, chain, T)
    THEN T \cup {t} ELSE T

RestoreStep(ch, q, t) ==
    IF t \in Known(ch) \cup q.session THEN q ELSE _push_transaction(q, t, ch)

Taking == INSTANCE FoldLemmas WITH Step <- TakeStep
Restoring == INSTANCE FoldLemmas WITH Step <- RestoreStep

\* Taken is the loop with that body.
LEMMA TakenIs == \A when : Taken(when) = Taking!Folded(when, {}, pending)
BY Taking!FoldedDef DEF Taken, TakeStep, FoldLeft, MapThenFoldSet, Max, Taking!Max, Taking!FoldRecursion

\* pending_transactions_restorer as a fold: the first c transactions are pushed again, the rest is queued.
LEMMA RestoredIs ==
    ASSUME NEW ch, NEW popped, NEW pend, NEW c
    PROVE  Restored(ch, popped, pend, c)
             = [Restoring!Folded(ch, Cleared, SubSeq(popped \o pend, 1, c))
                   EXCEPT !.pending = @ \o SubSeq(popped \o pend, c + 1, Len(popped \o pend))]
BY Restoring!FoldedDef DEF Restored, RestoreStep, FoldLeft, MapThenFoldSet, Max, Restoring!Max, Restoring!FoldRecursion

-----------------------------------------------------------------------------
(***************************************************************************)
(* No transaction twice on a chain.                                        *)
(***************************************************************************)
\* OncePerChain, of any chain.
OnceOn(ch) == \A i, j \in 1..Len(ch) : i # j => ch[i].txs \cap ch[j].txs = {}

\* What is in the blocks of a chain.
LEMMA TxsAre ==
    ASSUME NEW ch
    PROVE  \A t : t \in Txs(ch) <=> \E i \in 1..Len(ch) : t \in ch[i].txs
BY DEF Txs

\* The transactions are those of Tx, and the head has a time.
LEMMA ChainFacts ==
    ASSUME NEW ch \in Seq(Block)
    PROVE  Txs(ch) \in SUBSET Tx /\ Now(ch) \in Nat
<1>1. \A i \in 1..Len(ch) : ch[i] \in Block
  BY ElementOfSeq
<1>2. Txs(ch) \in SUBSET Tx
  BY <1>1 DEF Txs, Block
<1>3. ch # <<>> => Len(ch) \in 1..Len(ch)
  BY EmptySeq
<1> QED
  BY <1>1, <1>2, <1>3, PendingAssumption DEF Now, Last, Block, PendingAssumption

(***************************************************************************)
(* clear_expired_transactions is safe: a transaction the index has         *)
(* forgotten is one that _validate_transaction refuses.                    *)
(***************************************************************************)
LEMMA AppliedIsNew ==
    ASSUME NEW ch \in Seq(Block), NEW t \in Tx, NEW S, Applies(t, ch, S)
    PROVE  t \notin Txs(ch)
<1> SUFFICES ASSUME t \in Txs(ch) PROVE FALSE
  OBVIOUS
<1>1. ch # <<>>
  BY DEF Txs
<1>2. Now(ch) < Expiration[t]
  BY <1>1 DEF Applies, Timely
<1>3. Expiration[t] \in Nat
  BY PendingAssumption DEF PendingAssumption
<1>4. t \in Known(ch)
  BY <1>2, <1>3, ChainFacts DEF Known
<1> QED
  BY <1>4 DEF Applies

\* A block that applies keeps the chain free of repetitions.
LEMMA OnceAppend ==
    ASSUME NEW ch \in Seq(Block), NEW b \in Block, BlockApplies(b, ch), OnceOn(ch)
    PROVE  OnceOn(Append(ch, b))
<1> DEFINE new == Append(ch, b)
<1>1. /\ Len(new) = Len(ch) + 1 /\ new[Len(ch) + 1] = b /\ Len(ch) \in Nat
      /\ \A i \in 1..Len(ch) : new[i] = ch[i]
  BY AppendProperties, LenProperties
<1>2. \A t \in b.txs : t \notin Txs(ch)
  BY AppliedIsNew DEF BlockApplies, Block
<1>3. \A i \in 1..Len(ch) : ch[i].txs \cap b.txs = {}
  BY <1>2, TxsAre
<1> HIDE DEF new
<1>4. \A i, j \in 1..Len(new) : i # j => new[i].txs \cap new[j].txs = {}
  <2> TAKE i, j \in 1..Len(new)
  <2> HAVE i # j
  <2>1. CASE i \in 1..Len(ch) /\ j \in 1..Len(ch)
    BY <1>1, <2>1 DEF OnceOn
  <2>2. CASE i \in 1..Len(ch) /\ j = Len(ch) + 1
    BY <1>1, <1>3, <2>2
  <2>3. CASE i = Len(ch) + 1 /\ j \in 1..Len(ch)
    <3>1. ch[j].txs \cap b.txs = {}
      BY <1>3, <2>3
    <3> QED BY <1>1, <2>3, <3>1
  <2> QED BY <1>1, <2>1, <2>2, <2>3
<1> QED
  BY <1>4 DEF OnceOn, new

\* Nor does a prefix have any.
LEMMA OncePrefix ==
    ASSUME NEW ch \in Seq(Block), NEW m \in 0..Len(ch), OnceOn(ch)
    PROVE  SubSeq(ch, 1, m) \in Seq(Block) /\ OnceOn(SubSeq(ch, 1, m))
<1> DEFINE pre == SubSeq(ch, 1, m)
<1>1. /\ pre \in Seq(Block) /\ Len(pre) = m /\ m <= Len(ch) /\ m \in Nat
      /\ \A i \in 1..m : pre[i] = ch[i] /\ i \in 1..Len(ch)
  OBVIOUS
<1> HIDE DEF pre
<1>2. OnceOn(pre)
  BY <1>1 DEF OnceOn
<1> QED
  BY <1>1, <1>2 DEF pre

\* The blocks that may come after bs on ch, and the function by which
\* Extensions is defined.
NextBlocks(ch, bs) == {b \in Block : Cardinality(b.txs) <= Room /\ BlockApplies(b, ch \o bs)}

Longer(ch, E) == UNION {{Append(bs, b) : b \in NextBlocks(ch, bs)} : bs \in E}

ExtFunction(ch, n, e) ==
    e = [k \in 0..n |-> IF k = 0 THEN {<<>>} ELSE Longer(ch, e[k - 1])]

\* The definition, unfolded.
LEMMA ExtensionsDef ==
    \A ch, n : Extensions(ch, n) = (CHOOSE e : ExtFunction(ch, n, e))[n]
BY DEF Extensions, ExtFunction, Longer, NextBlocks

\* There is such a function.
LEMMA ExtFunctionExists ==
    ASSUME NEW ch
    PROVE  \A n \in Nat : \E e : ExtFunction(ch, n, e)
<1> DEFINE T == {n \in Nat : \E e : ExtFunction(ch, n, e)}
<1>1. 0 \in T
  <2> DEFINE e == [k \in 0..0 |-> {<<>>}]
  <2>1. ExtFunction(ch, 0, e)
    BY DEF ExtFunction
  <2> QED BY <2>1
<1>2. ASSUME NEW n \in Nat, n \in T PROVE n + 1 \in T
  <2>1. PICK f : ExtFunction(ch, n, f)
    BY <1>2
  <2> DEFINE e == [k \in 0..(n + 1) |-> IF k <= n THEN f[k] ELSE Longer(ch, f[n])]
  <2>2. \A k \in 0..n : e[k] = f[k]
    OBVIOUS
  <2>3. ASSUME NEW k \in 0..(n + 1)
        PROVE  e[k] = IF k = 0 THEN {<<>>} ELSE Longer(ch, e[k - 1])
    <3>1. CASE k = n + 1
      <4>1. e[n + 1] = Longer(ch, f[n]) /\ k - 1 = n /\ k # 0 /\ n \in 0..n
        BY <3>1
      <4> QED BY <2>2, <3>1, <4>1
    <3>2. CASE k # n + 1
      <4>1. k \in 0..n /\ (k # 0 => k - 1 \in 0..n)
        BY <3>2
      <4>2. f[k] = IF k = 0 THEN {<<>>} ELSE Longer(ch, f[k - 1])
        BY <2>1, <4>1 DEF ExtFunction
      <4> HIDE DEF e
      <4> QED BY <2>2, <4>1, <4>2
    <3> QED BY <3>1, <3>2
  <2>4. e = [k \in 0..(n + 1) |-> e[k]]
    OBVIOUS
  <2>5. ExtFunction(ch, n + 1, e)
    <3> HIDE DEF e
    <3> QED BY <2>3, <2>4 DEF ExtFunction
  <2> QED BY <2>5
<1>3. \A n \in Nat : n \in T
  <2> HIDE DEF T
  <2> QED BY <1>1, <1>2, NatInduct
<1> QED
  BY <1>3

(***************************************************************************)
(* However a fork continues, whoever produced its blocks, a chain without  *)
(* repetitions stays without them.                                         *)
(***************************************************************************)
LEMMA ExtensionsOnce ==
    ASSUME NEW ch \in Seq(Block), NEW n \in Nat, OnceOn(ch), NEW bs \in Extensions(ch, n)
    PROVE  bs \in Seq(Block) /\ ch \o bs \in Seq(Block) /\ OnceOn(ch \o bs)
<1>1. PICK e : e = CHOOSE g : ExtFunction(ch, n, g)
  OBVIOUS
<1>2. ExtFunction(ch, n, e) /\ Extensions(ch, n) = e[n]
  <2>1. \E g : ExtFunction(ch, n, g)
    BY ExtFunctionExists
  <2> QED BY <1>1, <2>1, ExtensionsDef, Zenon
<1> DEFINE T == {k \in Nat : k <= n => \A x \in e[k] : x \in Seq(Block) /\ OnceOn(ch \o x)}
<1>3. 0 \in T
  <2>1. e[0] = {<<>>}
    BY <1>2 DEF ExtFunction
  <2>2. ch \o <<>> = ch /\ <<>> \in Seq(Block)
    BY ConcatEmptySeq, EmptySeq
  <2> QED BY <2>1, <2>2
<1>4. ASSUME NEW k \in Nat, k \in T PROVE k + 1 \in T
  <2> SUFFICES ASSUME k + 1 <= n, NEW x \in e[k + 1]
               PROVE  x \in Seq(Block) /\ OnceOn(ch \o x)
    OBVIOUS
  <2>1. e[k + 1] = Longer(ch, e[k])
    <3>1. k + 1 \in 0..n /\ k + 1 # 0 /\ (k + 1) - 1 = k
      OBVIOUS
    <3> QED BY <1>2, <3>1 DEF ExtFunction
  <2>2. PICK y \in e[k] : \E b \in NextBlocks(ch, y) : x = Append(y, b)
    BY <2>1 DEF Longer
  <2>3. PICK b \in NextBlocks(ch, y) : x = Append(y, b)
    BY <2>2
  <2>4. y \in Seq(Block) /\ OnceOn(ch \o y) /\ ch \o y \in Seq(Block)
    BY <1>4, <2>2, ConcatProperties
  <2>5. b \in Block /\ BlockApplies(b, ch \o y)
    BY <2>3 DEF NextBlocks
  <2>6. OnceOn(Append(ch \o y, b))
    BY <2>4, <2>5, OnceAppend
  <2>7. Append(ch \o y, b) = ch \o Append(y, b) /\ Append(y, b) \in Seq(Block)
    <3>1. <<b>> \in Seq(Block)
      BY <2>5
    <3>2. Append(ch \o y, b) = (ch \o y) \o <<b>> /\ Append(y, b) = y \o <<b>>
      BY <2>4, <2>5, AppendIsConcat
    <3> QED BY <2>4, <2>5, <3>1, <3>2, ConcatAssociative, AppendProperties
  <2> QED BY <2>3, <2>6, <2>7
<1>5. \A k \in Nat : k \in T
  <2> HIDE DEF T
  <2> QED BY <1>3, <1>4, NatInduct
<1> QED
  BY <1>2, <1>5, ConcatProperties

-----------------------------------------------------------------------------
(***************************************************************************)
(* The transactions of popped blocks, as a sequence.                       *)
(***************************************************************************)
\* What is in a sequence is at one of its positions.
LEMMA RangeIs ==
    ASSUME NEW V, NEW s \in Seq(V)
    PROVE  /\ Range(s) \in SUBSET V
           /\ \A x : x \in Range(s) <=> \E i \in 1..Len(s) : x = s[i]
BY LenProperties DEF Range

\* A concatenation has what its parts have.
LEMMA RangeConcat ==
    ASSUME NEW V, NEW s \in Seq(V), NEW r \in Seq(V)
    PROVE  s \o r \in Seq(V) /\ Range(s \o r) = Range(s) \cup Range(r)
<1>1. s \o r \in Seq(V) /\ Len(s \o r) = Len(s) + Len(r) /\ Len(s) \in Nat /\ Len(r) \in Nat
  BY ConcatProperties, LenProperties
<1>2. \A i \in 1..Len(s) : (s \o r)[i] = s[i] /\ i \in 1..Len(s \o r)
  BY <1>1, ConcatProperties
<1>3. \A i \in 1..Len(r) : (s \o r)[Len(s) + i] = r[i] /\ Len(s) + i \in 1..Len(s \o r)
  <2> TAKE i \in 1..Len(r)
  <2>1. Len(s) + i \in 1..(Len(s) + Len(r)) /\ ~(Len(s) + i <= Len(s)) /\ (Len(s) + i) - Len(s) = i
    BY <1>1
  <2> QED BY <1>1, <2>1, ConcatProperties
<1>4. \A i \in 1..Len(s \o r) : i \in 1..Len(s) \/ \E j \in 1..Len(r) : i = Len(s) + j
  <2> TAKE i \in 1..Len(s \o r)
  <2>1. i \notin 1..Len(s) => i - Len(s) \in 1..Len(r) /\ i = Len(s) + (i - Len(s))
    BY <1>1
  <2> QED BY <2>1
<1>5. ASSUME NEW x PROVE x \in Range(s \o r) <=> x \in Range(s) \/ x \in Range(r)
  <2>1. x \in Range(s) => x \in Range(s \o r)
    <3> SUFFICES ASSUME x \in Range(s) PROVE x \in Range(s \o r)
      OBVIOUS
    <3>1. PICK i \in 1..Len(s) : x = s[i]
      BY RangeIs
    <3>2. i \in 1..Len(s \o r) /\ x = (s \o r)[i]
      BY <1>2, <3>1
    <3> QED BY <1>1, <3>2, RangeIs
  <2>2. x \in Range(r) => x \in Range(s \o r)
    <3> SUFFICES ASSUME x \in Range(r) PROVE x \in Range(s \o r)
      OBVIOUS
    <3>1. PICK i \in 1..Len(r) : x = r[i]
      BY RangeIs
    <3>2. Len(s) + i \in 1..Len(s \o r) /\ x = (s \o r)[Len(s) + i]
      BY <1>3, <3>1
    <3> QED BY <1>1, <3>2, RangeIs
  <2>3. x \in Range(s \o r) => x \in Range(s) \/ x \in Range(r)
    <3> SUFFICES ASSUME x \in Range(s \o r) PROVE x \in Range(s) \/ x \in Range(r)
      OBVIOUS
    <3>1. PICK i \in 1..Len(s \o r) : x = (s \o r)[i]
      BY <1>1, RangeIs
    <3>2. CASE i \in 1..Len(s)
      BY <1>2, <3>1, <3>2, RangeIs
    <3>3. CASE \E j \in 1..Len(r) : i = Len(s) + j
      BY <1>3, <3>1, <3>3, RangeIs
    <3> QED BY <1>4, <3>2, <3>3
  <2> QED BY <2>1, <2>2, <2>3
<1> QED
  BY <1>1, <1>5

\* SetToSeq lists all of a set.
LEMMA SetToSeqLists ==
    ASSUME NEW S \in SUBSET Tx
    PROVE  SetToSeq(S) \in Seq(Tx) /\ Range(SetToSeq(S)) = S
<1>1. IsFiniteSet(S)
  BY PendingAssumption, FS_Subset DEF PendingAssumption
<1>2. PICK n : n = Cardinality(S)
  OBVIOUS
<1>3. n \in Nat /\ ExistsBijection(1..n, S)
  BY <1>1, <1>2, FS_CardinalityType
<1>4. \E f \in [1..n -> S] : IsInjective(f)
  BY <1>3 DEF ExistsBijection, Bijection, Injection, IsInjective
<1>5. PICK f : f = SetToSeq(S)
  OBVIOUS
<1>6. f \in [1..n -> S] /\ IsInjective(f)
  BY <1>2, <1>4, <1>5, Zenon DEF SetToSeq
<1>7. f \in Injection(1..n, S)
  BY <1>6 DEF Injection, IsInjective
<1>8. f \in Surjection(1..n, S)
  <2>1. Cardinality(1..n) = n
    BY <1>3, FS_Interval
  <2> QED BY <1>1, <1>2, <1>7, <2>1, FS_Injection
<1>9. f \in Seq(Tx)
  BY <1>3, <1>6
<1>10. Range(f) = S
  BY <1>6, <1>8 DEF Range, Surjection
<1> QED
  BY <1>5, <1>9, <1>10

\* The function by which FlattenSeq is defined.
FlatFunction(seqs, n, f) ==
    f = [i \in 1..n |-> IF i = 1 THEN seqs[i] ELSE f[i - 1] \o seqs[i]]

\* The definition, unfolded.
LEMMA FlattenDef ==
    \A seqs : FlattenSeq(seqs) = IF Len(seqs) = 0 THEN seqs
                 ELSE (CHOOSE f : FlatFunction(seqs, Len(seqs), f))[Len(seqs)]
BY DEF FlattenSeq, FlatFunction

\* There is such a function.
LEMMA FlatFunctionExists ==
    ASSUME NEW seqs
    PROVE  \A n \in Nat : \E f : FlatFunction(seqs, n, f)
<1> DEFINE T == {n \in Nat : \E f : FlatFunction(seqs, n, f)}
<1>1. 0 \in T
  <2> DEFINE f == [i \in 1..0 |-> i]
  <2>1. FlatFunction(seqs, 0, f)
    BY DEF FlatFunction
  <2> QED BY <2>1
<1>2. ASSUME NEW n \in Nat, n \in T PROVE n + 1 \in T
  <2>1. PICK g : FlatFunction(seqs, n, g)
    BY <1>2
  <2> DEFINE f == [i \in 1..(n + 1) |-> IF i <= n THEN g[i]
                                        ELSE IF i = 1 THEN seqs[i] ELSE g[i - 1] \o seqs[i]]
  <2>2. \A i \in 1..n : f[i] = g[i]
    OBVIOUS
  <2>3. ASSUME NEW i \in 1..(n + 1)
        PROVE  f[i] = IF i = 1 THEN seqs[i] ELSE f[i - 1] \o seqs[i]
    <3>1. CASE i = n + 1
      <4>1. f[i] = (IF i = 1 THEN seqs[i] ELSE g[i - 1] \o seqs[i]) /\ (i # 1 => i - 1 \in 1..n)
        BY <3>1
      <4> HIDE DEF f
      <4> QED BY <2>2, <4>1
    <3>2. CASE i # n + 1
      <4>1. i \in 1..n /\ (i # 1 => i - 1 \in 1..n)
        BY <3>2
      <4>2. g[i] = IF i = 1 THEN seqs[i] ELSE g[i - 1] \o seqs[i]
        BY <2>1, <4>1 DEF FlatFunction
      <4> HIDE DEF f
      <4> QED BY <2>2, <4>1, <4>2
    <3> QED BY <3>1, <3>2
  <2>4. f = [i \in 1..(n + 1) |-> f[i]]
    OBVIOUS
  <2>5. FlatFunction(seqs, n + 1, f)
    <3> HIDE DEF f
    <3> QED BY <2>3, <2>4 DEF FlatFunction
  <2> QED BY <2>5
<1>3. \A n \in Nat : n \in T
  <2> HIDE DEF T
  <2> QED BY <1>1, <1>2, NatInduct
<1> QED
  BY <1>3

\* FlattenSeq has all that its parts have.
LEMMA FlattenHasAll ==
    ASSUME NEW V, NEW seqs \in Seq(Seq(V))
    PROVE  /\ FlattenSeq(seqs) \in Seq(V)
           /\ \A i \in 1..Len(seqs) : Range(seqs[i]) \subseteq Range(FlattenSeq(seqs))
<1>1. CASE Len(seqs) = 0
  <2>1. FlattenSeq(seqs) = seqs /\ seqs = <<>> /\ 1..0 = {}
    BY <1>1, FlattenDef, EmptySeq
  <2> QED BY <1>1, <2>1, EmptySeq
<1>2. CASE Len(seqs) # 0
  <2>0. PICK n : n = Len(seqs)
    OBVIOUS
  <2>1. n \in Nat /\ n >= 1 /\ \A i \in 1..n : seqs[i] \in Seq(V)
    BY <1>2, <2>0, LenProperties, ElementOfSeq
  <2>2. PICK f : f = CHOOSE g : FlatFunction(seqs, n, g)
    OBVIOUS
  <2>3. FlatFunction(seqs, n, f)
    <3>1. \E g : FlatFunction(seqs, n, g)
      BY <2>1, FlatFunctionExists
    <3> QED BY <2>2, <3>1, Zenon
  <2>4. FlattenSeq(seqs) = f[n]
    BY <1>2, <2>0, <2>2, FlattenDef
  <2> DEFINE Good(k) == f[k] \in Seq(V) /\ \A i \in 1..k : Range(seqs[i]) \subseteq Range(f[k])
             T == {k \in Nat : k + 1 <= n => Good(k + 1)}
  <2>5. 0 \in T
    <3>1. f[1] = seqs[1] /\ f[1] \in Seq(V)
      BY <2>1, <2>3 DEF FlatFunction
    <3>2. \A i \in 1..1 : i = 1
      OBVIOUS
    <3>3. Good(1)
      BY <3>1, <3>2
    <3> QED BY <3>3
  <2>6. ASSUME NEW k \in Nat, k \in T PROVE k + 1 \in T
    <3> SUFFICES ASSUME (k + 1) + 1 <= n PROVE Good((k + 1) + 1)
      OBVIOUS
    <3> DEFINE m == k + 1
    <3>1. m \in Nat /\ m + 1 \in 1..n /\ m + 1 # 1 /\ (m + 1) - 1 = m /\ m + 1 <= n
      OBVIOUS
    <3>2. Good(m)
      BY <2>1, <2>6
    <3> HIDE DEF m
    <3>3. f[m + 1] = f[m] \o seqs[m + 1]
      BY <2>3, <3>1 DEF FlatFunction
    <3>4. f[m + 1] \in Seq(V) /\ Range(f[m + 1]) = Range(f[m]) \cup Range(seqs[m + 1])
      BY <2>1, <3>1, <3>2, <3>3, RangeConcat
    <3>5. \A i \in 1..(m + 1) : i \in 1..m \/ i = m + 1
      BY <3>1
    <3>6. Good(m + 1)
      BY <3>2, <3>4, <3>5, Zenon
    <3> QED BY <3>6 DEF m
  <2>7. \A k \in Nat : k \in T
    <3> HIDE DEF T
    <3> QED BY <2>5, <2>6, NatInduct
  <2>8. Good(n)
    <3>1. n - 1 \in Nat /\ (n - 1) + 1 = n /\ (n - 1) + 1 <= n
      BY <2>1
    <3>2. (n - 1) + 1 <= n => Good((n - 1) + 1)
      BY <2>7, <3>1
    <3> QED BY <3>1, <3>2
  <2> QED BY <2>0, <2>4, <2>8
<1> QED
  BY <1>1, <1>2

(***************************************************************************)
(* pop_block puts all transactions of a block into _popped_tx.             *)
(***************************************************************************)
LEMMA InOrderHasAll ==
    ASSUME NEW bs \in Seq(Block)
    PROVE  InOrder(bs) \in Seq(Tx) /\ Txs(bs) \subseteq Range(InOrder(bs))
<1> DEFINE seqs == [i \in 1..Len(bs) |-> SetToSeq(bs[i].txs)]
<1>1. Len(bs) \in Nat /\ \A i \in 1..Len(bs) : bs[i].txs \in SUBSET Tx
  <2>1. Len(bs) \in Nat /\ \A i \in 1..Len(bs) : bs[i] \in Block
    BY LenProperties, ElementOfSeq
  <2> QED BY <2>1 DEF Block
<1>2. \A i \in 1..Len(bs) : SetToSeq(bs[i].txs) \in Seq(Tx) /\ Range(SetToSeq(bs[i].txs)) = bs[i].txs
  BY <1>1, SetToSeqLists
<1>3. seqs \in Seq(Seq(Tx)) /\ Len(seqs) = Len(bs)
  BY <1>1, <1>2
<1>4. \A i \in 1..Len(bs) : Range(seqs[i]) = bs[i].txs
  BY <1>2
<1>5. InOrder(bs) = FlattenSeq(seqs)
  BY DEF InOrder
<1> HIDE DEF seqs
<1>6. /\ FlattenSeq(seqs) \in Seq(Tx)
      /\ \A i \in 1..Len(seqs) : Range(seqs[i]) \subseteq Range(FlattenSeq(seqs))
  BY <1>3, FlattenHasAll
<1>7. ASSUME NEW t \in Txs(bs) PROVE t \in Range(InOrder(bs))
  <2>1. PICK i \in 1..Len(bs) : t \in bs[i].txs
    BY TxsAre
  <2> QED BY <1>3, <1>4, <1>5, <1>6, <2>1
<1> QED
  BY <1>5, <1>6, <1>7

-----------------------------------------------------------------------------
(***************************************************************************)
(* What the loop of _generate_block takes applies together.                *)
(***************************************************************************)
Together(T) == T \in SUBSET Tx /\ \A t \in T : Applies(t, chain, T \ {t})

\* One more round of the loop keeps the taken transactions compatible.
LEMMA TakeStepTogether ==
    ASSUME NEW T, Together(T), NEW x \in Tx, NEW when
    PROVE  Together(TakeStep(when, T, x))
<1>1. CASE Applies(x, chain, T)
  <2>1. T \cup {x} \in SUBSET Tx
    BY DEF Together
  <2>2. Applies(x, chain, (T \cup {x}) \ {x})
    <3>1. (T \cup {x}) \ {x} = T
      BY <1>1 DEF Applies
    <3> QED BY <1>1, <3>1
  <2>3. ASSUME NEW t \in T PROVE Applies(t, chain, (T \cup {x}) \ {t})
    <3>1. t # x /\ {x, t} \notin Excludes
      BY <1>1 DEF Applies
    <3>2. Applies(t, chain, T \ {t})
      BY DEF Together
    <3>3. {t, x} = {x, t}
      OBVIOUS
    <3>4. \A u \in (T \cup {x}) \ {t} : u \in T \ {t} \/ u = x
      OBVIOUS
    <3> QED BY <3>1, <3>2, <3>3, <3>4 DEF Applies
  <2>4. Together(T \cup {x})
    BY <2>1, <2>2, <2>3 DEF Together
  <2> QED BY <2>4 DEF TakeStep
<1>2. CASE ~Applies(x, chain, T)
  BY <1>2 DEF TakeStep
<1> QED
  BY <1>1, <1>2

\* And so at every round of the loop.
LEMMA TakenTogether ==
    ASSUME pending \in Seq(Tx), NEW when
    PROVE  Together(Taken(when))
<1> DEFINE F(n) == Taking!Folded(when, {}, SubSeq(pending, 1, n))
           T == {n \in Nat : n <= Len(pending) => Together(F(n))}
<1>1. 0 \in T
  <2>1. SubSeq(pending, 1, 0) = <<>>
    BY SubSeqEmpty
  <2>2. F(0) = {}
    BY <2>1, Taking!FoldedEmpty
  <2>3. Together({})
    BY DEF Together
  <2> HIDE DEF F
  <2> QED BY <2>2, <2>3
<1>2. ASSUME NEW n \in Nat, n \in T PROVE n + 1 \in T
  <2> SUFFICES ASSUME n + 1 <= Len(pending) PROVE Together(F(n + 1))
    OBVIOUS
  <2>1. n + 1 \in 1..Len(pending) /\ (n + 1) - 1 = n /\ n <= Len(pending) /\ pending[n + 1] \in Tx
    BY LenProperties, ElementOfSeq
  <2>2. F(n + 1) = TakeStep(when, F((n + 1) - 1), pending[n + 1])
    BY <2>1, Taking!FoldedStep
  <2>3. Together(F(n))
    BY <1>2, <2>1
  <2> HIDE DEF F
  <2> QED BY <2>1, <2>2, <2>3, TakeStepTogether
<1>3. \A n \in Nat : n \in T
  <2> HIDE DEF T
  <2> QED BY <1>1, <1>2, NatInduct
<1>4. Together(F(Len(pending)))
  <2>1. Len(pending) \in Nat /\ Len(pending) <= Len(pending)
    BY LenProperties
  <2> HIDE DEF F
  <2> QED BY <1>3, <2>1
<1> QED
  BY <1>4, SubSeqFull, TakenIs

-----------------------------------------------------------------------------
(***************************************************************************)
(* The restorer.  A transaction it has come to is in the chain or in the   *)
(* queue P, or is late, or is excluded by one that is.                     *)
(***************************************************************************)
Kept(t, ch, P) ==
    Timely(t, ch) /\ (\A u \in Txs(ch) \cup P : {t, u} \notin Excludes)
        => t \in Txs(ch) \cup P

\* The queue, and what is applied of it.
Queue(q) ==
    /\ q \in [pending : Seq(Tx), open : BOOLEAN, session : SUBSET Tx]
    /\ ~q.open => q.session = {}

\* A longer queue keeps what a shorter one keeps.
LEMMA KeptMore ==
    ASSUME NEW t, NEW ch, NEW P, NEW R, P \subseteq R, Kept(t, ch, P)
    PROVE  Kept(t, ch, R)
BY DEF Kept

\* What _push_transaction makes of a queue.
LEMMA PushedQueue ==
    ASSUME NEW q, Queue(q), NEW t \in Tx, NEW ch
    PROVE  /\ Queue(_push_transaction(q, t, ch))
           /\ Range(_push_transaction(q, t, ch).pending)
                = Range(q.pending) \cup (IF Applies(t, ch, q.session) THEN {t} ELSE {})
           /\ _push_transaction(q, t, ch).session
                = q.session \cup (IF Applies(t, ch, q.session) THEN {t} ELSE {})
<1> DEFINE r == _push_transaction(q, t, ch)
<1>0. q.pending \in Seq(Tx) /\ q.session \in SUBSET Tx
  BY DEF Queue
<1>1. CASE Applies(t, ch, q.session)
  <2>1. r = [pending |-> Append(q.pending, t), open |-> TRUE, session |-> q.session \cup {t}]
    BY <1>1 DEF _push_transaction
  <2>2. <<t>> \in Seq(Tx) /\ Append(q.pending, t) = q.pending \o <<t>> /\ Range(<<t>>) = {t}
    BY <1>0, AppendIsConcat DEF Range
  <2>3. Range(Append(q.pending, t)) = Range(q.pending) \cup {t} /\ Append(q.pending, t) \in Seq(Tx)
    <3>1. /\ q.pending \o <<t>> \in Seq(Tx)
          /\ Range(q.pending \o <<t>>) = Range(q.pending) \cup Range(<<t>>)
      BY <1>0, <2>2, RangeConcat, ZenonT(60)
    <3> QED BY <2>2, <3>1, Zenon
  <2>4. r.pending = Append(q.pending, t) /\ r.session = q.session \cup {t} /\ r.open = TRUE
    BY <2>1
  <2>5. Queue(r)
    BY <1>0, <2>1, <2>3 DEF Queue
  <2> HIDE DEF r
  <2>6. Range(r.pending) = Range(q.pending) \cup {t}
    BY <2>3, <2>4
  <2> QED BY <1>1, <2>4, <2>5, <2>6 DEF r
<1>2. CASE ~Applies(t, ch, q.session)
  <2>1. r = [q EXCEPT !.open = TRUE]
    BY <1>2 DEF _push_transaction
  <2>2. Queue(r) /\ r.pending = q.pending /\ r.session = q.session
    BY <2>1 DEF Queue
  <2> HIDE DEF r
  <2> QED BY <1>2, <2>2 DEF r
<1> QED
  BY <1>1, <1>2

\* One round of the restorer's loop.
LEMMA RestoreStepKeeps ==
    ASSUME NEW q, Queue(q), q.session \subseteq Range(q.pending), NEW ch, NEW t \in Tx
    PROVE  /\ Queue(RestoreStep(ch, q, t))
           /\ RestoreStep(ch, q, t).session \subseteq Range(RestoreStep(ch, q, t).pending)
           /\ Range(q.pending) \subseteq Range(RestoreStep(ch, q, t).pending)
           /\ Kept(t, ch, Range(RestoreStep(ch, q, t).pending))
<1>1. CASE t \in Known(ch) \cup q.session
  <2>1. RestoreStep(ch, q, t) = q
    BY <1>1 DEF RestoreStep
  <2>2. t \in Txs(ch) \cup Range(q.pending)
    BY <1>1 DEF Known
  <2> QED BY <2>1, <2>2 DEF Kept
<1>2. CASE t \notin Known(ch) \cup q.session
  <2>1. PICK r : r = _push_transaction(q, t, ch)
    OBVIOUS
  <2>2. RestoreStep(ch, q, t) = r
    BY <1>2, <2>1 DEF RestoreStep
  <2>3. /\ Queue(r)
        /\ Range(r.pending) = Range(q.pending) \cup (IF Applies(t, ch, q.session) THEN {t} ELSE {})
        /\ r.session = q.session \cup (IF Applies(t, ch, q.session) THEN {t} ELSE {})
    BY <2>1, PushedQueue
  <2>4. r.session \subseteq Range(r.pending) /\ Range(q.pending) \subseteq Range(r.pending)
    BY <2>3
  <2>5. Kept(t, ch, Range(r.pending))
    <3>1. CASE Applies(t, ch, q.session)
      BY <2>3, <3>1 DEF Kept
    <3>2. CASE ~Applies(t, ch, q.session)
      <4>1. ~Timely(t, ch) \/ \E u \in Txs(ch) \cup q.session : {t, u} \in Excludes
        BY <1>2, <3>2 DEF Applies
      <4> QED BY <2>4, <2>3, <4>1 DEF Kept
    <3> QED BY <3>1, <3>2
  <2> QED BY <2>2, <2>3, <2>4, <2>5
<1> QED
  BY <1>1, <1>2

\* After the first n rounds of the loop over all.
KeptSoFar(ch, all, n, q) ==
    /\ Queue(q) /\ q.session \subseteq Range(q.pending)
    /\ \A i \in 1..n : Kept(all[i], ch, Range(q.pending))

\* Every round of the restorer's loop keeps what it has put back.
LEMMA RestoredSoFar ==
    ASSUME NEW ch, NEW all \in Seq(Tx)
    PROVE  \A n \in 0..Len(all) :
              KeptSoFar(ch, all, n, Restoring!Folded(ch, Cleared, SubSeq(all, 1, n)))
<1> DEFINE F(n) == Restoring!Folded(ch, Cleared, SubSeq(all, 1, n))
           T == {n \in Nat : n <= Len(all) => KeptSoFar(ch, all, n, F(n))}
<1>1. 0 \in T
  <2>1. SubSeq(all, 1, 0) = <<>>
    BY SubSeqEmpty
  <2>2. F(0) = Cleared
    BY <2>1, Restoring!FoldedEmpty
  <2>3. Queue(Cleared) /\ Cleared.session \subseteq Range(Cleared.pending)
    BY EmptySeq DEF Queue, Cleared
  <2>4. KeptSoFar(ch, all, 0, Cleared)
    BY <2>3 DEF KeptSoFar
  <2> HIDE DEF F
  <2> QED BY <2>2, <2>4
<1>2. ASSUME NEW n \in Nat, n \in T PROVE n + 1 \in T
  <2> SUFFICES ASSUME n + 1 <= Len(all) PROVE KeptSoFar(ch, all, n + 1, F(n + 1))
    OBVIOUS
  <2>1. n + 1 \in 1..Len(all) /\ (n + 1) - 1 = n /\ n <= Len(all) /\ all[n + 1] \in Tx
    BY LenProperties, ElementOfSeq
  <2>2. F(n + 1) = RestoreStep(ch, F((n + 1) - 1), all[n + 1])
    BY <2>1, Restoring!FoldedStep
  <2>3. KeptSoFar(ch, all, n, F(n))
    BY <1>2, <2>1
  <2>4. PICK q : q = F(n)
    OBVIOUS
  <2>5. PICK r : r = F(n + 1)
    OBVIOUS
  <2> HIDE DEF F
  <2>6. r = RestoreStep(ch, q, all[n + 1])
    BY <2>1, <2>2, <2>4, <2>5
  <2>7. Queue(q) /\ q.session \subseteq Range(q.pending) /\ \A i \in 1..n : Kept(all[i], ch, Range(q.pending))
    BY <2>3, <2>4 DEF KeptSoFar
  <2>8. /\ Queue(r) /\ r.session \subseteq Range(r.pending)
        /\ Range(q.pending) \subseteq Range(r.pending)
        /\ Kept(all[n + 1], ch, Range(r.pending))
    BY <2>1, <2>6, <2>7, RestoreStepKeeps
  <2>9. ASSUME NEW i \in 1..(n + 1) PROVE Kept(all[i], ch, Range(r.pending))
    <3>1. i \in 1..n \/ i = n + 1
      OBVIOUS
    <3> QED BY <2>7, <2>8, <3>1, KeptMore
  <2> QED BY <2>5, <2>8, <2>9 DEF KeptSoFar
<1>3. \A n \in Nat : n \in T
  <2> HIDE DEF T
  <2> QED BY <1>1, <1>2, NatInduct
<1>4. \A n \in 0..Len(all) : n \in Nat /\ n <= Len(all)
  BY LenProperties
<1> QED
  BY <1>3, <1>4

(***************************************************************************)
(* The restorer loses nothing, wherever its time limit strikes: what it    *)
(* was given is in the chain or in the queue, or it is late, or excluded.  *)
(***************************************************************************)
LEMMA RestoredKeeps ==
    ASSUME NEW ch, NEW popped \in Seq(Tx), NEW pend \in Seq(Tx), NEW c \in 0..Len(popped \o pend)
    PROVE  /\ Queue(Restored(ch, popped, pend, c))
           /\ \A t \in Range(popped) \cup Range(pend) :
                 Kept(t, ch, Range(Restored(ch, popped, pend, c).pending))
<1>0. PICK all : all = popped \o pend
  OBVIOUS
<1>1. all \in Seq(Tx) /\ Range(all) = Range(popped) \cup Range(pend) /\ Len(all) \in Nat
      /\ c \in 0..Len(all) /\ c \in Nat /\ c <= Len(all)
  BY <1>0, RangeConcat, LenProperties
<1>2. PICK q : q = Restoring!Folded(ch, Cleared, SubSeq(all, 1, c))
  OBVIOUS
<1>3. PICK rest : rest = SubSeq(all, c + 1, Len(all))
  OBVIOUS
<1>4. PICK r : r = Restored(ch, popped, pend, c)
  OBVIOUS
<1>5. r = [q EXCEPT !.pending = q.pending \o rest]
  BY <1>0, <1>2, <1>3, <1>4, RestoredIs, Zenon
<1>6. KeptSoFar(ch, all, c, q)
  BY <1>1, <1>2, RestoredSoFar
<1>7. rest \in Seq(Tx) /\ \A i \in (c + 1)..Len(all) : all[i] \in Range(rest)
  <2>1. \A i \in (c + 1)..Len(all) : all[i] \in Tx
    BY <1>1, ElementOfSeq
  <2>2. /\ rest \in Seq(Tx)
        /\ Len(rest) = IF c + 1 <= Len(all) THEN Len(all) - (c + 1) + 1 ELSE 0
        /\ \A i \in 1..(Len(all) - (c + 1) + 1) : rest[i] = all[(c + 1) + i - 1]
    BY <1>1, <1>3, <2>1, SubSeqProperties
  <2>3. ASSUME NEW i \in (c + 1)..Len(all) PROVE all[i] \in Range(rest)
    <3>1. i - c \in 1..(Len(all) - (c + 1) + 1) /\ (c + 1) + (i - c) - 1 = i /\ c + 1 <= Len(all)
      BY <1>1
    <3>2. rest[i - c] = all[i] /\ i - c \in 1..Len(rest)
      BY <2>2, <3>1
    <3> QED BY <2>2, <3>2, RangeIs
  <2> QED BY <2>2, <2>3
<1>8. q.pending \in Seq(Tx) /\ Queue(q)
  BY <1>6 DEF KeptSoFar, Queue
<1>9. /\ q.pending \o rest \in Seq(Tx)
      /\ Range(q.pending \o rest) = Range(q.pending) \cup Range(rest)
  BY <1>7, <1>8, RangeConcat
<1>10. Queue(r) /\ r.pending = q.pending \o rest
  BY <1>5, <1>8, <1>9 DEF Queue
<1>11. ASSUME NEW t \in Range(all) PROVE Kept(t, ch, Range(r.pending))
  <2>1. PICK i \in 1..Len(all) : t = all[i]
    BY <1>1, RangeIs
  <2>2. CASE i \in 1..c
    <3>1. Kept(t, ch, Range(q.pending))
      BY <1>6, <2>1, <2>2 DEF KeptSoFar
    <3> QED BY <1>9, <1>10, <3>1, KeptMore
  <2>3. CASE i \in (c + 1)..Len(all)
    <3>1. t \in Range(r.pending)
      BY <1>7, <1>9, <1>10, <2>1, <2>3
    <3> QED BY <3>1 DEF Kept
  <2> QED BY <1>1, <2>2, <2>3
<1> QED
  BY <1>1, <1>4, <1>10, <1>11

-----------------------------------------------------------------------------
(***************************************************************************)
(* The inductive invariant: the types, that a block being generated is a   *)
(* record of its state, and the three properties.                          *)
(***************************************************************************)
Producing == [step : {"built", "sealed", "failed"}, moved : BOOLEAN, block : Block]

PendingInv ==
    /\ TypeOK
    /\ building # None => building \in Producing
    /\ OncePerChain /\ NothingForgotten /\ BuiltBlockApplies

\* What a step that leaves the chain at ch makes of the queue.
QueueStep(ch) ==
    /\ pending' \in Seq(Tx)
    /\ open' \in BOOLEAN /\ session' \in SUBSET Tx /\ accepted' \in SUBSET Tx
    /\ ~open' => session' = {}
    /\ accepted' \subseteq Txs(ch) \cup Range(pending')

\* A queue that keeps what was accepted is set.
LEMMA SetQueueOK ==
    ASSUME NEW ch, NEW q, Queue(q), NEW acc \in SUBSET Tx,
           \A t \in acc : Kept(t, ch, Range(q.pending)), SetQueue(q, ch, acc)
    PROVE  QueueStep(ch)
<1>1. /\ pending' = q.pending /\ open' = q.open /\ session' = q.session
      /\ accepted' = Owed(acc, ch, q.pending)
  BY DEF SetQueue
<1>2. q.pending \in Seq(Tx) /\ q.open \in BOOLEAN /\ q.session \in SUBSET Tx
      /\ (~q.open => q.session = {})
  BY DEF Queue
<1>3. Owed(acc, ch, q.pending) \subseteq acc
  BY DEF Owed
<1>4. Owed(acc, ch, q.pending) \subseteq Txs(ch) \cup Range(q.pending)
  BY DEF Owed, Kept
<1> QED
  BY <1>1, <1>2, <1>3, <1>4 DEF QueueStep

\* push_block's restorer, on any chain it leaves behind.
LEMMA RestoreOK ==
    ASSUME NEW ch, NEW popped \in Seq(Tx), pending \in Seq(Tx), accepted \in SUBSET Tx,
           accepted \subseteq Txs(ch) \cup Range(popped) \cup Range(pending), Restore(ch, popped)
    PROVE  QueueStep(ch)
<1>1. PICK c \in 0..Len(popped \o pending) :
         SetQueue(Restored(ch, popped, pending, c), ch, accepted)
  BY DEF Restore
<1>2. PICK q : q = Restored(ch, popped, pending, c)
  OBVIOUS
<1>3. Queue(q) /\ \A t \in Range(popped) \cup Range(pending) : Kept(t, ch, Range(q.pending))
  BY <1>2, RestoredKeeps
<1>4. \A t \in accepted : Kept(t, ch, Range(q.pending))
  <2>1. \A t \in Txs(ch) : Kept(t, ch, Range(q.pending))
    BY DEF Kept
  <2> QED BY <1>3, <2>1
<1>5. SetQueue(q, ch, accepted)
  BY <1>1, <1>2
<1> QED
  BY <1>3, <1>4, <1>5, SetQueueOK

\* accept_transaction: the transaction is in the queue, or was refused.
LEMMA PushTransactionOK ==
    ASSUME PendingInv, NEW t \in Tx, PushTransaction(t)
    PROVE  QueueStep(chain)
<1> DEFINE q == [pending |-> pending, open |-> open, session |-> session]
           acc == IF Applies(t, chain, session) THEN accepted \cup {t} ELSE accepted
<1>1. Queue(q) /\ q.session = session /\ q.pending = pending /\ acc \in SUBSET Tx
  BY DEF Queue, PendingInv, TypeOK
<1>2. SetQueue(_push_transaction(q, t, chain), chain, acc)
  BY DEF PushTransaction
<1>3. PICK r : r = _push_transaction(q, t, chain)
  OBVIOUS
<1>4. PICK a : a = acc
  OBVIOUS
<1>5. \A x \in accepted : x \in Txs(chain) \cup Range(pending)
  BY DEF PendingInv, NothingForgotten
<1>6. /\ Queue(r)
      /\ Range(r.pending) = Range(pending) \cup (IF Applies(t, chain, session) THEN {t} ELSE {})
  <2> HIDE DEF q
  <2> QED BY <1>1, <1>3, PushedQueue
<1>7. \A x \in a : x \in Txs(chain) \cup Range(r.pending)
  BY <1>4, <1>5, <1>6
<1>8. \A x \in a : Kept(x, chain, Range(r.pending))
  BY <1>7 DEF Kept
<1>9. a \in SUBSET Tx /\ SetQueue(r, chain, a)
  BY <1>1, <1>2, <1>3, <1>4
<1> HIDE DEF q, acc
<1> QED
  BY <1>6, <1>8, <1>9, SetQueueOK

\* The head moves: what is being generated is not on it.
LEMMA HeadMovesOK ==
    ASSUME building # None => building \in Producing, HeadMoves
    PROVE  building' # None => building' \in Producing /\ building'.moved = TRUE
BY DEF HeadMoves, Producing

\* The invariant after a step that leaves the chain at ch.
LEMMA InvAfter ==
    ASSUME NEW ch, chain' = ch, ch \in Seq(Block), OnceOn(ch), QueueStep(ch),
           building' # None => building' \in Producing, BuiltBlockApplies'
    PROVE  PendingInv'
<1>1. TypeOK'
  BY DEF TypeOK, QueueStep, Producing
<1>2. OncePerChain'
  BY DEF OncePerChain, OnceOn
<1>3. NothingForgotten'
  BY DEF NothingForgotten, QueueStep
<1> QED
  BY <1>1, <1>2, <1>3 DEF PendingInv

\* A block that is no longer on the head is not claimed to apply to it.
LEMMA MovedIsFree ==
    ASSUME building' # None => building'.moved = TRUE \/ building'.step # "built"
    PROVE  BuiltBlockApplies'
BY DEF BuiltBlockApplies, Building

\* What the invariant says of a prefix of the chain and of the rest.
LEMMA ChainSplits ==
    ASSUME PendingInv, NEW n \in 1..MaxPop, n <= Len(chain)
    PROVE  LET base == SubSeq(chain, 1, Len(chain) - n)
               old == SubSeq(chain, Len(chain) - n + 1, Len(chain))
           IN  /\ base \in Seq(Block) /\ old \in Seq(Block) /\ OnceOn(base) /\ n \in Nat
               /\ Txs(chain) = Txs(base) \cup Txs(old)
<1> DEFINE m == Len(chain) - n
           base == SubSeq(chain, 1, m)
           old == SubSeq(chain, m + 1, Len(chain))
<1>1. chain \in Seq(Block) /\ OnceOn(chain) /\ Len(chain) \in Nat
  BY LenProperties DEF PendingInv, TypeOK, OncePerChain, OnceOn
<1>2. n \in Nat /\ m \in 0..Len(chain) /\ m \in Nat
  BY <1>1, PendingAssumption DEF PendingAssumption
<1>3. /\ base \in Seq(Block) /\ OnceOn(base)
  BY <1>1, <1>2, OncePrefix
<1>4. /\ Len(base) = m /\ \A i \in 1..m : base[i] = chain[i]
  BY <1>1, <1>2
<1>5. /\ old \in Seq(Block) /\ Len(old) = n /\ \A i \in 1..n : old[i] = chain[m + i]
  BY <1>1, <1>2
<1>6. Txs(chain) = Txs(base) \cup Txs(old)
  <2> HIDE DEF base, old
  <2>1. \A i \in 1..Len(chain) : i \in 1..m \/ \E j \in 1..n : i = m + j
    <3> TAKE i \in 1..Len(chain)
    <3>1. i \notin 1..m => i - m \in 1..n /\ i = m + (i - m)
      BY <1>1, <1>2
    <3> QED BY <3>1
  <2>2. \A i \in 1..m : i \in 1..Len(chain)
    BY <1>1, <1>2
  <2>3. \A j \in 1..n : m + j \in 1..Len(chain)
    BY <1>1, <1>2
  <2> HIDE DEF m
  <2>4. ASSUME NEW t \in Txs(chain) PROVE t \in Txs(base) \cup Txs(old)
    <3>1. PICK i \in 1..Len(chain) : t \in chain[i].txs
      BY TxsAre
    <3>2. CASE i \in 1..m
      BY <1>4, <3>1, <3>2, TxsAre
    <3>3. CASE \E j \in 1..n : i = m + j
      BY <1>5, <3>1, <3>3, TxsAre
    <3> QED BY <2>1, <3>2, <3>3
  <2>5. ASSUME NEW t \in Txs(base) PROVE t \in Txs(chain)
    BY <1>4, <2>2, TxsAre
  <2>6. ASSUME NEW t \in Txs(old) PROVE t \in Txs(chain)
    BY <1>5, <2>3, TxsAre
  <2> QED BY <2>4, <2>5, <2>6
<1> QED
  BY <1>2, <1>3, <1>5, <1>6

\* A longer chain has the transactions of a shorter one.
LEMMA TxsConcat ==
    ASSUME NEW ch \in Seq(Block), NEW bs \in Seq(Block)
    PROVE  Txs(ch) \subseteq Txs(ch \o bs)
<1>1. /\ Len(ch \o bs) = Len(ch) + Len(bs) /\ Len(ch) \in Nat /\ Len(bs) \in Nat
      /\ \A i \in 1..Len(ch) : (ch \o bs)[i] = ch[i]
  BY ConcatProperties, LenProperties
<1>2. ASSUME NEW t \in Txs(ch) PROVE t \in Txs(ch \o bs)
  <2>1. PICK i \in 1..Len(ch) : t \in ch[i].txs
    BY TxsAre
  <2>2. i \in 1..Len(ch \o bs) /\ t \in (ch \o bs)[i].txs
    BY <1>1, <2>1
  <2> QED BY <2>2, TxsAre
<1> QED
  BY <1>2

\* No step loses, repeats or spoils a transaction.
LEMMA PendingInvHolds ==
    /\ Init => PendingInv
    /\ PendingInv /\ [Next]_vars => PendingInv'
<1>1. Init => PendingInv
  <2> SUFFICES ASSUME Init PROVE PendingInv
    OBVIOUS
  <2>1. TypeOK
    BY EmptySeq DEF Init, TypeOK
  <2>2. OncePerChain /\ NothingForgotten /\ BuiltBlockApplies
    BY EmptySeq DEF Init, OncePerChain, NothingForgotten, BuiltBlockApplies, Building
  <2> QED BY <2>1, <2>2 DEF Init, PendingInv
<1>2. ASSUME PendingInv, [Next]_vars PROVE PendingInv'
  <2>0. /\ chain \in Seq(Block) /\ OnceOn(chain) /\ pending \in Seq(Tx) /\ accepted \in SUBSET Tx
        /\ accepted \subseteq Txs(chain) \cup Range(pending)
        /\ building # None => building \in Producing
        /\ <<>> \in Seq(Tx) /\ Range(<<>>) = {}
    BY <1>2, EmptySeq DEF PendingInv, TypeOK, OncePerChain, OnceOn, NothingForgotten, Range
  <2>a. chain' = chain /\ building' = building => BuiltBlockApplies'
    BY <1>2 DEF PendingInv, BuiltBlockApplies, Building
  <2>b. Restore(chain, <<>>) => QueueStep(chain)
    BY <2>0, RestoreOK
  <2>c. chain' = chain /\ QueueStep(chain) /\ (building' # None => building' \in Producing)
           /\ BuiltBlockApplies' => PendingInv'
    BY <2>0, InvAfter
  <2>1. ASSUME NEW t \in Tx, PushTransaction(t) PROVE PendingInv'
    <3>1. chain' = chain /\ building' = building
      BY <2>1 DEF PushTransaction
    <3>2. QueueStep(chain)
      BY <1>2, <2>1, PushTransactionOK
    <3> QED BY <2>0, <2>a, <2>c, <3>1, <3>2
  <2>2. CASE PushBlock
    <3>1. PICK bs \in Extensions(chain, 1) : chain' = chain \o bs /\ Restore(chain', <<>>) /\ HeadMoves
      BY <2>2 DEF PushBlock
    <3>2. PICK ch : ch = chain \o bs
      OBVIOUS
    <3>3. bs \in Seq(Block) /\ ch \in Seq(Block) /\ OnceOn(ch) /\ Txs(chain) \subseteq Txs(ch)
      BY <2>0, <3>2, ExtensionsOnce, TxsConcat
    <3>4. chain' = ch /\ Restore(ch, <<>>)
      BY <3>1, <3>2
    <3>5. QueueStep(ch)
      BY <2>0, <3>3, <3>4, RestoreOK
    <3>6. building' # None => building' \in Producing /\ building'.moved = TRUE
      BY <2>0, <3>1, HeadMovesOK
    <3>7. BuiltBlockApplies'
      BY <3>6, MovedIsFree
    <3> QED BY <3>3, <3>4, <3>5, <3>6, <3>7, InvAfter
  <2>3. CASE PushKept
    BY <2>0, <2>3, <2>a, <2>b, <2>c DEF PushKept
  <2>4. CASE Switch
    <3>1. PICK n \in 1..MaxPop : n <= Len(chain) /\
             \E bs \in Extensions(SubSeq(chain, 1, Len(chain) - n), n + 1) :
                 /\ chain' = SubSeq(chain, 1, Len(chain) - n) \o bs
                 /\ Restore(chain', InOrder(SubSeq(chain, Len(chain) - n + 1, Len(chain))))
                 /\ HeadMoves
      BY <2>4 DEF Switch
    <3>2. PICK base : base = SubSeq(chain, 1, Len(chain) - n)
      OBVIOUS
    <3>3. PICK old : old = SubSeq(chain, Len(chain) - n + 1, Len(chain))
      OBVIOUS
    <3>4. /\ base \in Seq(Block) /\ old \in Seq(Block) /\ OnceOn(base) /\ n \in Nat
          /\ Txs(chain) = Txs(base) \cup Txs(old)
      BY <1>2, <3>1, <3>2, <3>3, ChainSplits
    <3>5. PICK bs \in Extensions(base, n + 1) :
             chain' = base \o bs /\ Restore(chain', InOrder(old)) /\ HeadMoves
      BY <3>1, <3>2, <3>3
    <3>6. PICK ch : ch = base \o bs
      OBVIOUS
    <3>7. bs \in Seq(Block) /\ ch \in Seq(Block) /\ OnceOn(ch) /\ Txs(base) \subseteq Txs(ch)
      <4>1. n + 1 \in Nat
        BY <3>4
      <4> QED BY <3>4, <3>6, <4>1, ExtensionsOnce, TxsConcat
    <3>8. chain' = ch /\ Restore(ch, InOrder(old))
      BY <3>5, <3>6
    <3>9. InOrder(old) \in Seq(Tx) /\ Txs(old) \subseteq Range(InOrder(old))
      BY <3>4, InOrderHasAll
    <3>10. QueueStep(ch)
      <4>1. accepted \subseteq Txs(ch) \cup Range(InOrder(old)) \cup Range(pending)
        BY <2>0, <3>4, <3>7, <3>9
      <4> QED BY <2>0, <3>8, <3>9, <4>1, RestoreOK
    <3>11. building' # None => building' \in Producing /\ building'.moved = TRUE
      BY <2>0, <3>5, HeadMovesOK
    <3>12. BuiltBlockApplies'
      BY <3>11, MovedIsFree
    <3> QED BY <3>7, <3>8, <3>10, <3>11, <3>12, InvAfter
  <2>5. CASE SwitchFails
    <3>1. PICK n \in 1..MaxPop : n <= Len(chain) /\
             \E m \in 0..n : \E bs \in Extensions(SubSeq(chain, 1, Len(chain) - n), m) :
                 /\ Restore(chain, InOrder(bs) \o
                                   InOrder(SubSeq(chain, Len(chain) - n + 1, Len(chain))))
                 /\ UNCHANGED <<chain, building>>
      BY <2>5 DEF SwitchFails
    <3>2. PICK base : base = SubSeq(chain, 1, Len(chain) - n)
      OBVIOUS
    <3>3. PICK old : old = SubSeq(chain, Len(chain) - n + 1, Len(chain))
      OBVIOUS
    <3>4. base \in Seq(Block) /\ old \in Seq(Block) /\ OnceOn(base) /\ n \in Nat
      BY <1>2, <3>1, <3>2, <3>3, ChainSplits
    <3>5. PICK m \in 0..n : \E bs \in Extensions(base, m) :
             Restore(chain, InOrder(bs) \o InOrder(old)) /\ UNCHANGED <<chain, building>>
      BY <3>1, <3>2, <3>3
    <3>6. PICK bs \in Extensions(base, m) :
             Restore(chain, InOrder(bs) \o InOrder(old)) /\ UNCHANGED <<chain, building>>
      BY <3>5
    <3>7. m \in Nat /\ bs \in Seq(Block)
      BY <3>4, <3>5, <3>6, ExtensionsOnce
    <3>8. InOrder(bs) \o InOrder(old) \in Seq(Tx)
      BY <3>4, <3>7, InOrderHasAll, ConcatProperties
    <3>9. QueueStep(chain)
      <4>1. PICK popped : popped = InOrder(bs) \o InOrder(old)
        OBVIOUS
      <4>2. popped \in Seq(Tx) /\ Restore(chain, popped)
        BY <3>6, <3>8, <4>1
      <4> QED BY <2>0, <4>2, RestoreOK
    <3> QED BY <2>0, <2>a, <2>c, <3>6, <3>9
  <2>6. CASE Build
    <3>1. PICK when \in 1..MaxTime :
             /\ when > Now(chain)
             /\ building' = [step |-> "built", moved |-> FALSE,
                             block |-> [time |-> when, txs |-> Taken(when)]]
      BY <2>6 DEF Build
    <3>2. PICK b : b = [time |-> when, txs |-> Taken(when)]
      OBVIOUS
    <3>3. b.time = when /\ b.txs = Taken(when)
      BY <3>2
    <3>4. Together(b.txs)
      BY <2>0, <3>3, TakenTogether
    <3>5. b \in Block /\ BlockApplies(b, chain)
      BY <3>1, <3>2, <3>3, <3>4 DEF Together, Block, BlockApplies
    <3>6. building' = [step |-> "built", moved |-> FALSE, block |-> b]
      BY <3>1, <3>2
    <3>7. building' \in Producing /\ building'.block = b
      BY <3>5, <3>6 DEF Producing
    <3>8. chain' = chain /\ pending' = pending /\ accepted' = accepted /\ open' = FALSE /\ session' = {}
      BY <2>6 DEF Build
    <3>9. BuiltBlockApplies'
      BY <3>5, <3>7, <3>8 DEF BuiltBlockApplies
    <3>10. QueueStep(chain)
      BY <2>0, <3>8 DEF QueueStep
    <3> QED BY <2>c, <3>7, <3>8, <3>9, <3>10
  <2>d. UNCHANGED <<pending, open, session, accepted>> => QueueStep(chain)
    BY <1>2, <2>0 DEF QueueStep, PendingInv, TypeOK
  <2>7. CASE Seal
    <3>1. /\ building # None /\ building' = [building EXCEPT !.step = "sealed", !.moved = FALSE]
          /\ UNCHANGED <<chain, pending, open, session, accepted>>
      BY <2>7 DEF Seal, Building
    <3>2. building' \in Producing /\ building'.step = "sealed"
      BY <2>0, <3>1 DEF Producing
    <3>3. BuiltBlockApplies'
      BY <3>2, MovedIsFree
    <3> QED BY <2>c, <2>d, <3>1, <3>2, <3>3
  <2>8. CASE PushBuilt
    <3>1. /\ building # None /\ BlockApplies(building.block, chain)
          /\ chain' = Append(chain, building.block) /\ building' = None /\ Restore(chain', <<>>)
      BY <2>8 DEF PushBuilt, Building
    <3>2. PICK b : b = building.block
      OBVIOUS
    <3>3. b \in Block
      BY <2>0, <3>1, <3>2 DEF Producing
    <3>4. PICK ch : ch = Append(chain, b)
      OBVIOUS
    <3>5. ch \in Seq(Block) /\ OnceOn(ch)
      BY <2>0, <3>1, <3>2, <3>3, <3>4, OnceAppend, AppendProperties
    <3>6. Txs(chain) \subseteq Txs(ch)
      <4>1. <<b>> \in Seq(Block) /\ ch = chain \o <<b>>
        BY <2>0, <3>3, <3>4, AppendIsConcat
      <4> QED BY <2>0, <4>1, TxsConcat
    <3>7. chain' = ch /\ Restore(ch, <<>>)
      BY <3>1, <3>2, <3>4
    <3>8. QueueStep(ch)
      BY <2>0, <3>6, <3>7, RestoreOK
    <3>9. BuiltBlockApplies'
      BY <3>1, MovedIsFree
    <3> QED BY <3>1, <3>5, <3>7, <3>8, <3>9, InvAfter
  <2>9. CASE PushSibling
    <3>1. building' = None /\ chain' = chain /\ Restore(chain, <<>>)
      BY <2>9 DEF PushSibling
    <3>2. BuiltBlockApplies'
      BY <3>1, MovedIsFree
    <3> QED BY <2>b, <2>c, <3>1, <3>2
  <2>10. CASE PushBuiltFails
    <3>1. /\ building # None /\ building' = [building EXCEPT !.step = "failed"]
          /\ chain' = chain /\ Restore(chain, <<>>)
      BY <2>10 DEF PushBuiltFails, Building
    <3>2. building' \in Producing /\ building'.step = "failed"
      BY <2>0, <3>1 DEF Producing
    <3>3. BuiltBlockApplies'
      BY <3>2, MovedIsFree
    <3> QED BY <2>b, <2>c, <3>1, <3>2, <3>3
  <2>11. CASE ClearPending
    <3>1. building' = None /\ chain' = chain /\ SetQueue(Cleared, chain, {})
      BY <2>11 DEF ClearPending
    <3>2. Queue(Cleared)
      BY EmptySeq DEF Queue, Cleared
    <3>3. QueueStep(chain)
      BY <3>1, <3>2, SetQueueOK
    <3>4. BuiltBlockApplies'
      BY <3>1, MovedIsFree
    <3> QED BY <2>c, <3>1, <3>3, <3>4
  <2>12. CASE UNCHANGED vars
    <3>1. UNCHANGED <<chain, building, pending, open, session, accepted>>
      BY <2>12 DEF vars
    <3> QED BY <2>0, <2>a, <2>c, <2>d, <3>1
  <2> QED
    BY <1>2, <2>1, <2>2, <2>3, <2>4, <2>5, <2>6, <2>7, <2>8, <2>9, <2>10, <2>11, <2>12 DEF Next
<1> QED
  BY <1>1, <1>2

(***************************************************************************)
(* "Duplicate transaction check failed": on no chain the node is ever on   *)
(* is a transaction applied twice, although the index drops those that     *)
(* have expired.                                                           *)
(***************************************************************************)
THEOREM NeverTwice == Spec => []OncePerChain
<1>1. PendingInv => OncePerChain
  BY DEF PendingInv
<1> QED
  BY PendingInvHolds, <1>1, PTL DEF Spec

(***************************************************************************)
(* An accepted transaction is in the chain or pending until it expires or  *)
(* another excludes it, through blocks, switches and failed switches, and  *)
(* wherever the restorer's time limit cuts.                                *)
(***************************************************************************)
THEOREM NothingLost == Spec => []NothingForgotten
<1>1. PendingInv => NothingForgotten
  BY DEF PendingInv
<1> QED
  BY PendingInvHolds, <1>1, PTL DEF Spec

(***************************************************************************)
(* The block _generate_block has built applies to the head it was built    *)
(* on, until that head moves.                                              *)
(***************************************************************************)
THEOREM OwnBlockApplies == Spec => []BuiltBlockApplies
<1>1. PendingInv => BuiltBlockApplies
  BY DEF PendingInv
<1> QED
  BY PendingInvHolds, <1>1, PTL DEF Spec
=============================================================================
