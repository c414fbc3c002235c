----------------------- MODULE WitnessScheduleProofs -----------------------
(***************************************************************************)
(* Proofs about WitnessSchedule, for every set of witnesses, every number  *)
(* of places, every list of hardforks and every bound.                     *)
(***************************************************************************)
EXTENDS WitnessSchedule, InductionLemmas, SequenceTheorems, TLAPS

----------------------------------------------------------------------------
(***************************************************************************)
(* The rank in a strict total order enumerates a finite set.               *)
(***************************************************************************)
StrictOrder(S, R) ==
    /\ \A x \in S : <<x, x>> \notin R
    /\ \A x, y, z \in S : <<x, y>> \in R /\ <<y, z>> \in R => <<x, z>> \in R
    /\ \A x, y \in S : x # y => <<x, y>> \in R \/ <<y, x>> \in R

Below(S, R, x) == {y \in S : <<y, x>> \in R}

\* Ranks are numbers below the cardinality, and grow along the order.
LEMMA RankGrows ==
    ASSUME NEW S, IsFiniteSet(S), NEW R, StrictOrder(S, R)
    PROVE  /\ Cardinality(S) \in Nat
           /\ \A x \in S : Cardinality(Below(S, R, x)) \in 0..(Cardinality(S) - 1)
           /\ \A x, y \in S : <<x, y>> \in R =>
                 Cardinality(Below(S, R, x)) < Cardinality(Below(S, R, y))
<1> DEFINE B(x) == Below(S, R, x)
<1>1. \A x \in S : B(x) \in SUBSET S /\ x \notin B(x)
  BY DEF Below, StrictOrder
<1>2. \A x, y \in S : <<x, y>> \in R => B(x) \cup {x} \in SUBSET B(y)
  BY DEF Below, StrictOrder
<1> HIDE DEF B
<1>3. Cardinality(S) \in Nat
  BY FS_CardinalityType
<1>4. ASSUME NEW x \in S
      PROVE  /\ IsFiniteSet(B(x)) /\ Cardinality(B(x)) \in Nat
             /\ IsFiniteSet(B(x) \cup {x}) /\ Cardinality(B(x) \cup {x}) = Cardinality(B(x)) + 1
  <2>1. IsFiniteSet(B(x))
    BY <1>1, FS_Subset
  <2> QED BY <1>1, <2>1, FS_CardinalityType, FS_AddElement
<1>5. ASSUME NEW x \in S PROVE Cardinality(B(x)) \in 0..(Cardinality(S) - 1)
  <2>1. B(x) \cup {x} \in SUBSET S
    BY <1>1
  <2>2. Cardinality(B(x) \cup {x}) <= Cardinality(S)
    BY <2>1, FS_Subset
  <2>3. Cardinality(B(x)) \in Nat /\ Cardinality(B(x)) + 1 <= Cardinality(S)
    BY <1>4, <2>2
  <2> HIDE DEF B
  <2> QED BY <1>3, <2>3
<1>6. ASSUME NEW x \in S, NEW y \in S, <<x, y>> \in R
      PROVE  Cardinality(B(x)) < Cardinality(B(y))
  <2>1. Cardinality(B(x) \cup {x}) <= Cardinality(B(y))
    BY <1>2, <1>4, <1>6, FS_Subset
  <2>2. Cardinality(B(x)) + 1 <= Cardinality(B(y)) /\ Cardinality(B(x)) \in Nat
        /\ Cardinality(B(y)) \in Nat
    BY <1>4, <2>1
  <2> QED BY <2>2
<1> QED
  BY <1>3, <1>5, <1>6 DEF B

\* Every rank is taken.
LEMMA RankTaken ==
    ASSUME NEW S, IsFiniteSet(S), NEW R, StrictOrder(S, R)
    PROVE  \A i \in 1..Cardinality(S) : \E x \in S : Cardinality(Below(S, R, x)) = i - 1
<1> DEFINE n == Cardinality(S)
           f == [x \in S |-> Cardinality(Below(S, R, x))]
           T == 0..(n - 1)
<1>1. n \in Nat /\ \A x \in S : f[x] \in T
  BY RankGrows
<1>2. \A x, y \in S : x # y => f[x] # f[y]
  <2> SUFFICES ASSUME NEW x \in S, NEW y \in S, x # y PROVE f[x] # f[y]
    OBVIOUS
  <2>1. f[x] < f[y] \/ f[y] < f[x]
    BY RankGrows DEF StrictOrder
  <2> QED BY <1>1, <2>1
<1>3. f \in Injection(S, T)
  BY <1>1, <1>2 DEF Injection, IsInjective
<1>4. IsFiniteSet(T) /\ Cardinality(T) = n
  BY <1>1, FS_Interval
<1>5. f \in Surjection(S, T)
  BY <1>3, <1>4, FS_Injection
<1>6. \A t \in T : \E x \in S : f[x] = t
  BY <1>5 DEF Surjection
<1>7. \A i \in 1..n : i - 1 \in T
  BY <1>1
<1> QED
  BY <1>6, <1>7

\* The elements in order: a sequence without repetitions that has them all.
LEMMA OrderedIs ==
    ASSUME NEW S, IsFiniteSet(S), NEW R, StrictOrder(S, R)
    PROVE  /\ Cardinality(S) \in Nat
           /\ Ordered(S, R) \in Seq(S) /\ Len(Ordered(S, R)) = Cardinality(S)
           /\ \A i, j \in 1..Cardinality(S) :
                 i < j => <<Ordered(S, R)[i], Ordered(S, R)[j]>> \in R
           /\ \A i, j \in 1..Cardinality(S) :
                 i # j => Ordered(S, R)[i] # Ordered(S, R)[j]
           /\ \A x \in S : \E i \in 1..Cardinality(S) : Ordered(S, R)[i] = x
<1> DEFINE n == Cardinality(S)
           s == Ordered(S, R)
           rank(x) == Cardinality(Below(S, R, x))
<1>1. n \in Nat
  BY RankGrows
<1>2. ASSUME NEW i \in 1..n PROVE s[i] \in S /\ rank(s[i]) = i - 1
  <2> DEFINE P(x) == Cardinality({y \in S : <<y, x>> \in R}) = i - 1
  <2>1. \E x \in S : P(x)
    BY RankTaken DEF Below
  <2>2. s[i] = CHOOSE x \in S : P(x)
    BY DEF Ordered
  <2> HIDE DEF P, s
  <2>3. s[i] \in S /\ P(s[i])
    BY <2>1, <2>2
  <2> QED BY <2>3 DEF P, Below
<1>3. DOMAIN s = 1..n
  BY DEF Ordered
<1>31. s \in [1..n -> S]
  <2>1. \A i \in 1..n : (CHOOSE x \in S : Cardinality({y \in S : <<y, x>> \in R}) = i - 1) \in S
    BY <1>2 DEF Ordered
  <2> QED BY <2>1 DEF Ordered
<1> HIDE DEF s
<1>4. s \in Seq(S) /\ Len(s) = n
  BY <1>1, <1>31
<1>5. \A x, y \in S : <<x, y>> \in R => rank(x) < rank(y)
  BY RankGrows
<1>6. \A x \in S : rank(x) \in 0..(n - 1)
  BY RankGrows
<1>7. ASSUME NEW i \in 1..n, NEW j \in 1..n, i < j PROVE <<s[i], s[j]>> \in R
  <2>1. rank(s[i]) = i - 1 /\ rank(s[j]) = j - 1 /\ s[i] \in S /\ s[j] \in S
    BY <1>2
  <2>2. s[i] # s[j]
    BY <1>7, <2>1
  <2>3. ~(<<s[j], s[i]>> \in R)
    <3>1. ~(rank(s[j]) < rank(s[i]))
      BY <1>7, <2>1
    <3> QED BY <1>5, <2>1, <3>1
  <2> QED BY <2>1, <2>2, <2>3 DEF StrictOrder
<1>8. ASSUME NEW i \in 1..n, NEW j \in 1..n, i # j PROVE s[i] # s[j]
  BY <1>2, <1>8
<1>9. ASSUME NEW x \in S PROVE \E i \in 1..n : s[i] = x
  <2> DEFINE i == rank(x) + 1
  <2>1. i \in 1..n
    BY <1>1, <1>6
  <2>2. rank(s[i]) = rank(x) /\ s[i] \in S
    BY <1>2, <1>6, <2>1
  <2>3. ~(rank(s[i]) < rank(x)) /\ ~(rank(x) < rank(s[i]))
    BY <1>6, <2>2
  <2>4. s[i] = x
    BY <1>5, <2>2, <2>3 DEF StrictOrder
  <2> QED BY <2>1, <2>4
<1> QED
  BY <1>1, <1>4, <1>7, <1>8, <1>9 DEF s

----------------------------------------------------------------------------
(* Lists.                                                                  *)

Distinct(s) == \A i, j \in 1..Len(s) : i # j => s[i] # s[j]

\* The first n elements of a list, or all of them.
LEMMA PrefixIs ==
    ASSUME NEW S, NEW s \in Seq(S), NEW n \in Nat
    PROVE  /\ Prefix(s, n) \in Seq(S)
           /\ Len(Prefix(s, n)) = (IF n < Len(s) THEN n ELSE Len(s))
           /\ \A i \in 1..Len(Prefix(s, n)) : i \in 1..Len(s) /\ Prefix(s, n)[i] = s[i]
BY DEF Prefix

\* A prefix repeats nothing either.
LEMMA PrefixDistinct ==
    ASSUME NEW S, NEW s \in Seq(S), NEW n \in Nat, Distinct(s)
    PROVE  Distinct(Prefix(s, n))
BY PrefixIs DEF Distinct

\* The range of a list without repetitions has as many members as the list.
LEMMA DistinctRange ==
    ASSUME NEW S, NEW s \in Seq(S), Distinct(s)
    PROVE  Range(s) \in SUBSET S /\ IsFiniteSet(Range(s)) /\ Cardinality(Range(s)) = Len(s)
<1>1. /\ Len(s) \in Nat /\ DOMAIN s = 1..Len(s)
      /\ \A i \in 1..Len(s) : s[i] \in S
  OBVIOUS
<1>2. s \in [1..Len(s) -> Range(s)] /\ \A y \in Range(s) : \E i \in 1..Len(s) : s[i] = y
  BY <1>1 DEF Range
<1>3. s \in Bijection(1..Len(s), Range(s))
  BY <1>1, <1>2 DEF Distinct, Bijection, Injection, Surjection, IsInjective
<1>4. IsFiniteSet(1..Len(s)) /\ Cardinality(1..Len(s)) = Len(s)
  <2>1. \A n \in Nat : IsFiniteSet(1..n) /\ Cardinality(1..n) = n
    BY FS_Interval
  <2> QED BY <1>1, <2>1
<1>5. IsFiniteSet(Range(s)) /\ Cardinality(Range(s)) = Len(s)
  BY <1>3, <1>4, FS_Bijection DEF ExistsBijection
<1> QED
  BY <1>1, <1>5 DEF Range

\* Halves, rounded up.
LEMMA Halves ==
    /\ \A i \in Nat \ {0}, m \in Nat : i <= 2 * m => (i + 1) \div 2 \in 1..m
    /\ \A i, j \in Nat : i < j /\ i % 2 = j % 2 => (i + 1) \div 2 < (j + 1) \div 2
    /\ \A i \in Nat : i % 2 # 1 => i % 2 = 0 /\ (i + 1) \div 2 = i \div 2
OBVIOUS

(***************************************************************************)
(* Two lists taking turns: everybody of both is there, and once if the     *)
(* lists repeat nothing and have nothing in common.                        *)
(***************************************************************************)
LEMMA TurnsAre ==
    ASSUME NEW S, NEW s \in Seq(S), NEW t \in Seq(S), Distinct(s), Distinct(t),
           Range(s) \cap Range(t) = {}
    PROVE  /\ TakeTurns(s, t) \in Seq(S) /\ Len(TakeTurns(s, t)) = Len(s) + Len(t)
           /\ Distinct(TakeTurns(s, t))
<1> DEFINE a == Len(s)
           b == Len(t)
           m == IF a < b THEN a ELSE b
           u == TakeTurns(s, t)
           first(i) == IF i > 2 * m THEN a > m ELSE i % 2 = 1
           place(i) == IF i > 2 * m THEN i - m ELSE (i + 1) \div 2
<1>1. /\ a \in Nat /\ b \in Nat /\ m \in Nat /\ m <= a /\ m <= b /\ (a = m \/ b = m)
      /\ DOMAIN s = 1..a /\ DOMAIN t = 1..b
      /\ (\A i \in 1..a : s[i] \in S) /\ (\A i \in 1..b : t[i] \in S)
  OBVIOUS
<1>2. \A i \in 1..a, j \in 1..b : s[i] # t[j]
  BY <1>1 DEF Range
<1>3. u = [i \in 1..(a + b) |-> IF first(i) THEN s[place(i)] ELSE t[place(i)]]
  <2>1. \A i \in 1..(a + b) : ~(i > 2 * m) /\ i % 2 # 1 => place(i) = i \div 2
    BY <1>1, Halves
  <2> HIDE DEF m
  <2>2. u = [i \in 1..(a + b) |->
                IF i > 2 * m THEN (IF a > m THEN s[i - m] ELSE t[i - m])
                ELSE IF i % 2 = 1 THEN s[(i + 1) \div 2] ELSE t[i \div 2]]
    BY DEF TakeTurns, m
  <2> QED BY <2>1, <2>2
<1> HIDE DEF u, m, a, b
<1>4. \A i \in 1..(a + b) : IF first(i) THEN place(i) \in 1..a ELSE place(i) \in 1..b
  <2> SUFFICES ASSUME NEW i \in 1..(a + b)
               PROVE  IF first(i) THEN place(i) \in 1..a ELSE place(i) \in 1..b
    OBVIOUS
  <2>1. CASE i > 2 * m
    BY <1>1, <2>1
  <2>2. CASE ~(i > 2 * m)
    <3>1. (i + 1) \div 2 \in 1..m
      BY <1>1, <2>2, Halves
    <3> QED BY <1>1, <2>2, <3>1
  <2> QED BY <2>1, <2>2
<1>5. ASSUME NEW i \in 1..(a + b), NEW j \in 1..(a + b), i < j, first(i) <=> first(j)
      PROVE  place(i) # place(j)
  <2>1. CASE i > 2 * m
    BY <1>1, <1>5, <2>1
  <2>2. CASE ~(i > 2 * m) /\ j > 2 * m
    <3>1. (i + 1) \div 2 <= m /\ j - m > m
      BY <1>1, <2>2, Halves
    <3> QED BY <1>1, <2>2, <3>1
  <2>3. CASE ~(i > 2 * m) /\ ~(j > 2 * m)
    <3>1. i % 2 = 1 <=> j % 2 = 1
      BY <1>5, <2>3
    <3>2. (i + 1) \div 2 # (j + 1) \div 2
      BY <1>1, <1>5, <3>1, Halves
    <3> QED BY <2>3, <3>2
  <2> QED BY <1>1, <2>1, <2>2, <2>3
<1> HIDE DEF first, place
<1>6. \A i \in 1..(a + b) : u[i] \in S
  BY <1>1, <1>3, <1>4
<1>7. u \in Seq(S) /\ Len(u) = a + b
  BY <1>1, <1>3, <1>4
<1>8. ASSUME NEW i \in 1..(a + b), NEW j \in 1..(a + b), i < j PROVE u[i] # u[j]
  <2>1. CASE first(i) /\ first(j)
    <3>1. place(i) \in 1..a /\ place(j) \in 1..a /\ place(i) # place(j)
      BY <1>4, <1>5, <1>8, <2>1
    <3> QED BY <1>3, <2>1, <3>1 DEF Distinct, a
  <2>2. CASE ~first(i) /\ ~first(j)
    <3>1. place(i) \in 1..b /\ place(j) \in 1..b /\ place(i) # place(j)
      BY <1>4, <1>5, <1>8, <2>2
    <3> QED BY <1>3, <2>2, <3>1 DEF Distinct, b
  <2>3. CASE first(i) /\ ~first(j)
    BY <1>2, <1>3, <1>4, <2>3
  <2>4. CASE ~first(i) /\ first(j)
    BY <1>2, <1>3, <1>4, <2>4
  <2> QED BY <2>1, <2>2, <2>3, <2>4
<1>9. Distinct(u)
  <2> SUFFICES ASSUME NEW i \in 1..Len(u), NEW j \in 1..Len(u), i # j PROVE u[i] # u[j]
    BY DEF Distinct
  <2>1. i < j \/ j < i
    BY <1>1, <1>7
  <2> QED BY <1>7, <1>8, <2>1
<1> QED
  BY <1>7, <1>9 DEF u, a, b

----------------------------------------------------------------------------
(* Votes.                                                                  *)

\* A quotient is at most v if the dividend is at most v times the divisor.
LEMMA DivBound ==
    ASSUME NEW a \in Nat, NEW v \in Nat, NEW c \in Nat \ {0}, a <= v * c
    PROVE  a \div c \in 0..v
<1>1. a \div c \in Nat /\ c * (a \div c) <= a
  OBVIOUS
<1> DEFINE d == a \div c
<1>2. d \in Nat /\ c * d <= v * c
  BY <1>1
<1> HIDE DEF d
<1>3. d <= v
  <2> SUFFICES ASSUME d > v PROVE FALSE
    BY <1>2
  <2>1. c * d >= c * (v + 1)
    BY <1>2
  <2> QED BY <1>2, <2>1
<1> QED
  BY <1>2, <1>3 DEF d

\* A penalty takes between nothing and all of the votes.
LEMMA CountedRange ==
    ASSUME NEW v \in Nat, NEW p \in Nat
    PROVE  Counted(v, p) \in 0..v
<1> DEFINE q == IF p < CHAIN_100_PERCENT THEN p ELSE CHAIN_100_PERCENT
<1>1. q \in Nat /\ q <= CHAIN_100_PERCENT /\ CHAIN_100_PERCENT \in Nat \ {0}
  BY Parameters DEF Parameters
<1>2. Counted(v, p) = v - (v * q) \div CHAIN_100_PERCENT
  BY DEF Counted
<1> HIDE DEF q
<1>3. v * q \in Nat /\ v * q <= v * CHAIN_100_PERCENT
  BY <1>1
<1>4. (v * q) \div CHAIN_100_PERCENT \in 0..v
  BY <1>1, <1>3, DivBound
<1> QED
  BY <1>2, <1>4

----------------------------------------------------------------------------
(* The schedule of the next round.                                         *)

Ballots == {Vote(n) : n \in 0..Len(HardforkTime)}

WitnessObject ==
    [votes : 0..MaxVotes, counted : 0..MaxVotes, penalty : Nat, key : BOOLEAN,
     silence : 0..(CHAIN_MAX_WITNESS_MISSED_BLOCKS + 1),
     position : 0..LAP, updated : 0..LAP, time : 0..LAP,
     running : 0..Len(HardforkTime), vote : Ballots]

\* The fields of the witness objects are numbers, and so are the witnesses.
LEMMA WitnessFields ==
    ASSUME NEW w \in [Witness -> WitnessObject], NEW x \in Witness
    PROVE  /\ x \in Nat /\ w[x] \in WitnessObject
           /\ w[x].votes \in Nat /\ w[x].counted \in Nat /\ w[x].penalty \in Nat
           /\ w[x].time \in Nat /\ w[x].time <= LAP /\ w[x].counted <= MaxVotes
<1>1. w[x] \in WitnessObject /\ x \in Nat /\ LAP \in Nat /\ MaxVotes \in Nat
  BY Parameters DEF Parameters
<1> QED
  BY <1>1 DEF WitnessObject

\* The two indices are strict orders.
LEMMA IndicesOrder ==
    ASSUME NEW w \in [Witness -> WitnessObject], NEW S \in SUBSET Witness
    PROVE  StrictOrder(S, ByVotes(w)) /\ StrictOrder(S, ByTime(w))
<1> DEFINE f == [x \in Witness |-> w[x].counted]
           g == [x \in Witness |-> w[x].time]
<1>1. \A x \in S : x \in Witness /\ x \in Nat /\ f[x] \in Nat /\ g[x] \in Nat
  BY WitnessFields
<1>2. \A x, y \in S : <<x, y>> \in ByVotes(w) <=> (f[x] > f[y] \/ (f[x] = f[y] /\ x < y))
  BY DEF ByVotes, MoreVotes
<1>3. \A x, y \in S : <<x, y>> \in ByTime(w) <=> (g[x] < g[y] \/ (g[x] = g[y] /\ x < y))
  BY DEF ByTime, Sooner
<1> HIDE DEF f, g
<1>4. StrictOrder(S, ByVotes(w))
  BY <1>1, <1>2 DEF StrictOrder
<1>5. StrictOrder(S, ByTime(w))
  BY <1>1, <1>3 DEF StrictOrder
<1> QED
  BY <1>4, <1>5

\* Sets of witnesses in the order of an index.
LEMMA OrderedWitnesses ==
    ASSUME NEW S \in SUBSET Witness, NEW R, StrictOrder(S, R)
    PROVE  Ordered(S, R) \in Seq(S) /\ Distinct(Ordered(S, R)) /\ Len(Ordered(S, R)) = Cardinality(S)
<1>1. IsFiniteSet(S)
  BY Parameters, FS_Subset DEF Parameters
<1> QED
  BY <1>1, OrderedIs DEF Distinct

\* The top witnesses are different, and not too many.
LEMMA TopIs ==
    ASSUME NEW w \in [Witness -> WitnessObject]
    PROVE  /\ TopWitnesses(w) \in Seq(Witness) /\ Distinct(TopWitnesses(w))
           /\ Places(TopWitnesses(w)) \in Nat
<1> DEFINE S == {x \in Witness : w[x].key}
           q == Ordered(S, ByVotes(w))
<1>0. S \in SUBSET Witness
  OBVIOUS
<1> HIDE DEF S
<1>1. q \in Seq(S) /\ Distinct(q)
  BY <1>0, IndicesOrder, OrderedWitnesses
<1>2. q \in Seq(Witness)
  BY <1>0, <1>1
<1>3. TopWitnesses(w) = Prefix(q, CHAIN_MAX_TOP_WITNESSES)
  BY DEF TopWitnesses, S
<1>4. /\ CHAIN_MAX_TOP_WITNESSES \in Nat /\ CHAIN_MAX_WITNESSES \in Nat
      /\ CHAIN_MAX_TOP_WITNESSES <= CHAIN_MAX_WITNESSES
  BY Parameters DEF Parameters
<1> HIDE DEF q
<1>5. TopWitnesses(w) \in Seq(Witness) /\ Distinct(TopWitnesses(w))
      /\ Len(TopWitnesses(w)) <= CHAIN_MAX_TOP_WITNESSES /\ Len(TopWitnesses(w)) \in Nat
  <2>1. Prefix(q, CHAIN_MAX_TOP_WITNESSES) \in Seq(Witness)
        /\ Len(Prefix(q, CHAIN_MAX_TOP_WITNESSES))
               = (IF CHAIN_MAX_TOP_WITNESSES < Len(q) THEN CHAIN_MAX_TOP_WITNESSES ELSE Len(q))
    BY <1>2, <1>4, PrefixIs
  <2>2. Distinct(Prefix(q, CHAIN_MAX_TOP_WITNESSES))
    BY <1>1, <1>2, <1>4, PrefixDistinct
  <2>3. Len(q) \in Nat
    BY <1>2
  <2> QED BY <1>3, <1>4, <2>1, <2>2, <2>3
<1> QED
  BY <1>4, <1>5 DEF Places

\* So are the support witnesses, and none of them is a top witness.
LEMMA SupportIs ==
    ASSUME NEW w \in [Witness -> WitnessObject], NEW top \in Seq(Witness), Places(top) \in Nat
    PROVE  /\ Support(w, top) \in Seq(Witness) /\ Distinct(Support(w, top))
           /\ Len(Support(w, top)) <= Places(top)
           /\ Range(top) \cap Range(Support(w, top)) = {}
<1> DEFINE S == {x \in Witness : w[x].key /\ x \notin Range(top)}
           q == Ordered(S, ByTime(w))
<1>0. S \in SUBSET Witness /\ S \cap Range(top) = {}
  OBVIOUS
<1>3. Support(w, top) = Prefix(q, Places(top))
  BY DEF Support
<1> HIDE DEF S
<1>1. q \in Seq(S) /\ Distinct(q)
  BY <1>0, IndicesOrder, OrderedWitnesses
<1> HIDE DEF q
<1>5. Support(w, top) \in Seq(S) /\ Distinct(Support(w, top)) /\ Len(Support(w, top)) <= Places(top)
  <2>1. Prefix(q, Places(top)) \in Seq(S)
        /\ Len(Prefix(q, Places(top))) = (IF Places(top) < Len(q) THEN Places(top) ELSE Len(q))
    BY <1>1, PrefixIs
  <2>2. Distinct(Prefix(q, Places(top)))
    BY <1>1, PrefixDistinct
  <2>3. Len(q) \in Nat
    BY <1>1
  <2> QED BY <1>3, <2>1, <2>2, <2>3
<1>6. Support(w, top) \in Seq(Witness) /\ Range(Support(w, top)) \in SUBSET S
  BY <1>0, <1>5 DEF Range
<1> QED
  BY <1>0, <1>5, <1>6

\* The list of a round: nobody twice, and no more than there are places.
GoodList(list) ==
    /\ list \in Seq(Witness) /\ Distinct(list)
    /\ Len(list) <= CHAIN_MAX_WITNESSES /\ list # <<>>

\* The schedule computed at the end of a round is such a list.
LEMMA TurnsGood ==
    ASSUME NEW w \in [Witness -> WitnessObject],
           TakeTurns(TopWitnesses(w), Support(w, TopWitnesses(w))) # <<>>
    PROVE  GoodList(TakeTurns(TopWitnesses(w), Support(w, TopWitnesses(w))))
<1> DEFINE top == TopWitnesses(w)
           sup == Support(w, top)
           list == TakeTurns(top, sup)
<1>1. top \in Seq(Witness) /\ Distinct(top) /\ Places(top) \in Nat
  BY TopIs
<1> HIDE DEF top
<1>2. /\ sup \in Seq(Witness) /\ Distinct(sup) /\ Len(sup) <= Places(top)
      /\ Range(top) \cap Range(sup) = {}
  BY <1>1, SupportIs
<1> HIDE DEF sup
<1>3. list \in Seq(Witness) /\ Distinct(list) /\ Len(list) = Len(top) + Len(sup)
  BY <1>1, <1>2, TurnsAre
<1>4. Len(list) <= CHAIN_MAX_WITNESSES
  <2>1. Len(top) \in Nat /\ Len(sup) \in Nat /\ CHAIN_MAX_WITNESSES \in Nat
    BY <1>1, <1>2, Parameters DEF Parameters
  <2> HIDE DEF list
  <2> QED BY <1>2, <1>3, <2>1 DEF Places
<1> QED
  BY <1>3, <1>4 DEF GoodList, list, sup, top

\* The median of the listed witnesses' values is one of them: there are as
\* many values as there are places on the list.
LEMMA MedianIs ==
    ASSUME NEW list, GoodList(list)
    PROVE  MedianPenalty(list) \in Nat
<1> DEFINE below == {e \in Witness \X Witness :
                      \/ MissPenalty[e[1]] < MissPenalty[e[2]]
                      \/ MissPenalty[e[1]] = MissPenalty[e[2]] /\ e[1] < e[2]}
           S == Range(list)
           k == (Len(list) \div 2) + 1
<1>1. S \in SUBSET Witness /\ Cardinality(S) = Len(list)
  BY DistinctRange DEF GoodList
<1>2. \A x \in S : x \in Nat /\ MissPenalty[x] \in Nat /\ x \in Witness
  <2>1. \A x \in Witness : x \in Nat /\ MissPenalty[x] \in 0..CHAIN_100_PERCENT
    BY Parameters DEF Parameters
  <2>2. \A x \in Witness : x \in Nat /\ MissPenalty[x] \in Nat
    BY <2>1
  <2> HIDE DEF S
  <2> QED BY <1>1, <2>2
<1> HIDE DEF S
<1>3. \A x, y \in S : <<x, y>> \in below <=>
          (MissPenalty[x] < MissPenalty[y] \/ (MissPenalty[x] = MissPenalty[y] /\ x < y))
  BY <1>2
<1>31. MedianPenalty(list) = MissPenalty[Ordered(S, below)[k]]
  BY DEF MedianPenalty, S
<1> HIDE DEF below
<1>4. StrictOrder(S, below)
  BY <1>2, <1>3 DEF StrictOrder
<1>5. Ordered(S, below) \in Seq(S) /\ Len(Ordered(S, below)) = Len(list)
  BY <1>1, <1>4, OrderedWitnesses
<1>6. k \in 1..Len(list)
  <2>1. Len(list) \in Nat /\ Len(list) # 0
    BY DEF GoodList
  <2> DEFINE n == Len(list)
  <2> HIDE DEF n
  <2>2. n \in Nat \ {0} => (n \div 2) + 1 \in 1..n
    OBVIOUS
  <2> QED BY <2>1, <2>2 DEF n
<1>7. Ordered(S, below)[k] \in S
  BY <1>5, <1>6, ElementOfSeq
<1> QED
  BY <1>2, <1>31, <1>7

----------------------------------------------------------------------------
(* Virtual time.                                                           *)

\* The last member of a list is a member of it.
LEMMA LastIs ==
    ASSUME NEW S, NEW s \in Seq(S), s # <<>>
    PROVE  Last(s) \in S
BY ElementOfSeq DEF Last

(***************************************************************************)
(* Whoever the second loop does not reach is not scheduled before the last *)
(* one it reaches.                                                         *)
(***************************************************************************)
LEMMA OthersLater ==
    ASSUME NEW w \in [Witness -> WitnessObject], NEW top \in Seq(Witness), Places(top) \in Nat,
           Processed(w, top) # {}
    PROVE  /\ Processed(w, top) \in SUBSET Witness
           /\ LastOf(w, Processed(w, top)) \in Witness
           /\ \A y \in Witness \ Processed(w, top) :
                 w[y].time >= w[LastOf(w, Processed(w, top))].time
<1> DEFINE done == Processed(w, top)
           s == Support(w, top)
           z == LastOf(w, done)
<1>1. s \in Seq(Witness)
  BY SupportIs
<1>2. \A x \in Witness : x \in Nat /\ w[x].time \in Nat
  BY WitnessFields
<1>3. /\ Len(s) < Places(top) => done = Witness
      /\ ~(Len(s) < Places(top)) => done = {x \in Witness : s # <<>> /\ ~Sooner(w, Last(s), x)}
  BY DEF Processed
<1>4. done \in SUBSET Witness
  BY <1>3
<1>5. CASE Len(s) < Places(top)
  <2> DEFINE q == Ordered(Witness, ByTime(w))
             n == Cardinality(Witness)
  <2>1. IsFiniteSet(Witness) /\ Witness # {} /\ n \in Nat
    BY Parameters, FS_CardinalityType DEF Parameters
  <2>2. n # 0
    BY <2>1, FS_EmptySet
  <2>3. StrictOrder(Witness, ByTime(w))
    BY IndicesOrder
  <2>4. /\ q \in Seq(Witness) /\ Len(q) = n
        /\ \A i, j \in 1..n : i < j => <<q[i], q[j]>> \in ByTime(w)
        /\ \A x \in Witness : \E i \in 1..n : q[i] = x
    BY <2>1, <2>3, OrderedIs
  <2> HIDE DEF q, n
  <2>5. n \in 1..n
    BY <2>1, <2>2
  <2>6. q[n] \in Witness
    BY <2>4, <2>5, ElementOfSeq
  <2>7. ASSUME NEW y \in Witness PROVE ~Sooner(w, q[n], y)
    <3>1. PICK i \in 1..n : q[i] = y
      BY <2>4
    <3>2. CASE i = n
      BY <1>2, <2>6, <3>1, <3>2 DEF Sooner
    <3>3. CASE i # n
      <4>1. i < n
        BY <2>1, <3>3
      <4>2. <<y, q[n]>> \in ByTime(w)
        BY <2>4, <2>5, <3>1, <4>1
      <4>3. Sooner(w, y, q[n])
        BY <4>2, <2>6 DEF ByTime
      <4> QED BY <1>2, <2>6, <4>3 DEF Sooner
    <3> QED BY <3>2, <3>3
  <2>8. done = Witness
    BY <1>3, <1>5
  <2>9. \E x \in done : \A y \in done : ~Sooner(w, x, y)
    BY <2>6, <2>7, <2>8
  <2> HIDE DEF done
  <2>10. z \in done
    BY <2>9 DEF LastOf
  <2> QED BY <2>8, <2>10 DEF done
<1>6. CASE ~(Len(s) < Places(top))
  <2>1. done = {x \in Witness : s # <<>> /\ ~Sooner(w, Last(s), x)}
    BY <1>3, <1>6
  <2>2. s # <<>>
    BY <2>1
  <2>3. Last(s) \in Witness
    BY <1>1, <2>2, LastIs
  <2> DEFINE l == Last(s)
  <2> HIDE DEF done, l, s
  <2>4. l \in Witness /\ l \in done /\ \A y \in done : ~Sooner(w, l, y)
    BY <1>2, <2>1, <2>2, <2>3 DEF Sooner, l
  <2>5. z \in done
    BY <2>4 DEF LastOf
  <2>6. ASSUME NEW y \in Witness \ done PROVE w[y].time >= w[z].time
    <3>1. Sooner(w, l, y)
      BY <2>1, <2>2 DEF l
    <3>2. ~Sooner(w, l, z) /\ z \in Witness
      BY <2>4, <2>5, <1>4
    <3> HIDE DEF z
    <3> QED BY <1>2, <2>4, <3>1, <3>2 DEF Sooner
  <2> QED BY <1>4, <2>5, <2>6 DEF done
<1> QED
  BY <1>5, <1>6

\* The arithmetic of uint128_t stays in its range, and shows an overflow.
LEMMA WrapRange ==
    /\ \A n \in Int : Wrap(n) \in 0..LAP
    /\ \A n \in 0..LAP, m \in 0..LAP : ~(Wrap(n + m) < n) => n + m \in 0..LAP
<1>1. LAP \in Nat
  BY Parameters DEF Parameters
<1>2. \A n \in Int : n % (LAP + 1) \in 0..LAP
  BY <1>1
<1>3. ASSUME NEW n \in 0..LAP, NEW m \in 0..LAP, n + m > LAP PROVE (n + m) % (LAP + 1) < n
  <2>1. (n + m) - (LAP + 1) \in 0..LAP
    BY <1>1, <1>3
  <2>2. \A a \in 0..LAP : (a + (LAP + 1)) % (LAP + 1) = a
    BY <1>1
  <2>3. (n + m) % (LAP + 1) = (n + m) - (LAP + 1)
    BY <1>1, <2>1, <2>2
  <2> QED BY <1>1, <2>3
<1> QED
  BY <1>1, <1>2, <1>3 DEF Wrap

\* A lap is no longer than the largest virtual time.
LEMMA LapRange ==
    ASSUME NEW n \in Nat, NEW c \in Nat, n <= LAP
    PROVE  n \div (c + 1) \in 0..LAP
<1>1. LAP \in Nat
  BY Parameters DEF Parameters
<1>2. n <= n * (c + 1)
  OBVIOUS
<1>3. n \div (c + 1) \in 0..n
  BY <1>2, DivBound
<1> QED
  BY <1>1, <1>3

\* What the schedule does not touch in a witness object.
SameVotes(a, b) ==
    a.votes = b.votes /\ a.counted = b.counted /\ a.penalty = b.penalty /\ a.vote = b.vote

\* Another lap, or all laps anew: nobody's time is before the virtual time.
LEMMA LapsGood ==
    ASSUME NEW w \in [Witness -> WitnessObject], NEW done \in SUBSET Witness,
           NEW now \in 0..LAP, \A y \in Witness \ done : w[y].time >= now
    PROVE  /\ AdvanceLaps(w, done, now) \in [Witness -> WitnessObject]
           /\ \A x \in Witness :
                 /\ AdvanceLaps(w, done, now)[x].time >= (IF Overflows(w, done, now) THEN 0 ELSE now)
                 /\ SameVotes(AdvanceLaps(w, done, now)[x], w[x])
<1> DEFINE u == AdvanceLaps(w, done, now)
<1>1. \A x \in Witness : w[x] \in WitnessObject /\ w[x].counted \in Nat /\ w[x].time \in Nat
  BY WitnessFields
<1>2. LAP \in Nat /\ now \in Nat /\ now <= LAP /\ 0 \in 0..LAP
  BY Parameters DEF Parameters
<1>3. \A x \in Witness : LAP \div (w[x].counted + 1) \in 0..LAP
  BY <1>1, <1>2, LapRange
<1>4. CASE Overflows(w, done, now)
  <2>1. u = [x \in Witness |-> [w[x] EXCEPT !.position = 0, !.updated = 0,
                                            !.time = LAP \div (w[x].counted + 1)]]
    BY <1>4 DEF AdvanceLaps, reset_virtual_schedule_time
  <2>2. ASSUME NEW x \in Witness
        PROVE  u[x] \in WitnessObject /\ u[x].time >= 0 /\ SameVotes(u[x], w[x])
    <3>1. u[x] = [w[x] EXCEPT !.position = 0, !.updated = 0, !.time = LAP \div (w[x].counted + 1)]
      BY <2>1
    <3>2. w[x] \in WitnessObject /\ LAP \div (w[x].counted + 1) \in 0..LAP
      BY <1>1, <1>3
    <3> DEFINE t == LAP \div (w[x].counted + 1)
    <3> HIDE DEF t
    <3>3. u[x] = [w[x] EXCEPT !.position = 0, !.updated = 0, !.time = t] /\ t \in 0..LAP
      BY <3>1, <3>2 DEF t
    <3>4. u[x] \in WitnessObject /\ u[x].time = t /\ SameVotes(u[x], w[x])
      BY <1>2, <3>2, <3>3 DEF WitnessObject, SameVotes
    <3> QED BY <1>2, <3>3, <3>4
  <2> QED BY <1>4, <2>1, <2>2
<1>5. CASE ~Overflows(w, done, now)
  <2>1. u = [x \in Witness |-> IF x \in done
                THEN [w[x] EXCEPT !.position = 0, !.updated = now, !.time = NextLap(w, x, now)]
                ELSE w[x]]
    BY <1>5 DEF AdvanceLaps
  <2>2. ASSUME NEW x \in done PROVE NextLap(w, x, now) \in 0..LAP /\ NextLap(w, x, now) >= now
    <3> DEFINE m == LAP \div (w[x].counted + 1)
    <3>1. m \in 0..LAP
      BY <1>3
    <3>2. ~(Wrap(now + m) < now)
      BY <1>5 DEF Overflows, NextLap
    <3>3. NextLap(w, x, now) = now + m
      BY DEF NextLap
    <3> HIDE DEF m
    <3>4. now + m \in 0..LAP
      BY <3>1, <3>2, WrapRange
    <3> QED BY <1>2, <3>1, <3>3, <3>4
  <2>3. ASSUME NEW x \in Witness
        PROVE  u[x] \in WitnessObject /\ u[x].time >= now /\ SameVotes(u[x], w[x])
    <3>1. CASE x \in done
      <4>1. u[x] = [w[x] EXCEPT !.position = 0, !.updated = now, !.time = NextLap(w, x, now)]
        BY <2>1, <3>1
      <4> QED BY <1>1, <1>2, <2>2, <3>1, <4>1 DEF WitnessObject, SameVotes
    <3>2. CASE x \notin done
      BY <1>1, <2>1, <3>2 DEF SameVotes
    <3> QED BY <3>1, <3>2
  <2> QED BY <1>5, <2>1, <2>3
<1> QED
  BY <1>4, <1>5

(***************************************************************************)
(* update_witness_schedule as a whole.                                     *)
(***************************************************************************)
LEMMA ScheduleUpdated ==
    ASSUME NEW w \in [Witness -> WitnessObject], wso.now \in 0..LAP,
           \A x \in Witness : w[x].time >= wso.now, update_witness_schedule(w)
    PROVE  /\ GoodList(wso'.list) /\ wso'.now \in 0..LAP /\ wso'.percent \in Nat
           /\ wit' \in [Witness -> WitnessObject]
           /\ \A x \in Witness : wit'[x].time >= wso'.now /\ SameVotes(wit'[x], w[x])
<1> DEFINE top == TopWitnesses(w)
           done == Processed(w, top)
           list == TakeTurns(top, Support(w, top))
           now == IF done = {} THEN wso.now ELSE w[LastOf(w, done)].time
<1>1. /\ list # <<>> /\ wit' = AdvanceLaps(w, done, now)
      /\ wso' = [list |-> list, now |-> IF Overflows(w, done, now) THEN 0 ELSE now,
                 percent |-> MedianPenalty(list), majority |-> MajorityVersion(w)]
  BY DEF update_witness_schedule
<1>2. GoodList(list)
  BY <1>1, TurnsGood
<1>3. MedianPenalty(list) \in Nat
  BY <1>2, MedianIs
<1>4. top \in Seq(Witness) /\ Places(top) \in Nat
  BY TopIs
<1>5. LAP \in Nat /\ \A x \in Witness : w[x].time \in 0..LAP
  <2>1. LAP \in Nat
    BY Parameters DEF Parameters
  <2> QED BY <2>1, WitnessFields
<1> HIDE DEF top, list
<1>6. done \in SUBSET Witness /\ now \in 0..LAP /\ \A y \in Witness \ done : w[y].time >= now
  <2>1. CASE done = {}
    BY <2>1
  <2>2. CASE done # {}
    BY <1>4, <1>5, <2>2, OthersLater
  <2> QED BY <2>1, <2>2
<1> HIDE DEF done, now
<1>7. /\ wit' \in [Witness -> WitnessObject]
      /\ \A x \in Witness : /\ wit'[x].time >= (IF Overflows(w, done, now) THEN 0 ELSE now)
                            /\ SameVotes(wit'[x], w[x])
  BY <1>1, <1>6, LapsGood
<1> QED
  BY <1>1, <1>2, <1>3, <1>5, <1>6, <1>7

----------------------------------------------------------------------------
(* Penalties.                                                              *)

\* The bodies of the loops over sequences.
ChooseStep(S, t, x) == IF x \in S THEN Append(t, x) ELSE t
AddStep(x, n, e) == IF e.who = x THEN n + e.percent ELSE n
ShiftStep(c, d, bit) == Shift(d, bit)

Choosing == INSTANCE FoldLemmas WITH Step <- ChooseStep
Adding == INSTANCE FoldLemmas WITH Step <- AddStep
Shifting == INSTANCE FoldLemmas WITH Step <- ShiftStep

\* The operators are the loops with these bodies.
LEMMA ChosenIs == \A s, S : Chosen(s, S) = Choosing!Folded(S, <<>>, s)
BY Choosing!FoldedDef DEF Chosen, ChooseStep, FoldLeft, MapThenFoldSet, Max, Choosing!Max, Choosing!FoldRecursion

\* Adding up the percentages of a witness is a loop with this body.
LEMMA PercentOfIs == \A x, ps : PercentOf(x, ps) = Adding!Folded(x, 0, ps)
BY Adding!FoldedDef DEF PercentOf, AddStep, FoldLeft, MapThenFoldSet, Max, Adding!Max, Adding!FoldRecursion

\* Shifting the slots missed into the record of recent slots is one too.
LEMMA ShiftedIs == \A d, s : FoldLeft(Shift, d, s) = Shifting!Folded(0, d, s)
BY Shifting!FoldedDef DEF ShiftStep, FoldLeft, MapThenFoldSet, Max, Shifting!Max, Shifting!FoldRecursion

\* Choosing from nothing, and from one element more.
LEMMA ChosenEmpty == \A S : Chosen(<<>>, S) = <<>>
BY ChosenIs, Choosing!FoldedEmpty

\* What is chosen from one element more.
LEMMA ChosenAppend ==
    ASSUME NEW A, NEW S, NEW s \in Seq(A), NEW e \in A
    PROVE  Chosen(Append(s, e), S) = IF e \in S THEN Append(Chosen(s, S), e) ELSE Chosen(s, S)
<1>1. Choosing!Folded(S, <<>>, Append(s, e)) = ChooseStep(S, Choosing!Folded(S, <<>>, s), e)
  BY Choosing!FoldedAppend
<1> QED
  BY <1>1, ChosenIs DEF ChooseStep

Penalty == [who : Witness, percent : Nat, left : Nat]

\* The percentages of no penalties, and of one more.
LEMMA PercentSteps ==
    ASSUME NEW x
    PROVE  /\ PercentOf(x, <<>>) = 0
           /\ \A s \in Seq(Penalty), e \in Penalty :
                 PercentOf(x, Append(s, e)) =
                     IF e.who = x THEN PercentOf(x, s) + e.percent ELSE PercentOf(x, s)
<1>1. PercentOf(x, <<>>) = 0
  BY PercentOfIs, Adding!FoldedEmpty
<1>2. ASSUME NEW s \in Seq(Penalty), NEW e \in Penalty
      PROVE  PercentOf(x, Append(s, e)) =
                 IF e.who = x THEN PercentOf(x, s) + e.percent ELSE PercentOf(x, s)
  <2>1. Adding!Folded(x, 0, Append(s, e)) = AddStep(x, Adding!Folded(x, 0, s), e)
    BY Adding!FoldedAppend
  <2> QED BY <2>1, PercentOfIs DEF AddStep
<1> QED
  BY <1>1, <1>2

\* What is chosen is a sequence of the same kind.
LEMMA ChosenType ==
    ASSUME NEW A, NEW S
    PROVE  \A s \in Seq(A) : Chosen(s, S) \in Seq(A)
<1> DEFINE T == {s \in Seq(A) : Chosen(s, S) \in Seq(A)}
<1>0. Chosen(<<>>, S) = <<>> /\ <<>> \in Seq(A)
  BY ChosenEmpty
<1>1. <<>> \in T
  BY <1>0
<1>2. ASSUME NEW s \in Seq(A), NEW e \in A, s \in T PROVE Append(s, e) \in T
  <2>1. Chosen(Append(s, e), S) = IF e \in S THEN Append(Chosen(s, S), e) ELSE Chosen(s, S)
    BY ChosenAppend
  <2>2. Chosen(s, S) \in Seq(A) /\ Append(s, e) \in Seq(A)
    BY <1>2
  <2> QED BY <2>1, <2>2
<1>3. \A s \in Seq(A) : s \in T
  BY <1>1, <1>2, SeqInduct
<1> QED
  BY <1>3

\* Percentages are numbers.
LEMMA PercentType ==
    ASSUME NEW x
    PROVE  \A s \in Seq(Penalty) : PercentOf(x, s) \in Nat
<1> DEFINE T == {s \in Seq(Penalty) : PercentOf(x, s) \in Nat}
<1>1. <<>> \in T
  BY PercentSteps
<1>2. ASSUME NEW s \in Seq(Penalty), NEW e \in Penalty, s \in T PROVE Append(s, e) \in T
  <2>1. e.percent \in Nat /\ Append(s, e) \in Seq(Penalty)
    BY DEF Penalty
  <2>2. PercentOf(x, Append(s, e)) = IF e.who = x THEN PercentOf(x, s) + e.percent ELSE PercentOf(x, s)
    BY PercentSteps
  <2>3. PercentOf(x, s) \in Nat
    BY <1>2
  <2> QED BY <2>1, <2>2, <2>3
<1>3. \A s \in Seq(Penalty) : s \in T
  BY <1>1, <1>2, SeqInduct
<1> QED
  BY <1>3

\* The percentages of two lists, one after the other.
LEMMA PercentConcat ==
    ASSUME NEW x, NEW r \in Seq(Penalty)
    PROVE  \A s \in Seq(Penalty) : PercentOf(x, r \o s) = PercentOf(x, r) + PercentOf(x, s)
<1> DEFINE T == {s \in Seq(Penalty) : PercentOf(x, r \o s) = PercentOf(x, r) + PercentOf(x, s)}
<1>0. \A s \in Seq(Penalty) : PercentOf(x, s) \in Nat
  BY PercentType
<1>1. <<>> \in T
  <2>1. r \o <<>> = r
    OBVIOUS
  <2> QED BY <1>0, <2>1, PercentSteps
<1>2. ASSUME NEW s \in Seq(Penalty), NEW e \in Penalty, s \in T PROVE Append(s, e) \in T
  <2>1. r \o Append(s, e) = Append(r \o s, e) /\ r \o s \in Seq(Penalty)
    OBVIOUS
  <2>2. e.percent \in Nat /\ Append(s, e) \in Seq(Penalty)
    BY DEF Penalty
  <2>3. PercentOf(x, Append(r \o s, e)) =
            IF e.who = x THEN PercentOf(x, r \o s) + e.percent ELSE PercentOf(x, r \o s)
    BY <2>1, PercentSteps
  <2>4. PercentOf(x, Append(s, e)) = IF e.who = x THEN PercentOf(x, s) + e.percent ELSE PercentOf(x, s)
    BY PercentSteps
  <2>5. PercentOf(x, r \o s) = PercentOf(x, r) + PercentOf(x, s)
    BY <1>2
  <2>6. PercentOf(x, s) \in Nat /\ PercentOf(x, r) \in Nat
    BY <1>0
  <2>7. PercentOf(x, r \o Append(s, e)) = PercentOf(x, r) + PercentOf(x, Append(s, e))
    BY <2>1, <2>2, <2>3, <2>4, <2>5, <2>6
  <2> QED BY <2>2, <2>7
<1>3. \A s \in Seq(Penalty) : s \in T
  BY <1>1, <1>2, SeqInduct
<1> QED
  BY <1>3

\* The percentages of a list are those of its two parts.
LEMMA PercentSplit ==
    ASSUME NEW x, NEW U, NEW S
    PROVE  \A s \in Seq(Penalty) : Range(s) \in SUBSET U =>
              PercentOf(x, Chosen(s, S)) + PercentOf(x, Chosen(s, U \ S)) = PercentOf(x, s)
<1> DEFINE P(s) == PercentOf(x, Chosen(s, S)) + PercentOf(x, Chosen(s, U \ S)) = PercentOf(x, s)
           T == {s \in Seq(Penalty) : Range(s) \in SUBSET U => P(s)}
<1>0. \A s \in Seq(Penalty) : /\ PercentOf(x, s) \in Nat
                              /\ Chosen(s, S) \in Seq(Penalty) /\ Chosen(s, U \ S) \in Seq(Penalty)
  BY PercentType, ChosenType
<1>1. <<>> \in T
  BY ChosenEmpty, PercentSteps
<1>2. ASSUME NEW s \in Seq(Penalty), NEW e \in Penalty, s \in T PROVE Append(s, e) \in T
  <2> SUFFICES ASSUME Range(Append(s, e)) \in SUBSET U PROVE P(Append(s, e))
    OBVIOUS
  <2> DEFINE r == Append(s, e)
             a == Chosen(s, S)
             b == Chosen(s, U \ S)
  <2>1. /\ r \in Seq(Penalty) /\ DOMAIN r = 1..(Len(s) + 1) /\ Len(s) \in Nat /\ DOMAIN s = 1..Len(s)
        /\ r[Len(s) + 1] = e /\ \A i \in 1..Len(s) : r[i] = s[i]
    OBVIOUS
  <2>2. e \in U /\ Range(s) \in SUBSET U
    <3>1. r[Len(s) + 1] \in U /\ \A i \in 1..Len(s) : r[i] \in U
      BY <2>1 DEF Range
    <3> QED BY <2>1, <3>1 DEF Range
  <2>3. P(s)
    BY <1>2, <2>2
  <2>4. a \in Seq(Penalty) /\ b \in Seq(Penalty) /\ e.percent \in Nat
    BY <1>0 DEF Penalty
  <2>5. /\ Chosen(r, S) = IF e \in S THEN Append(a, e) ELSE a
        /\ Chosen(r, U \ S) = IF e \in U \ S THEN Append(b, e) ELSE b
    <3>1. Chosen(r, S) = IF e \in S THEN Append(a, e) ELSE a
      BY ChosenAppend
    <3>2. Chosen(r, U \ S) = IF e \in U \ S THEN Append(b, e) ELSE b
      BY ChosenAppend
    <3> QED BY <3>1, <3>2
  <2> HIDE DEF a, b, r
  <2>6. /\ PercentOf(x, Append(a, e)) = IF e.who = x THEN PercentOf(x, a) + e.percent ELSE PercentOf(x, a)
        /\ PercentOf(x, Append(b, e)) = IF e.who = x THEN PercentOf(x, b) + e.percent ELSE PercentOf(x, b)
        /\ PercentOf(x, Append(s, e)) = IF e.who = x THEN PercentOf(x, s) + e.percent ELSE PercentOf(x, s)
    BY <2>4, PercentSteps
  <2>7. PercentOf(x, a) \in Nat /\ PercentOf(x, b) \in Nat /\ PercentOf(x, s) \in Nat
        /\ PercentOf(x, a) + PercentOf(x, b) = PercentOf(x, s)
    BY <1>0, <2>3, <2>4 DEF a, b
  <2>8. PercentOf(x, Chosen(r, S)) + PercentOf(x, Chosen(r, U \ S)) = PercentOf(x, Append(s, e))
    <3>0. \A i, k, n, d \in Nat : i + k = n => (i + d) + k = n + d /\ i + (k + d) = n + d
      OBVIOUS
    <3>1. CASE e \in S
      <4>1. /\ PercentOf(x, Chosen(r, S)) = PercentOf(x, Append(a, e))
            /\ PercentOf(x, Chosen(r, U \ S)) = PercentOf(x, b)
        BY <2>5, <3>1
      <4> QED BY <2>4, <2>6, <2>7, <3>0, <4>1
    <3>2. CASE e \notin S
      <4>1. /\ PercentOf(x, Chosen(r, S)) = PercentOf(x, a)
            /\ PercentOf(x, Chosen(r, U \ S)) = PercentOf(x, Append(b, e))
        BY <2>2, <2>5, <3>2
      <4> QED BY <2>4, <2>6, <2>7, <3>0, <4>1
    <3> QED BY <3>1, <3>2
  <2> QED BY <2>8 DEF r
<1>3. \A s \in Seq(Penalty) : s \in T
  BY <1>1, <1>2, SeqInduct
<1> QED
  BY <1>3

\* Lists of the same penalties of the same witnesses.
LEMMA PercentSame ==
    ASSUME NEW x
    PROVE  \A s \in Seq(Penalty) : \A r \in Seq(Penalty) :
              /\ Len(r) = Len(s)
              /\ \A i \in 1..Len(s) : r[i].who = s[i].who /\ r[i].percent = s[i].percent
              => PercentOf(x, r) = PercentOf(x, s)
<1> DEFINE Like(r, s) == /\ Len(r) = Len(s)
                         /\ \A i \in 1..Len(s) : r[i].who = s[i].who /\ r[i].percent = s[i].percent
           T == {s \in Seq(Penalty) : \A r \in Seq(Penalty) : Like(r, s) => PercentOf(x, r) = PercentOf(x, s)}
<1>1. <<>> \in T
  BY EmptySeq
<1>2. ASSUME NEW s \in Seq(Penalty), NEW e \in Penalty, s \in T PROVE Append(s, e) \in T
  <2>0. Append(s, e) \in Seq(Penalty)
    OBVIOUS
  <2> SUFFICES ASSUME NEW r \in Seq(Penalty), Like(r, Append(s, e))
               PROVE  PercentOf(x, r) = PercentOf(x, Append(s, e))
    BY <2>0
  <2> DEFINE n == Len(s)
             q == SubSeq(r, 1, n)
             d == r[n + 1]
  <2>1. n \in Nat /\ Len(r) = n + 1 /\ d.who = e.who /\ d.percent = e.percent
        /\ \A i \in 1..n : r[i].who = s[i].who /\ r[i].percent = s[i].percent
    OBVIOUS
  <2>2. q \in Seq(Penalty) /\ Len(q) = n /\ d \in Penalty /\ r = Append(q, d)
        /\ \A i \in 1..n : q[i] = r[i]
    BY <2>1
  <2> HIDE DEF q, d
  <2>3. PercentOf(x, q) = PercentOf(x, s)
    <3>1. Like(q, s)
      BY <2>1, <2>2
    <3> QED BY <1>2, <2>2, <3>1
  <2>4. /\ PercentOf(x, Append(q, d)) = IF d.who = x THEN PercentOf(x, q) + d.percent ELSE PercentOf(x, q)
        /\ PercentOf(x, Append(s, e)) = IF e.who = x THEN PercentOf(x, s) + e.percent ELSE PercentOf(x, s)
    <3>1. \A a \in Seq(Penalty), b \in Penalty :
              PercentOf(x, Append(a, b)) = IF b.who = x THEN PercentOf(x, a) + b.percent ELSE PercentOf(x, a)
      BY PercentSteps
    <3> QED BY <2>2, <3>1
  <2> QED BY <2>1, <2>2, <2>3, <2>4
<1>3. \A s \in Seq(Penalty) : s \in T
  BY <1>1, <1>2, SeqInduct
<1> QED
  BY <1>3

\* The penalties for missed slots.
ForSlots(m, percent, left) ==
    [i \in DOMAIN m |-> [who |-> m[i], percent |-> percent, left |-> left]]

\* They are one percentage for each slot missed.
LEMMA PercentOfSlots ==
    ASSUME NEW x, NEW c \in Nat, NEW l \in Nat
    PROVE  \A m \in Seq(Witness) :
              /\ ForSlots(m, c, l) \in Seq(Penalty)
              /\ Cardinality({i \in DOMAIN m : m[i] = x}) \in Nat
              /\ PercentOf(x, ForSlots(m, c, l)) = c * Cardinality({i \in DOMAIN m : m[i] = x})
<1> DEFINE S(m) == {i \in DOMAIN m : m[i] = x}
           T == {m \in Seq(Witness) : PercentOf(x, ForSlots(m, c, l)) = c * Cardinality(S(m))}
<1>0. ASSUME NEW m \in Seq(Witness)
      PROVE  /\ ForSlots(m, c, l) \in Seq(Penalty)
             /\ Cardinality(S(m)) \in Nat /\ IsFiniteSet(S(m))
  <2>1. Len(m) \in Nat /\ DOMAIN m = 1..Len(m) /\ \A i \in 1..Len(m) : m[i] \in Witness
    OBVIOUS
  <2>2. ForSlots(m, c, l) \in [1..Len(m) -> Penalty]
    BY <2>1 DEF ForSlots, Penalty
  <2>3. IsFiniteSet(1..Len(m)) /\ S(m) \in SUBSET (1..Len(m))
    BY <2>1, FS_Interval
  <2>4. IsFiniteSet(S(m))
    BY <2>3, FS_Subset
  <2>5. Cardinality(S(m)) \in Nat
    BY <2>4, FS_CardinalityType
  <2>6. ForSlots(m, c, l) \in Seq(Penalty)
    BY <2>1, <2>2
  <2> QED BY <2>4, <2>5, <2>6
<1>1. <<>> \in T
  <2>1. S(<<>>) = {} /\ ForSlots(<<>>, c, l) = <<>> /\ <<>> \in Seq(Witness)
    BY DEF ForSlots
  <2>2. Cardinality(S(<<>>)) = 0
    BY <2>1, FS_EmptySet
  <2> QED BY <2>1, <2>2, PercentSteps
<1>2. ASSUME NEW m \in Seq(Witness), NEW y \in Witness, m \in T PROVE Append(m, y) \in T
  <2> DEFINE e == [who |-> y, percent |-> c, left |-> l]
             k == Cardinality(S(m))
  <2>1. Append(m, y) \in Seq(Witness) /\ Len(m) \in Nat
    OBVIOUS
  <2>2. ForSlots(Append(m, y), c, l) = Append(ForSlots(m, c, l), e)
    BY DEF ForSlots
  <2>3. S(Append(m, y)) = IF y = x THEN S(m) \cup {Len(m) + 1} ELSE S(m)
    OBVIOUS
  <2>4. Len(m) + 1 \notin S(m)
    OBVIOUS
  <2>5. Cardinality(S(Append(m, y))) = IF y = x THEN k + 1 ELSE k
    BY <1>0, <2>3, <2>4, FS_AddElement
  <2>6. e \in Penalty /\ ForSlots(m, c, l) \in Seq(Penalty) /\ e.who = y /\ e.percent = c
    BY <1>0 DEF Penalty
  <2>7. PercentOf(x, Append(ForSlots(m, c, l), e)) =
            IF y = x THEN PercentOf(x, ForSlots(m, c, l)) + c ELSE PercentOf(x, ForSlots(m, c, l))
    BY <2>6, PercentSteps
  <2>8. PercentOf(x, ForSlots(m, c, l)) = c * k /\ k \in Nat
    BY <1>0, <1>2
  <2> HIDE DEF k, e
  <2>9. c * (k + 1) = c * k + c
    BY <2>8
  <2> QED BY <2>1, <2>2, <2>5, <2>7, <2>8, <2>9
<1>3. \A m \in Seq(Witness) : m \in T
  BY <1>1, <1>2, SeqInduct
<1> QED
  BY <1>0, <1>3

----------------------------------------------------------------------------
(* Slots.                                                                  *)

Slots == [round : 0..(CHAIN_MAX_WITNESSES - 1), aslot : 0..(SlotCycle - 1),
          filled : [1..WINDOW -> 0..1], participation : Int]

\* One bit in, one out: still a window of bits.
LEMMA ShiftGood ==
    ASSUME NEW d \in Slots, NEW bit \in 0..1
    PROVE  Shift(d, bit) \in Slots /\ Shift(d, bit).round = d.round /\ Shift(d, bit).aslot = d.aslot
<1>1. WINDOW \in Nat /\ WINDOW > 0
  BY Parameters DEF Parameters
<1>2. d.filled \in [1..WINDOW -> 0..1] /\ d.participation \in Int
  BY DEF Slots
<1>3. d.filled[1] \in Int /\ bit \in Int
  BY <1>1, <1>2
<1>4. d.filled \in Seq(0..1) /\ Len(d.filled) = WINDOW
  BY <1>1, <1>2
<1>5. Append(Tail(d.filled), bit) \in Seq(0..1) /\ Len(Append(Tail(d.filled), bit)) = WINDOW
  BY <1>1, <1>4
<1>6. Append(Tail(d.filled), bit) \in [1..WINDOW -> 0..1]
  <2>1. \A g \in Seq(0..1) : Len(g) = WINDOW => g \in [1..WINDOW -> 0..1]
    BY <1>1
  <2> QED BY <1>5, <2>1
<1>7. Shift(d, bit) = [d EXCEPT !.filled = Append(Tail(d.filled), bit),
                                !.participation = d.participation - d.filled[1] + bit]
  BY DEF Shift
<1>8. d.participation - d.filled[1] + bit \in Int
  BY <1>2, <1>3
<1> DEFINE f == Append(Tail(d.filled), bit)
           n == d.participation - d.filled[1] + bit
<1> HIDE DEF f, n
<1> QED
  BY <1>6, <1>7, <1>8 DEF Slots, f, n

\* The same after any number of bits.
LEMMA ShiftsGood ==
    ASSUME NEW d \in Slots
    PROVE  \A s \in Seq(0..1) :
              /\ FoldLeft(Shift, d, s) \in Slots
              /\ FoldLeft(Shift, d, s).round = d.round /\ FoldLeft(Shift, d, s).aslot = d.aslot
<1> DEFINE r(s) == Shifting!Folded(0, d, s)
           T == {s \in Seq(0..1) : r(s) \in Slots /\ r(s).round = d.round /\ r(s).aslot = d.aslot}
<1>1. <<>> \in T
  BY Shifting!FoldedEmpty
<1>2. ASSUME NEW s \in Seq(0..1), NEW bit \in 0..1, s \in T PROVE Append(s, bit) \in T
  <2>1. r(Append(s, bit)) = Shift(r(s), bit)
    BY Shifting!FoldedAppend DEF ShiftStep
  <2> HIDE DEF r
  <2>2. Append(s, bit) \in Seq(0..1)
    OBVIOUS
  <2> QED BY <1>2, <2>1, <2>2, ShiftGood
<1> HIDE DEF T
<1>3. \A s \in Seq(0..1) : s \in T
  BY <1>1, <1>2, SeqInduct
<1> QED
  BY <1>3, ShiftedIs DEF T

\* The slots after a block.
LEMMA SlotsGood ==
    ASSUME dgp \in Slots, NEW gap \in Nat
    PROVE  SlotsAfter(gap) \in Slots
<1> DEFINE bits == [i \in 1..(gap + 1) |-> IF i = 1 THEN 1 ELSE 0]
           d == FoldLeft(Shift, dgp, bits)
<1>1. bits \in Seq(0..1)
  OBVIOUS
<1> HIDE DEF bits
<1>2. d \in Slots /\ d.round = dgp.round /\ d.aslot = dgp.aslot
  BY <1>1, ShiftsGood
<1>3. SlotsAfter(gap) = [d EXCEPT !.aslot = (d.aslot + gap + 1) % SlotCycle,
                                  !.round = (d.round + 1) % CHAIN_MAX_WITNESSES]
  BY DEF SlotsAfter, bits
<1> HIDE DEF d
<1>4. SlotCycle \in Nat \ {0} /\ CHAIN_MAX_WITNESSES \in Nat \ {0}
  BY Parameters DEF Parameters
<1>5. d.aslot \in Nat /\ d.round \in Nat
  BY <1>2, <1>4 DEF Slots
<1>6. /\ (d.aslot + gap + 1) % SlotCycle \in 0..(SlotCycle - 1)
      /\ (d.round + 1) % CHAIN_MAX_WITNESSES \in 0..(CHAIN_MAX_WITNESSES - 1)
  BY <1>4, <1>5
<1> QED
  BY <1>2, <1>3, <1>6 DEF Slots

\* Every slot is somebody's.
LEMMA ScheduledIs ==
    ASSUME dgp \in Slots, GoodList(wso.list), NEW i \in Nat
    PROVE  get_scheduled_witness(i) \in Witness
<1> DEFINE n == Len(wso.list)
           a == dgp.aslot
<1>1. n \in Nat \ {0} /\ wso.list \in Seq(Witness)
  BY DEF GoodList
<1>2. a \in Nat
  BY Parameters DEF Slots, Parameters
<1> HIDE DEF n, a
<1>3. ((a + i) % n) + 1 \in 1..n
  BY <1>1, <1>2
<1>4. wso.list[((a + i) % n) + 1] \in Witness
  BY <1>1, <1>3, ElementOfSeq DEF n
<1> QED
  BY <1>4 DEF get_scheduled_witness, n, a

\* The slots missed are witnesses' slots.
LEMMA MissedSlotsType ==
    ASSUME dgp \in Slots, GoodList(wso.list), NEW gap \in Nat, NEW p
    PROVE  MissedSlots(p, gap) \in Seq(Witness)
<1> DEFINE s == [i \in 1..gap |-> get_scheduled_witness(i)]
<1>1. s \in Seq(Witness)
  BY ScheduledIs
<1>2. MissedSlots(p, gap) = Chosen(s, Witness \ {p})
  BY DEF MissedSlots
<1> QED
  BY <1>1, <1>2, ChosenType

----------------------------------------------------------------------------
(* What a block does to the witness objects.                               *)

\* The penalties of the witnesses are those of the list, and their counted votes follow.
VotesMatch(w, ps) ==
    \A x \in Witness : /\ w[x].penalty = PercentOf(x, ps)
                       /\ w[x].counted = Counted(w[x].votes, w[x].penalty)

\* What missed slots, signatures and expired penalties leave alone.
SameTurns(w, u) == \A x \in Witness : u[x].time = w[x].time /\ u[x].vote = w[x].vote

\* A penalty more or less: still a witness object, its counted votes computed anew.
LEMMA PenalizeGood ==
    ASSUME NEW a \in WitnessObject, NEW c \in Int, a.penalty + c \in Nat
    PROVE  /\ Penalize(a, c) \in WitnessObject
           /\ Penalize(a, c).penalty = a.penalty + c /\ Penalize(a, c).votes = a.votes
           /\ Penalize(a, c).counted = Counted(a.votes, a.penalty + c)
           /\ Penalize(a, c).time = a.time /\ Penalize(a, c).vote = a.vote
           /\ Penalize(a, c).silence = a.silence
<1> DEFINE n == a.penalty + c
           k == Counted(a.votes, n)
<1>1. MaxVotes \in Nat /\ a.votes \in 0..MaxVotes
  BY Parameters DEF WitnessObject, Parameters
<1>2. n \in Nat /\ a.votes \in Nat
  BY <1>1
<1> HIDE DEF n
<1>3. k \in 0..a.votes
  BY <1>2, CountedRange
<1> HIDE DEF k
<1>4. k \in 0..MaxVotes
  BY <1>1, <1>3
<1>5. Penalize(a, c) = [a EXCEPT !.penalty = n, !.counted = k]
  BY DEF Penalize, n, k
<1>6. /\ Penalize(a, c) \in WitnessObject
      /\ Penalize(a, c).penalty = n /\ Penalize(a, c).votes = a.votes
      /\ Penalize(a, c).counted = k
      /\ Penalize(a, c).time = a.time /\ Penalize(a, c).vote = a.vote
      /\ Penalize(a, c).silence = a.silence
  BY <1>2, <1>4, <1>5 DEF WitnessObject
<1> QED
  BY <1>6 DEF n, k

\* Missed slots: every penalty has its object, and every object its penalty.
LEMMA MissedGood ==
    ASSUME NEW w \in [Witness -> WitnessObject], dgp \in Slots, GoodList(wso.list),
           wso.percent \in Nat, penalties \in Seq(Penalty), VotesMatch(w, penalties),
           NEW gap \in Nat, NEW p
    PROVE  /\ Missed(w, p, gap) \in [Witness -> WitnessObject]
           /\ PenaltiesAfter(p, gap) \in Seq(Penalty)
           /\ VotesMatch(Missed(w, p, gap), PenaltiesAfter(p, gap))
           /\ SameTurns(w, Missed(w, p, gap))
<1> DEFINE m == MissedSlots(p, gap)
           c == wso.percent
           l == Elapsed(MissDuration, gap + 1)
           old == [i \in 1..Len(penalties) |-> [penalties[i] EXCEPT !.left = Elapsed(@, gap + 1)]]
           u == Missed(w, p, gap)
           ps == PenaltiesAfter(p, gap)
<1>1. m \in Seq(Witness)
  BY MissedSlotsType
<1>2. \A n \in Nat : Elapsed(n, gap + 1) \in Nat
  BY DEF Elapsed
<1>3. l \in Nat
  BY <1>2, Parameters DEF Parameters
<1>4. old \in Seq(Penalty) /\ Len(old) = Len(penalties)
      /\ \A i \in 1..Len(penalties) : /\ old[i].who = penalties[i].who
                                      /\ old[i].percent = penalties[i].percent
  <2>0. Len(penalties) \in Nat
    OBVIOUS
  <2>1. ASSUME NEW i \in 1..Len(penalties)
        PROVE  /\ old[i] \in Penalty
               /\ old[i].who = penalties[i].who /\ old[i].percent = penalties[i].percent
    <3>1. penalties[i] \in Penalty
      BY ElementOfSeq
    <3>2. penalties[i].left \in Nat
      BY <3>1 DEF Penalty
    <3>3. Elapsed(penalties[i].left, gap + 1) \in Nat
      BY <1>2, <3>2
    <3>4. old[i] = [penalties[i] EXCEPT !.left = Elapsed(penalties[i].left, gap + 1)]
      OBVIOUS
    <3> QED BY <3>1, <3>3, <3>4 DEF Penalty
  <2>2. old \in [1..Len(penalties) -> Penalty]
    BY <2>1
  <2>3. old \in Seq(Penalty) /\ Len(old) = Len(penalties)
    BY <2>0, <2>2
  <2> QED BY <2>1, <2>3
<1>5. ps = old \o ForSlots(m, c, l)
  BY DEF PenaltiesAfter, ForSlots
<1>6. ForSlots(m, c, l) \in Seq(Penalty)
  BY <1>1, <1>3, PercentOfSlots
<1> HIDE DEF l, old
<1>7. ps \in Seq(Penalty)
  BY <1>4, <1>5, <1>6
<1>8. ASSUME NEW x \in Witness
      PROVE  /\ Misses(p, gap, x) \in Nat
             /\ PercentOf(x, ps) = PercentOf(x, penalties) + c * Misses(p, gap, x)
  <2>1. Misses(p, gap, x) = Cardinality({i \in DOMAIN m : m[i] = x})
    BY DEF Misses
  <2>2. Misses(p, gap, x) \in Nat /\ PercentOf(x, ForSlots(m, c, l)) = c * Misses(p, gap, x)
    BY <1>1, <1>3, <2>1, PercentOfSlots
  <2>3. PercentOf(x, old) = PercentOf(x, penalties)
    BY <1>4, PercentSame
  <2>4. PercentOf(x, old \o ForSlots(m, c, l)) = PercentOf(x, old) + PercentOf(x, ForSlots(m, c, l))
    BY <1>4, <1>6, PercentConcat
  <2> QED BY <1>5, <2>2, <2>3, <2>4
<1>9. ASSUME NEW x \in Witness
      PROVE  /\ u[x] \in WitnessObject
             /\ u[x].penalty = PercentOf(x, ps) /\ u[x].counted = Counted(u[x].votes, u[x].penalty)
             /\ u[x].time = w[x].time /\ u[x].vote = w[x].vote
  <2>1. w[x] \in WitnessObject /\ w[x].penalty \in Nat /\ c \in Nat /\ Misses(p, gap, x) \in Nat
    BY <1>8, WitnessFields
  <2>2. w[x].penalty = PercentOf(x, penalties) /\ w[x].counted = Counted(w[x].votes, w[x].penalty)
    BY DEF VotesMatch
  <2>3. CASE Misses(p, gap, x) = 0
    <3>1. u[x] = w[x]
      BY <2>3 DEF Missed
    <3>2. PercentOf(x, ps) = PercentOf(x, penalties)
      <4>1. c * 0 = 0 /\ PercentOf(x, penalties) \in Nat
        BY <2>1, <2>2
      <4> QED BY <1>8, <2>3, <4>1
    <3> QED BY <2>1, <2>2, <3>1, <3>2
  <2>4. CASE Misses(p, gap, x) # 0
    <3> DEFINE d == c * Misses(p, gap, x)
               b == Penalize(w[x], d)
               key == b.key /\ w[x].silence <= CHAIN_MAX_WITNESS_MISSED_BLOCKS
    <3>1. u[x] = [b EXCEPT !.key = key]
      BY <2>4 DEF Missed
    <3>2. d \in Nat /\ PercentOf(x, ps) = PercentOf(x, penalties) + d
      BY <1>8, <2>1
    <3> HIDE DEF d
    <3>3. w[x].penalty + d \in Nat
      BY <2>1, <3>2
    <3>4. /\ b \in WitnessObject
          /\ b.penalty = w[x].penalty + d /\ b.votes = w[x].votes
          /\ b.counted = Counted(w[x].votes, w[x].penalty + d)
          /\ b.time = w[x].time /\ b.vote = w[x].vote
      BY <2>1, <3>2, <3>3, PenalizeGood
    <3> HIDE DEF b
    <3>5. key \in BOOLEAN
      OBVIOUS
    <3> HIDE DEF key
    <3>6. u[x] \in WitnessObject /\ u[x].penalty = b.penalty /\ u[x].votes = b.votes
          /\ u[x].counted = b.counted /\ u[x].time = b.time /\ u[x].vote = b.vote
      BY <3>1, <3>4, <3>5 DEF WitnessObject
    <3>7. u[x].penalty = PercentOf(x, ps)
      BY <2>2, <3>2, <3>4, <3>6
    <3> QED BY <2>2, <3>2, <3>4, <3>6, <3>7
  <2> QED BY <2>3, <2>4
<1>10. u \in [Witness -> WitnessObject]
  <2>1. u = [x \in Witness |-> u[x]]
    BY DEF Missed
  <2> HIDE DEF u
  <2> QED BY <1>9, <2>1
<1> QED
  BY <1>7, <1>9, <1>10 DEF VotesMatch, SameTurns

\* A signature changes only how long a witness has been silent.
LEMMA SignedGood ==
    ASSUME NEW w \in [Witness -> WitnessObject], NEW ps, VotesMatch(w, ps), NEW p
    PROVE  /\ Signed(w, p) \in [Witness -> WitnessObject]
           /\ VotesMatch(Signed(w, p), ps) /\ SameTurns(w, Signed(w, p))
<1> DEFINE u == Signed(w, p)
<1>1. ASSUME NEW x \in Witness
      PROVE  /\ u[x] \in WitnessObject /\ u[x].penalty = w[x].penalty /\ u[x].votes = w[x].votes
             /\ u[x].counted = w[x].counted /\ u[x].time = w[x].time /\ u[x].vote = w[x].vote
  <2> DEFINE n == IF x = p THEN 0
                  ELSE IF w[x].silence > CHAIN_MAX_WITNESS_MISSED_BLOCKS
                       THEN w[x].silence ELSE w[x].silence + 1
  <2>1. w[x] \in WitnessObject /\ CHAIN_MAX_WITNESS_MISSED_BLOCKS \in Nat
    BY Parameters DEF Parameters
  <2>2. w[x].silence \in 0..(CHAIN_MAX_WITNESS_MISSED_BLOCKS + 1)
    BY <2>1 DEF WitnessObject
  <2>3. n \in 0..(CHAIN_MAX_WITNESS_MISSED_BLOCKS + 1)
    BY <2>1, <2>2
  <2>4. u[x] = [w[x] EXCEPT !.silence = n]
    BY DEF Signed
  <2> HIDE DEF n, u
  <2> QED BY <2>1, <2>3, <2>4 DEF WitnessObject
<1>2. u = [x \in Witness |-> u[x]]
  BY DEF Signed
<1> HIDE DEF u
<1>3. u \in [Witness -> WitnessObject] /\ VotesMatch(u, ps) /\ SameTurns(w, u)
  BY <1>1, <1>2 DEF VotesMatch, SameTurns
<1> QED
  BY <1>3 DEF u

\* Penalties that are over are taken back, and no others.
LEMMA TakeBackGood ==
    ASSUME NEW w \in [Witness -> WitnessObject], NEW ps \in Seq(Penalty), VotesMatch(w, ps)
    PROVE  /\ TakeBack(w, Chosen(ps, Over(ps))) \in [Witness -> WitnessObject]
           /\ Chosen(ps, Range(ps) \ Over(ps)) \in Seq(Penalty)
           /\ VotesMatch(TakeBack(w, Chosen(ps, Over(ps))), Chosen(ps, Range(ps) \ Over(ps)))
           /\ SameTurns(w, TakeBack(w, Chosen(ps, Over(ps))))
<1> DEFINE over == Chosen(ps, Over(ps))
           rest == Chosen(ps, Range(ps) \ Over(ps))
           u == TakeBack(w, over)
<1>1. over \in Seq(Penalty) /\ rest \in Seq(Penalty)
  BY ChosenType
<1>2. ASSUME NEW x \in Witness
      PROVE  /\ PercentOf(x, over) \in Nat /\ PercentOf(x, rest) \in Nat
             /\ PercentOf(x, over) + PercentOf(x, rest) = PercentOf(x, ps)
  <2>1. PercentOf(x, over) \in Nat /\ PercentOf(x, rest) \in Nat
    BY <1>1, PercentType
  <2>2. Range(ps) \in SUBSET Range(ps)
    OBVIOUS
  <2>3. PercentOf(x, over) + PercentOf(x, rest) = PercentOf(x, ps)
    BY <2>2, PercentSplit
  <2> QED BY <2>1, <2>3
<1> HIDE DEF over, rest
<1>3. ASSUME NEW x \in Witness
      PROVE  /\ u[x] \in WitnessObject
             /\ u[x].penalty = PercentOf(x, rest) /\ u[x].counted = Counted(u[x].votes, u[x].penalty)
             /\ u[x].time = w[x].time /\ u[x].vote = w[x].vote
  <2> DEFINE c == -PercentOf(x, over)
  <2>1. u[x] = Penalize(w[x], c)
    BY DEF TakeBack
  <2>2. w[x] \in WitnessObject /\ w[x].penalty = PercentOf(x, ps)
    BY DEF VotesMatch
  <2>3. c \in Int /\ w[x].penalty + c = PercentOf(x, rest) /\ w[x].penalty + c \in Nat
    BY <1>2, <2>2
  <2> HIDE DEF c, u
  <2>4. /\ u[x] \in WitnessObject
        /\ u[x].penalty = w[x].penalty + c /\ u[x].votes = w[x].votes
        /\ u[x].counted = Counted(w[x].votes, w[x].penalty + c)
        /\ u[x].time = w[x].time /\ u[x].vote = w[x].vote
    BY <2>1, <2>2, <2>3, PenalizeGood
  <2> QED BY <2>3, <2>4
<1>4. u = [x \in Witness |-> u[x]]
  BY DEF TakeBack
<1> HIDE DEF u
<1>5. u \in [Witness -> WitnessObject] /\ VotesMatch(u, rest) /\ SameTurns(w, u)
  BY <1>3, <1>4 DEF VotesMatch, SameTurns
<1> QED
  BY <1>1, <1>5 DEF u, over, rest

\* A change of votes: the scheduled time is computed anew, and never before the virtual time.
LEMMA VoteGood ==
    ASSUME NEW a \in WitnessObject, wso.now \in 0..LAP, NEW delta \in Int,
           a.votes + delta \in 0..MaxVotes
    PROVE  /\ adjust_witness_vote(a, delta) \in WitnessObject
           /\ adjust_witness_vote(a, delta).penalty = a.penalty
           /\ adjust_witness_vote(a, delta).counted =
                Counted(adjust_witness_vote(a, delta).votes, a.penalty)
           /\ adjust_witness_vote(a, delta).vote = a.vote
           /\ adjust_witness_vote(a, delta).time >= wso.now
<1> DEFINE position == Wrap(a.position + a.counted * (wso.now - a.updated))
           votes    == IF a.votes + delta < 0 THEN 0 ELSE a.votes + delta
           counted  == Counted(votes, a.penalty)
           time     == Wrap(wso.now + (LAP - position) \div (counted + 1))
           late     == IF time < wso.now THEN LAP ELSE time
           b        == adjust_witness_vote(a, delta)
<1>1. MaxVotes \in Nat /\ LAP \in Nat
  BY Parameters DEF Parameters
<1>2. /\ a.votes \in 0..MaxVotes /\ a.counted \in 0..MaxVotes /\ a.penalty \in Nat
      /\ a.position \in 0..LAP /\ a.updated \in 0..LAP
  BY DEF WitnessObject
<1>3. a.position + a.counted * (wso.now - a.updated) \in Int
  <2>1. a.position \in Int /\ a.counted \in Int /\ wso.now - a.updated \in Int
    BY <1>1, <1>2
  <2> QED BY <2>1
<1>4. position \in 0..LAP
  BY <1>3, WrapRange
<1>5. votes \in 0..MaxVotes
  BY <1>1, <1>2
<1>6. b = [a EXCEPT !.position = position, !.updated = wso.now, !.votes = votes,
                    !.counted = counted, !.time = late]
  BY DEF adjust_witness_vote
<1> HIDE DEF position, votes
<1>7. counted \in 0..MaxVotes
  <2>0. votes \in Nat /\ a.penalty \in Nat
    BY <1>1, <1>2, <1>5
  <2>1. counted \in 0..votes
    BY <2>0, CountedRange
  <2> HIDE DEF counted
  <2> QED BY <1>1, <1>5, <2>1
<1> HIDE DEF b
<1>8. time \in 0..LAP
  <2>1. LAP - position \in Nat /\ counted \in Nat /\ LAP - position <= LAP
    BY <1>1, <1>4, <1>7
  <2> HIDE DEF counted
  <2>2. (LAP - position) \div (counted + 1) \in 0..LAP
    BY <2>1, LapRange
  <2> DEFINE m == (LAP - position) \div (counted + 1)
  <2> HIDE DEF m
  <2>3. wso.now + m \in Int
    BY <1>1, <2>2 DEF m
  <2>4. Wrap(wso.now + m) \in 0..LAP
    BY <2>3, WrapRange
  <2> QED BY <2>4 DEF m
<1> HIDE DEF time
<1>9. late \in 0..LAP /\ late >= wso.now
  BY <1>1, <1>8
<1> HIDE DEF late
<1>10. /\ b \in WitnessObject /\ b.penalty = a.penalty /\ b.votes = votes /\ b.counted = counted
       /\ b.vote = a.vote /\ b.time = late
  <2> HIDE DEF counted
  <2> QED BY <1>4, <1>5, <1>6, <1>7, <1>9 DEF WitnessObject
<1> QED
  BY <1>9, <1>10 DEF b, counted

----------------------------------------------------------------------------
(* Hardforks.                                                              *)

Hardforks == [last : 0..Len(HardforkTime), next : 0..Len(HardforkTime), time : Nat, clock : Nat]

\* A vote carries the number of its hardfork.
LEMMA BallotIs ==
    ASSUME NEW v \in Ballots
    PROVE  v.version \in 0..Len(HardforkTime) /\ v = Vote(v.version) /\ v.time \in Nat
<1>1. PICK n \in 0..Len(HardforkTime) : v = Vote(n)
  BY DEF Ballots
<1>2. v.version = n /\ v.time = IF n = 0 THEN 0 ELSE HardforkTime[n]
  BY <1>1 DEF Vote
<1>3. HardforkTime \in Seq(Nat)
  BY Parameters DEF Parameters
<1>4. n # 0 => n \in 1..Len(HardforkTime)
  BY <1>1, <1>3
<1>5. n # 0 => HardforkTime[n] \in Nat
  BY <1>3, <1>4, ElementOfSeq
<1> QED
  BY <1>1, <1>2, <1>5

\* Nobody votes for more than the hardfork after the last.
VotesNear(w, last) == \A x \in Witness : w[x].vote.version <= last + 1

\* What is in store is what was agreed on at the last count, and the next in order.
InStore(h, b) == h.last < h.next => h.next = h.last + 1 /\ Vote(h.next) \in Agreed(b)

\* The header's extensions: a version, and a vote for the next hardfork at most.
LEMMA ExtensionsGood ==
    ASSUME wit \in [Witness -> WitnessObject], binary \in [Witness -> 0..Len(HardforkTime)],
           hf \in Hardforks, VotesNear(wit, hf.last), NEW ps, VotesMatch(wit, ps), NEW p \in Witness
    PROVE  /\ Extensions(p) \in [Witness -> WitnessObject]
           /\ VotesMatch(Extensions(p), ps) /\ VotesNear(Extensions(p), hf.last)
           /\ \A x \in Witness : /\ Extensions(p)[x].time = wit[x].time
                                 /\ Extensions(p)[x].votes = wit[x].votes
<1> DEFINE k == Len(HardforkTime)
           v == IF hf.last < binary[p] THEN Vote(hf.last + 1)
                ELSE IF wit[p].vote.version > binary[p] THEN Vote(hf.last) ELSE wit[p].vote
           u == Extensions(p)
<1>1. k \in Nat
  BY Parameters DEF Parameters
<1>2. hf.last \in 0..k /\ binary[p] \in 0..k /\ wit[p] \in WitnessObject
  BY DEF Hardforks
<1>3. wit[p].vote \in Ballots /\ wit[p].vote.version <= hf.last + 1
  BY <1>2 DEF WitnessObject, VotesNear
<1>4. \A n \in 0..k : Vote(n) \in Ballots /\ Vote(n).version = n
  BY DEF Ballots, Vote
<1>5. v \in Ballots /\ v.version <= hf.last + 1
  <2>1. CASE hf.last < binary[p]
    <3>1. hf.last + 1 \in 0..k
      BY <1>1, <1>2, <2>1
    <3> QED BY <1>1, <1>2, <1>4, <2>1, <3>1
  <2>2. CASE ~(hf.last < binary[p]) /\ wit[p].vote.version > binary[p]
    BY <1>1, <1>2, <1>4, <2>2
  <2>3. CASE ~(hf.last < binary[p]) /\ ~(wit[p].vote.version > binary[p])
    BY <1>3, <2>3
  <2> QED BY <2>1, <2>2, <2>3
<1>6. u = [wit EXCEPT ![p] = [wit[p] EXCEPT !.running = binary[p], !.vote = v]]
  BY DEF Extensions
<1> HIDE DEF v, u
<1>7. ASSUME NEW x \in Witness
      PROVE  /\ u[x] \in WitnessObject /\ u[x].vote.version <= hf.last + 1
             /\ u[x].votes = wit[x].votes /\ u[x].penalty = wit[x].penalty
             /\ u[x].counted = wit[x].counted /\ u[x].time = wit[x].time
  <2>1. CASE x = p
    <3>1. u[x] = [wit[p] EXCEPT !.running = binary[p], !.vote = v]
      BY <1>6, <2>1
    <3> QED BY <1>2, <1>5, <2>1, <3>1 DEF WitnessObject
  <2>2. CASE x # p
    BY <1>6, <2>2 DEF VotesNear
  <2> QED BY <2>1, <2>2
<1>8. u \in [Witness -> WitnessObject] /\ VotesMatch(u, ps) /\ VotesNear(u, hf.last)
  <2>1. u = [x \in Witness |-> u[x]]
    BY <1>6
  <2> QED BY <1>7, <2>1 DEF VotesMatch, VotesNear
<1> QED
  BY <1>7, <1>8 DEF u

\* The count at the end of a round: what is in store then was agreed on.
LEMMA CountGood ==
    ASSUME NEW h \in Hardforks, NEW b, \A x \in DOMAIN b : b[x] \in Ballots /\ b[x].version <= h.last + 1
    PROVE  CountVotes(h, b) \in Hardforks /\ CountVotes(h, b).last = h.last /\ InStore(CountVotes(h, b), b)
<1> DEFINE k == Len(HardforkTime)
<1>1. k \in Nat /\ h.last \in 0..k
  BY Parameters DEF Parameters, Hardforks
<1>2. CASE Agreed(b) = {}
  <2>1. CountVotes(h, b) = [h EXCEPT !.next = h.last]
    BY <1>2 DEF CountVotes
  <2> QED BY <1>1, <2>1 DEF Hardforks, InStore
<1>3. CASE Agreed(b) # {}
  <2> DEFINE v == CHOOSE v \in Agreed(b) : TRUE
  <2>1. v \in Agreed(b)
    BY <1>3
  <2>2. CountVotes(h, b) = [h EXCEPT !.next = v.version, !.time = v.time]
    BY <1>3 DEF CountVotes
  <2> HIDE DEF v
  <2>3. v \in Ballots /\ v.version <= h.last + 1
    BY <2>1 DEF Agreed
  <2>4. v.version \in 0..k /\ v = Vote(v.version) /\ v.time \in Nat
    BY <2>3, BallotIs
  <2>5. /\ CountVotes(h, b) \in Hardforks /\ CountVotes(h, b).last = h.last
        /\ CountVotes(h, b).next = v.version
    BY <2>2, <2>4 DEF Hardforks
  <2>6. h.last < v.version => v.version = h.last + 1
    BY <1>1, <2>3, <2>4
  <2> QED BY <2>1, <2>4, <2>5, <2>6 DEF InStore
<1> QED
  BY <1>2, <1>3

\* Hardforks are applied in order, and only what was agreed on.
LEMMA AppliedGood ==
    ASSUME NEW h \in Hardforks, NEW b, InStore(h, b)
    PROVE  /\ process_hardforks(h) \in Hardforks /\ InStore(process_hardforks(h), b)
           /\ process_hardforks(h).last >= h.last
           /\ process_hardforks(h).last # h.last =>
                /\ process_hardforks(h).last = h.last + 1
                /\ Vote(process_hardforks(h).last) \in Agreed(b)
<1> DEFINE k == Len(HardforkTime)
<1>1. k \in Nat /\ h.last \in 0..k /\ h.next \in 0..k
  BY Parameters DEF Parameters, Hardforks
<1>2. CASE h.last < h.next /\ h.time <= h.clock
  <2>1. process_hardforks(h) = [h EXCEPT !.last = h.last + 1]
    BY <1>2 DEF process_hardforks, apply_hardfork
  <2>2. h.next = h.last + 1 /\ Vote(h.next) \in Agreed(b)
    BY <1>2 DEF InStore
  <2>3. process_hardforks(h) \in Hardforks /\ process_hardforks(h).last = h.next
        /\ process_hardforks(h).next = h.next
    BY <1>1, <2>1, <2>2 DEF Hardforks
  <2> QED BY <1>1, <2>2, <2>3 DEF InStore
<1>3. CASE ~(h.last < h.next /\ h.time <= h.clock)
  <2>1. process_hardforks(h) = h
    BY <1>3 DEF process_hardforks
  <2> QED BY <1>1, <2>1
<1> QED
  BY <1>2, <1>3

----------------------------------------------------------------------------
(* The inductive invariant.                                                *)

ScheduleInv ==
    /\ wit \in [Witness -> WitnessObject] /\ penalties \in Seq(Penalty)
    /\ GoodList(wso.list) /\ wso.now \in 0..LAP /\ wso.percent \in Nat
    /\ dgp \in Slots /\ hf \in Hardforks /\ binary \in [Witness -> 0..Len(HardforkTime)]
    /\ changes \in 0..MaxChanges
    /\ VotesMatch(wit, penalties)
    /\ \A x \in Witness : wit[x].time >= wso.now
    /\ VotesNear(wit, hf.last)
    /\ InStore(hf, ballot)


\* It holds at the start.
LEMMA InitInv == Init => ScheduleInv
<1> SUFFICES ASSUME Init PROVE ScheduleInv
  OBVIOUS
<1>1. /\ MaxVotes \in Nat /\ LAP \in Nat /\ CHAIN_100_PERCENT \in Nat \ {0} /\ MaxChanges \in Nat
      /\ CHAIN_MAX_WITNESS_MISSED_BLOCKS \in Nat /\ CHAIN_MAX_WITNESSES \in Nat \ {0}
      /\ SlotCycle \in Nat \ {0} /\ WINDOW \in Nat /\ Len(HardforkTime) \in Nat
  BY Parameters DEF Parameters
<1>2. penalties = <<>> /\ penalties \in Seq(Penalty)
  BY DEF Init
<1>3. ASSUME NEW x \in Witness
      PROVE  /\ wit[x] \in WitnessObject /\ wit[x].penalty = PercentOf(x, penalties)
             /\ wit[x].counted = Counted(wit[x].votes, wit[x].penalty)
             /\ wit[x].time >= 0 /\ wit[x].vote = Vote(0)
  <2> DEFINE v == FirstVotes[x]
             t == LAP \div (v + 1)
  <2>1. wit[x] = NewWitness(v)
    BY DEF Init
  <2>2. v \in 0..MaxVotes
    BY Parameters DEF Parameters
  <2> HIDE DEF v
  <2>3. t \in 0..LAP
    BY <1>1, <2>2, LapRange
  <2> HIDE DEF t
  <2>4. wit[x] = [votes |-> v, counted |-> v, penalty |-> 0, key |-> TRUE, silence |-> 0,
                  position |-> 0, updated |-> 0, time |-> t, running |-> 0, vote |-> Vote(0)]
    BY <2>1 DEF NewWitness, t
  <2>5. Vote(0) \in Ballots
    BY <1>1 DEF Ballots
  <2>6. wit[x] \in WitnessObject
    BY <1>1, <2>2, <2>3, <2>4, <2>5 DEF WitnessObject
  <2>7. Counted(v, 0) = v
    <3>1. v * 0 = 0 /\ 0 \div CHAIN_100_PERCENT = 0 /\ 0 < CHAIN_100_PERCENT /\ v - 0 = v
      BY <1>1, <2>2
    <3> QED BY <3>1 DEF Counted
  <2> QED BY <1>1, <1>2, <2>3, <2>4, <2>6, <2>7, PercentSteps
<1>4. wit \in [Witness -> WitnessObject]
  <2>1. wit = [x \in Witness |-> wit[x]]
    BY DEF Init
  <2> QED BY <1>3, <2>1
<1>5. GoodList(FirstList)
  BY Parameters DEF Parameters, GoodList, Distinct
<1>6. GoodList(wso.list) /\ wso.now = 0 /\ wso.percent \in Nat
  BY <1>5, MedianIs DEF Init
<1>7. dgp \in Slots
  BY <1>1 DEF Init, Slots
<1>8. hf \in Hardforks /\ hf.last = 0 /\ InStore(hf, ballot)
  BY <1>1 DEF Init, Hardforks, InStore
<1>9. VotesNear(wit, hf.last)
  BY <1>3, <1>8 DEF VotesNear, Vote
<1>10. binary \in [Witness -> 0..Len(HardforkTime)] /\ changes \in 0..MaxChanges
  BY <1>1 DEF Init
<1> QED
  BY <1>1, <1>2, <1>3, <1>4, <1>6, <1>7, <1>8, <1>9, <1>10 DEF ScheduleInv, VotesMatch

\* The clock that decides about hardforks.
LEMMA ClockIs ==
    ASSUME hf \in Hardforks, NEW gap \in Nat
    PROVE  /\ [hf EXCEPT !.clock = Clock(gap)] \in Hardforks
           /\ [hf EXCEPT !.clock = Clock(gap)].last = hf.last
           /\ [hf EXCEPT !.clock = Clock(gap)].next = hf.next
<1>1. HardforkTime \in Seq(Nat)
  BY Parameters DEF Parameters
<1>2. LastTime \in Nat
  <2>1. CASE HardforkTime = <<>>
    BY <2>1 DEF LastTime
  <2>2. CASE HardforkTime # <<>>
    <3>1. Len(HardforkTime) \in 1..Len(HardforkTime)
      BY <1>1, <2>2
    <3>2. HardforkTime[Len(HardforkTime)] \in Nat
      BY <1>1, <3>1, ElementOfSeq
    <3> QED BY <2>2, <3>2 DEF LastTime
  <2> QED BY <2>1, <2>2
<1>3. hf.clock \in Nat
  BY DEF Hardforks
<1>4. Clock(gap) \in Nat
  BY <1>2, <1>3 DEF Clock
<1> QED
  BY <1>4 DEF Hardforks

\* What a step must leave as it was, or make anew.
HardforkStep == hf'.last # hf.last => hf'.last = hf.last + 1 /\ Vote(hf'.last) \in Agreed(ballot')

\* The rest of a block when no round ends.
LEMMA SameRoundGood ==
    ASSUME ScheduleInv, NEW w \in [Witness -> WitnessObject], NEW ps \in Seq(Penalty),
           VotesMatch(w, ps), \A x \in Witness : w[x].time >= wso.now, VotesNear(w, hf.last),
           NEW gap \in Nat, SameRound(w, ps, gap), dgp' \in Slots, binary' = binary,
           changes' \in 0..MaxChanges
    PROVE  ScheduleInv' /\ HardforkStep
<1> DEFINE h == [hf EXCEPT !.clock = Clock(gap)]
<1>1. hf \in Hardforks /\ InStore(hf, ballot)
  BY DEF ScheduleInv
<1>2. h \in Hardforks /\ h.last = hf.last /\ h.next = hf.next
  BY <1>1, ClockIs
<1>3. hf' = process_hardforks(h) /\ wit' = w /\ penalties' = ps /\ wso' = wso /\ ballot' = ballot
  BY DEF SameRound
<1> HIDE DEF h
<1>4. InStore(h, ballot)
  BY <1>1, <1>2 DEF InStore
<1>5. /\ hf' \in Hardforks /\ InStore(hf', ballot) /\ hf'.last >= hf.last
      /\ hf'.last # hf.last => hf'.last = hf.last + 1 /\ Vote(hf'.last) \in Agreed(ballot)
  BY <1>2, <1>3, <1>4, AppliedGood
<1>6. VotesNear(w, hf'.last)
  <2>1. hf.last \in Nat /\ hf'.last \in Nat
    BY <1>1, <1>5, Parameters DEF Hardforks, Parameters
  <2>2. ASSUME NEW x \in Witness PROVE w[x].vote.version \in Nat
    <3>1. w[x].vote \in Ballots
      BY DEF WitnessObject
    <3> QED BY <3>1, BallotIs
  <2> QED BY <1>5, <2>1, <2>2 DEF VotesNear
<1>7. HardforkStep
  BY <1>3, <1>5 DEF HardforkStep
<1>8. GoodList(wso.list) /\ wso.now \in 0..LAP /\ wso.percent \in Nat
      /\ binary \in [Witness -> 0..Len(HardforkTime)]
  BY DEF ScheduleInv
<1>9. ScheduleInv'
  <2>1. /\ wit' \in [Witness -> WitnessObject] /\ penalties' \in Seq(Penalty)
        /\ binary' \in [Witness -> 0..Len(HardforkTime)]
        /\ \A x \in Witness : wit'[x].time >= wso'.now
    BY <1>3, <1>8
  <2>2. GoodList(wso'.list) /\ wso'.now \in 0..LAP /\ wso'.percent \in Nat
    BY <1>3, <1>8
  <2>3. VotesMatch(wit', penalties') /\ VotesNear(wit', hf'.last) /\ InStore(hf', ballot')
    BY <1>3, <1>5, <1>6
  <2> QED BY <1>5, <2>1, <2>2, <2>3 DEF ScheduleInv, VotesMatch, VotesNear, InStore, GoodList, Distinct
<1> QED
  BY <1>7, <1>9

\* The rest of a block when a round ends.
LEMMA NextRoundGood ==
    ASSUME ScheduleInv, NEW w \in [Witness -> WitnessObject], NEW ps \in Seq(Penalty),
           VotesMatch(w, ps), \A x \in Witness : w[x].time >= wso.now, VotesNear(w, hf.last),
           NEW gap \in Nat, NextRound(w, ps, gap), dgp' \in Slots, binary' = binary,
           changes' \in 0..MaxChanges
    PROVE  ScheduleInv' /\ HardforkStep
<1> DEFINE h == [hf EXCEPT !.clock = Clock(gap)]
           u == TakeBack(w, Chosen(ps, Over(ps)))
           rest == Chosen(ps, Range(ps) \ Over(ps))
<1>1. hf \in Hardforks /\ wso.now \in 0..LAP /\ GoodList(wso.list)
      /\ binary \in [Witness -> 0..Len(HardforkTime)]
  BY DEF ScheduleInv
<1>2. h \in Hardforks /\ h.last = hf.last
  BY <1>1, ClockIs
<1>3. /\ update_witness_schedule(u) /\ penalties' = rest
      /\ ballot' = [x \in Range(wso.list) |-> w[x].vote]
      /\ hf' = process_hardforks(CountVotes(h, ballot'))
  BY DEF NextRound
<1>4. u \in [Witness -> WitnessObject] /\ rest \in Seq(Penalty) /\ VotesMatch(u, rest) /\ SameTurns(w, u)
  BY TakeBackGood
<1> HIDE DEF h, u, rest
<1>5. \A x \in Witness : u[x].time >= wso.now
  BY <1>4 DEF SameTurns
<1>6. /\ GoodList(wso'.list) /\ wso'.now \in 0..LAP /\ wso'.percent \in Nat
      /\ wit' \in [Witness -> WitnessObject]
      /\ \A x \in Witness : wit'[x].time >= wso'.now /\ SameVotes(wit'[x], u[x])
  BY <1>1, <1>3, <1>4, <1>5, ScheduleUpdated
<1>7. VotesMatch(wit', penalties')
  BY <1>3, <1>4, <1>6 DEF VotesMatch, SameVotes
<1>8. \A x \in DOMAIN ballot' : ballot'[x] \in Ballots /\ ballot'[x].version <= h.last + 1
  <2>1. Range(wso.list) \in SUBSET Witness
    BY <1>1, DistinctRange DEF GoodList
  <2>2. \A x \in Witness : w[x].vote \in Ballots /\ w[x].vote.version <= hf.last + 1
    BY DEF WitnessObject, VotesNear
  <2> QED BY <1>2, <1>3, <2>1, <2>2
<1> DEFINE b == ballot'
           g == CountVotes(h, b)
<1> HIDE DEF b, g
<1>9. g \in Hardforks /\ g.last = hf.last /\ InStore(g, b)
  BY <1>2, <1>8, CountGood DEF b, g
<1>10. /\ hf' \in Hardforks /\ InStore(hf', b) /\ hf'.last >= hf.last
       /\ hf'.last # hf.last => hf'.last = hf.last + 1 /\ Vote(hf'.last) \in Agreed(b)
  <2>1. hf' = process_hardforks(g)
    BY <1>3 DEF b, g
  <2> QED BY <1>9, <2>1, AppliedGood
<1>11. VotesNear(wit', hf'.last)
  <2>1. hf.last \in Nat /\ hf'.last \in Nat
    BY <1>1, <1>10, Parameters DEF Hardforks, Parameters
  <2>2. ASSUME NEW x \in Witness
        PROVE  wit'[x].vote = w[x].vote /\ w[x].vote.version \in Nat /\ w[x].vote.version <= hf.last + 1
    <3>1. w[x].vote \in Ballots
      BY DEF WitnessObject
    <3>2. w[x].vote.version \in Nat
      <4>1. w[x].vote.version \in 0..Len(HardforkTime)
        BY <3>1, BallotIs
      <4> QED BY <4>1
    <3>3. wit'[x].vote = w[x].vote
      BY <1>4, <1>6 DEF SameTurns, SameVotes
    <3> QED BY <3>2, <3>3 DEF VotesNear
  <2> QED BY <1>10, <2>1, <2>2 DEF VotesNear
<1>12. HardforkStep
  BY <1>10 DEF HardforkStep, b
<1>13. ScheduleInv'
  <2>1. /\ penalties' \in Seq(Penalty) /\ binary' \in [Witness -> 0..Len(HardforkTime)]
        /\ InStore(hf', ballot')
    BY <1>1, <1>3, <1>4, <1>10 DEF b
  <2>2. \A x \in Witness : wit'[x].time >= wso'.now
    BY <1>6
  <2> QED BY <1>6, <1>7, <1>10, <1>11, <2>1, <2>2
        DEF ScheduleInv, VotesMatch, VotesNear, InStore, GoodList, Distinct
<1> QED
  BY <1>12, <1>13

\* A block as a whole.
LEMMA BlockGood ==
    ASSUME ScheduleInv, NEW w \in [Witness -> WitnessObject], VotesMatch(w, penalties),
           \A x \in Witness : w[x].time >= wso.now, VotesNear(w, hf.last),
           NEW p \in Witness, NEW gap \in Nat, ApplyBlock(w, p, gap), changes' \in 0..MaxChanges
    PROVE  ScheduleInv' /\ HardforkStep
<1> DEFINE u == Missed(w, p, gap)
           v == Signed(u, p)
           ps == PenaltiesAfter(p, gap)
<1>1. dgp \in Slots /\ GoodList(wso.list) /\ wso.percent \in Nat /\ penalties \in Seq(Penalty)
  BY DEF ScheduleInv
<1>2. u \in [Witness -> WitnessObject] /\ ps \in Seq(Penalty) /\ VotesMatch(u, ps) /\ SameTurns(w, u)
  BY <1>1, MissedGood
<1>3. /\ dgp' = SlotsAfter(gap) /\ binary' = binary
      /\ IF dgp'.round = 0 THEN NextRound(v, ps, gap) ELSE SameRound(v, ps, gap)
  BY DEF ApplyBlock
<1> HIDE DEF u, ps
<1>4. v \in [Witness -> WitnessObject] /\ VotesMatch(v, ps) /\ SameTurns(u, v)
  BY <1>2, SignedGood
<1> HIDE DEF v
<1>5. dgp' \in Slots
  BY <1>1, <1>3, SlotsGood
<1>6. (\A x \in Witness : v[x].time >= wso.now) /\ VotesNear(v, hf.last)
  BY <1>2, <1>4 DEF SameTurns, VotesNear
<1>7. CASE dgp'.round = 0
  BY <1>2, <1>3, <1>4, <1>5, <1>6, <1>7, NextRoundGood
<1>8. CASE dgp'.round # 0
  BY <1>2, <1>3, <1>4, <1>5, <1>6, <1>8, SameRoundGood
<1> QED
  BY <1>7, <1>8

\* A step keeps the invariant, and applies a hardfork only as agreed.
LEMMA StepInv == ScheduleInv /\ [Next]_vars => ScheduleInv' /\ (HardforkStep \/ UNCHANGED vars)
<1> SUFFICES ASSUME ScheduleInv, [Next]_vars
             PROVE  ScheduleInv' /\ (HardforkStep \/ UNCHANGED vars)
  OBVIOUS
<1>0. MaxGap \in Nat /\ MaxChanges \in Nat /\ MaxVotes \in Nat /\ 0 \in Nat
  BY Parameters DEF Parameters
<1>1. /\ wit \in [Witness -> WitnessObject] /\ penalties \in Seq(Penalty) /\ wso.now \in 0..LAP
      /\ dgp \in Slots /\ hf \in Hardforks /\ binary \in [Witness -> 0..Len(HardforkTime)]
      /\ GoodList(wso.list) /\ changes \in 0..MaxChanges /\ VotesMatch(wit, penalties)
      /\ \A x \in Witness : wit[x].time >= wso.now
      /\ VotesNear(wit, hf.last)
  BY DEF ScheduleInv
<1>2. ASSUME NEW p \in Witness
      PROVE  /\ Extensions(p) \in [Witness -> WitnessObject]
             /\ VotesMatch(Extensions(p), penalties) /\ VotesNear(Extensions(p), hf.last)
             /\ \A x \in Witness : /\ Extensions(p)[x].time >= wso.now
                                   /\ Extensions(p)[x].votes = wit[x].votes
  <2>1. /\ Extensions(p) \in [Witness -> WitnessObject]
        /\ VotesMatch(Extensions(p), penalties) /\ VotesNear(Extensions(p), hf.last)
        /\ \A x \in Witness : /\ Extensions(p)[x].time = wit[x].time
                              /\ Extensions(p)[x].votes = wit[x].votes
    BY <1>1, ExtensionsGood
  <2> QED BY <1>1, <2>1
<1>3. ASSUME NEW p \in Witness, NEW gap \in 0..MaxGap, Block(p, gap)
      PROVE  ScheduleInv' /\ HardforkStep
  <2>1. gap \in Nat
    BY <1>0
  <2>2. changes' \in 0..MaxChanges
    <3> DEFINE S == {i \in 1..gap : CanProduce(get_scheduled_witness(i))}
    <3>1. IsFiniteSet(1..gap) /\ S \in SUBSET (1..gap)
      BY <2>1, FS_Interval
    <3>2. IsFiniteSet(S)
      BY <3>1, FS_Subset
    <3>3. Cardinality(S) \in Nat
      BY <3>2, FS_CardinalityType
    <3>4. Idle(gap) \in Nat
      BY <3>3 DEF Idle
    <3> QED BY <1>0, <1>1, <1>3, <3>4 DEF Block
  <2>3. ApplyBlock(Extensions(p), p, gap)
    BY <1>3 DEF Block
  <2> QED BY <1>2, <2>1, <2>2, <2>3, BlockGood
<1>4. ASSUME NEW p \in Witness, NEW x \in Witness, NEW delta \in {-1, 1}, BlockWithVote(p, x, delta)
      PROVE  ScheduleInv' /\ HardforkStep
  <2> DEFINE e == Extensions(p)
             a == adjust_witness_vote(e[x], delta)
             w == [e EXCEPT ![x] = a]
  <2>1. changes' \in 0..MaxChanges
    BY <1>0, <1>1, <1>4 DEF BlockWithVote
  <2>2. ApplyBlock(w, p, 0) /\ wit[x].votes + delta \in 0..MaxVotes /\ delta \in Int
    BY <1>4 DEF BlockWithVote
  <2>3. /\ e \in [Witness -> WitnessObject] /\ VotesMatch(e, penalties) /\ VotesNear(e, hf.last)
        /\ e[x] \in WitnessObject /\ e[x].votes + delta \in 0..MaxVotes
        /\ \A y \in Witness : e[y].time >= wso.now
    BY <1>2, <2>2
  <2> HIDE DEF e
  <2>4. /\ a \in WitnessObject /\ a.penalty = e[x].penalty /\ a.counted = Counted(a.votes, e[x].penalty)
        /\ a.vote = e[x].vote /\ a.time >= wso.now
    BY <1>1, <2>2, <2>3, VoteGood
  <2> HIDE DEF a
  <2>5. w \in [Witness -> WitnessObject]
    BY <2>3, <2>4
  <2>6. \A y \in Witness : w[y] = IF y = x THEN a ELSE e[y]
    BY <2>3
  <2> HIDE DEF w
  <2>7. VotesMatch(w, penalties)
    BY <2>3, <2>4, <2>6 DEF VotesMatch
  <2>8. VotesNear(w, hf.last) /\ \A y \in Witness : w[y].time >= wso.now
    BY <2>3, <2>4, <2>6 DEF VotesNear
  <2> QED BY <1>0, <2>1, <2>2, <2>5, <2>7, <2>8, BlockGood
<1>5. ASSUME NEW p \in Witness, NEW x \in Witness, BlockWithKey(p, x)
      PROVE  ScheduleInv' /\ HardforkStep
  <2> DEFINE e == Extensions(p)
             a == [e[x] EXCEPT !.key = ~e[x].key]
             w == [e EXCEPT ![x] = a]
  <2>1. changes' \in 0..MaxChanges
    BY <1>0, <1>1, <1>5 DEF BlockWithKey
  <2>2. ApplyBlock(w, p, 0)
    BY <1>5 DEF BlockWithKey
  <2>3. /\ e \in [Witness -> WitnessObject] /\ VotesMatch(e, penalties) /\ VotesNear(e, hf.last)
        /\ e[x] \in WitnessObject
        /\ \A y \in Witness : e[y].time >= wso.now
    BY <1>2
  <2> HIDE DEF e
  <2>4. /\ a \in WitnessObject /\ a.penalty = e[x].penalty /\ a.counted = e[x].counted
        /\ a.votes = e[x].votes /\ a.vote = e[x].vote /\ a.time = e[x].time
    BY <2>3 DEF WitnessObject
  <2> HIDE DEF a
  <2>5. w \in [Witness -> WitnessObject]
    BY <2>3, <2>4
  <2>6. \A y \in Witness : w[y] = IF y = x THEN a ELSE e[y]
    BY <2>3
  <2> HIDE DEF w
  <2>7. VotesMatch(w, penalties)
    BY <2>3, <2>4, <2>6 DEF VotesMatch
  <2>8. VotesNear(w, hf.last) /\ \A y \in Witness : w[y].time >= wso.now
    BY <2>3, <2>4, <2>6 DEF VotesNear
  <2> QED BY <1>0, <2>1, <2>2, <2>5, <2>7, <2>8, BlockGood
<1>6. ASSUME NEW x \in Witness, NEW n \in 0..Len(HardforkTime), Install(x, n)
      PROVE  ScheduleInv' /\ HardforkStep
  <2>1. binary' \in [Witness -> 0..Len(HardforkTime)] /\ changes' \in 0..MaxChanges
    BY <1>0, <1>1, <1>6 DEF Install
  <2>2. wit' = wit /\ penalties' = penalties /\ wso' = wso /\ dgp' = dgp /\ hf' = hf /\ ballot' = ballot
    BY <1>6 DEF Install
  <2> QED BY <2>1, <2>2 DEF ScheduleInv, HardforkStep, VotesMatch, VotesNear, InStore, GoodList, Distinct
<1>7. CASE UNCHANGED vars
  BY <1>7 DEF vars, ScheduleInv, VotesMatch, VotesNear, InStore, GoodList, Distinct
<1>8. CASE Next
  BY <1>3, <1>4, <1>5, <1>6, <1>8 DEF Next
<1> QED
  BY <1>7, <1>8

----------------------------------------------------------------------------
(* The theorems.                                                           *)

(***************************************************************************)
(* The inductive invariant holds in every reachable state.                 *)
(***************************************************************************)
LEMMA Scheduled == Spec => []ScheduleInv
<1>1. ScheduleInv /\ [Next]_vars => ScheduleInv'
  BY StepInv
<1> QED
  BY <1>1, InitInv, PTL DEF Spec

(***************************************************************************)
(* Votes, virtual times, slots and hardforks stay in their ranges.         *)
(***************************************************************************)
THEOREM ScheduleTypeCorrect == Spec => []TypeOK
<1>1. ScheduleInv => TypeOK
  <2> SUFFICES ASSUME ScheduleInv PROVE TypeOK
    OBVIOUS
  <2>1. \A x \in Witness : wit[x] \in WitnessObject
    BY DEF ScheduleInv
  <2>2. Range(wso.list) \in SUBSET Witness
    BY DistinctRange DEF ScheduleInv, GoodList
  <2>3. /\ dgp.round \in 0..(CHAIN_MAX_WITNESSES - 1) /\ dgp.aslot \in 0..(SlotCycle - 1)
        /\ dgp.filled \in [1..WINDOW -> 0..1]
    BY DEF ScheduleInv, Slots
  <2>4. hf.last \in 0..Len(HardforkTime) /\ hf.next \in 0..Len(HardforkTime)
    BY DEF ScheduleInv, Hardforks
  <2>5. ASSUME NEW x \in Witness
        PROVE  /\ wit[x].votes \in 0..MaxVotes /\ wit[x].counted \in 0..MaxVotes
               /\ wit[x].penalty \in Nat /\ wit[x].key \in BOOLEAN
               /\ wit[x].position \in 0..LAP /\ wit[x].updated \in 0..LAP /\ wit[x].time \in 0..LAP
               /\ wit[x].silence \in 0..(CHAIN_MAX_WITNESS_MISSED_BLOCKS + 1)
    BY <2>1 DEF WitnessObject
  <2>6. wso.now \in 0..LAP /\ changes \in 0..MaxChanges
    BY DEF ScheduleInv
  <2> QED BY <2>2, <2>3, <2>4, <2>5, <2>6 DEF TypeOK
<1> QED
  BY <1>1, Scheduled, PTL

(***************************************************************************)
(* A witness's penalty is the sum of the penalties that have not expired,  *)
(* and its counted votes follow it, whatever is missed, expires or is      *)
(* voted in which order (update_global_dynamic_data, adjust_witness_vote,  *)
(* update_witness_schedule).                                               *)
(***************************************************************************)
THEOREM PenaltiesArePending == Spec => []PenaltyIsPending
<1>1. ScheduleInv => PenaltyIsPending
  BY DEF ScheduleInv, VotesMatch, PenaltyIsPending
<1> QED
  BY <1>1, Scheduled, PTL

(***************************************************************************)
(* Nobody's scheduled time is before the virtual time, although both are   *)
(* numbers that wrap around (adjust_witness_vote, the laps of              *)
(* update_witness_schedule, reset_virtual_schedule_time).                  *)
(***************************************************************************)
THEOREM NobodyComesLate == Spec => []NobodyIsLate
<1>1. ScheduleInv => NobodyIsLate
  BY DEF ScheduleInv, NobodyIsLate
<1> QED
  BY <1>1, Scheduled, PTL

(***************************************************************************)
(* The schedule of a round, put together from the witnesses with the most  *)
(* votes and those whose time has come, names nobody twice and fits into   *)
(* the places there are.                                                   *)
(***************************************************************************)
THEOREM EachHasOneTurn == Spec => []OneTurnEach
<1>1. ScheduleInv => OneTurnEach
  BY DistinctRange DEF ScheduleInv, GoodList, OneTurnEach
<1> QED
  BY <1>1, Scheduled, PTL

(***************************************************************************)
(* A hardfork is applied in its order and only if the required number of   *)
(* the witnesses scheduled at the last count voted for exactly this one.   *)
(***************************************************************************)
THEOREM HardforksAreAgreed == Spec => HardforkAgreed
<1>1. ScheduleInv /\ [Next]_vars =>
        [hf'.last # hf.last =>
            /\ hf'.last = hf.last + 1
            /\ Vote(hf'.last) \in Agreed(ballot')]_vars
  BY StepInv DEF HardforkStep
<1> QED
  BY <1>1, Scheduled, PTL DEF Spec, HardforkAgreed
=============================================================================
