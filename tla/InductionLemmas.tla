-------------------------- MODULE InductionLemmas --------------------------
(***************************************************************************)
(* Induction for the proofs of the other modules, over sets instead of     *)
(* predicates: the numbers, sets or sequences for which a fact holds are a *)
(* set, and if that has the first and, with each, the next, it has them    *)
(* all.  Sums over finite sets are the main use.                           *)
(***************************************************************************)
EXTENDS Integers, FiniteSets, FiniteSetsExt, Sequences, WellFoundedInduction,
        FiniteSetTheorems, SequenceTheorems, TLAPS

LessNat == OpToRel(<, Nat)

\* A nonempty set of naturals has a least element.
LEMMA LeastExists ==
    ASSUME NEW S \in SUBSET Nat, S # {}
    PROVE  \E m \in S : \A k \in S : m <= k
<1>1. PICK m \in S : \A k \in S : ~(<<k, m>> \in LessNat)
  BY NatLessThanWellFounded, WFMin, Zenon DEF LessNat
<1>2. LessNat = {s \in Nat \X Nat : s[1] < s[2]}
  BY Zenon DEF OpToRel, LessNat
<1>3. \A k \in S : ~(k < m)
  BY <1>1, <1>2
<1>4. m \in Nat /\ \A k \in S : k \in Nat /\ m <= k
  BY <1>3
<1> QED
  BY <1>4, Zenon

\* A nonempty set of naturals below a bound has a greatest element.
LEMMA GreatestExists ==
    ASSUME NEW S \in SUBSET Nat, S # {}, NEW top \in Nat, \A k \in S : k <= top
    PROVE  \E m \in S : \A k \in S : k <= m
<1> DEFINE T == {t \in Nat : \E k \in S : t = top - k}
<1>0. PICK k0 \in S : TRUE
  OBVIOUS
<1>1. T \in SUBSET Nat
  OBVIOUS
<1>2. top - k0 \in T
  BY <1>0
<1>3. PICK t \in T : \A u \in T : t <= u
  <2> HIDE DEF T
  <2> QED BY <1>1, <1>2, LeastExists
<1>4. PICK m \in S : t = top - m
  BY <1>3
<1>5. ASSUME NEW k \in S PROVE k <= m
  <2>1. top - k \in T
    OBVIOUS
  <2>2. top - m <= top - k
    BY <2>1, <1>3, <1>4
  <2> QED BY <2>2
<1> QED
  BY <1>5

\* Induction over the naturals.
LEMMA NatInduct ==
    ASSUME NEW T, 0 \in T, \A n \in Nat : n \in T => n + 1 \in T
    PROVE  \A n \in Nat : n \in T
<1> SUFFICES ASSUME Nat \ T # {} PROVE FALSE
  OBVIOUS
<1>1. PICK n \in Nat \ T : \A m \in Nat \ T : n <= m
  BY LeastExists
<1>2. n # 0
  OBVIOUS
<1>3. n - 1 \in Nat /\ n - 1 \in T
  BY <1>1, <1>2
<1> QED
  BY <1>3

\* Induction over the subsets of a finite set.
LEMMA FiniteInduct ==
    ASSUME NEW S, IsFiniteSet(S), NEW F, {} \in F,
           \A U \in SUBSET S : \A x \in S \ U : U \in F => U \cup {x} \in F
    PROVE  \A U \in SUBSET S : U \in F
<1> DEFINE T == {n \in Nat : \A U \in SUBSET S : Cardinality(U) = n => U \in F}
<1>0. \A U \in SUBSET S : IsFiniteSet(U) /\ Cardinality(U) \in Nat
  BY FS_Subset, FS_CardinalityType
<1>1. 0 \in T
  BY <1>0, FS_EmptySet
<1>2. ASSUME NEW n \in Nat, n \in T PROVE n + 1 \in T
  <2> SUFFICES ASSUME NEW U \in SUBSET S, Cardinality(U) = n + 1 PROVE U \in F
    OBVIOUS
  <2>0. U # {}
    BY FS_EmptySet
  <2>1. PICK x \in U : TRUE
    BY <2>0
  <2>2. Cardinality(U \ {x}) = n
    <3>1. Cardinality(U \ {x}) = Cardinality(U) - 1
      BY <1>0, <2>1, FS_RemoveElement, Zenon
    <3> QED BY <3>1
  <2>3. U \ {x} \in F
    BY <1>2, <2>2
  <2>4. U = (U \ {x}) \cup {x} /\ x \in S \ (U \ {x}) /\ U \ {x} \in SUBSET S
    BY <2>1
  <2> QED BY <2>3, <2>4
<1>3. \A n \in Nat : n \in T
  <2> HIDE DEF T
  <2> QED BY <1>1, <1>2, NatInduct
<1> QED
  BY <1>0, <1>3

\* Induction over sequences.
LEMMA SeqInduct ==
    ASSUME NEW A, NEW T, <<>> \in T, \A s \in Seq(A), e \in A : s \in T => Append(s, e) \in T
    PROVE  \A s \in Seq(A) : s \in T
<1> DEFINE N == {n \in Nat : \A s \in Seq(A) : Len(s) = n => s \in T}
<1>1. 0 \in N
  BY EmptySeq
<1>2. ASSUME NEW n \in Nat, n \in N PROVE n + 1 \in N
  <2> SUFFICES ASSUME NEW s \in Seq(A), Len(s) = n + 1 PROVE s \in T
    OBVIOUS
  <2> DEFINE r == SubSeq(s, 1, n)
  <2>1. r \in Seq(A) /\ Len(r) = n /\ s[n + 1] \in A /\ s = Append(r, s[n + 1])
    OBVIOUS
  <2> HIDE DEF r
  <2>2. r \in T
    BY <1>2, <2>1
  <2> QED BY <2>1, <2>2
<1>3. \A n \in Nat : n \in N
  BY <1>1, <1>2, NatInduct
<1> QED
  BY <1>3

(***************************************************************************)
(* Induction over the subsets of a finite set, from the smaller ones to    *)
(* the larger ones.                                                        *)
(***************************************************************************)
LEMMA SubsetInduct ==
    ASSUME NEW S, IsFiniteSet(S), NEW F, {} \in F,
           \A U \in SUBSET S : U # {} /\ (\A x \in U : U \ {x} \in F) => U \in F
    PROVE  \A U \in SUBSET S : U \in F
<1> DEFINE T == {n \in Nat : \A U \in SUBSET S : Cardinality(U) = n => U \in F}
<1>0. \A U \in SUBSET S : IsFiniteSet(U) /\ Cardinality(U) \in Nat
                          /\ (Cardinality(U) = 0 <=> U = {})
  BY FS_Subset, FS_CardinalityType, FS_EmptySet
<1>1. 0 \in T
  BY <1>0
<1>2. ASSUME NEW n \in Nat, n \in T PROVE n + 1 \in T
  <2> SUFFICES ASSUME NEW U \in SUBSET S, Cardinality(U) = n + 1 PROVE U \in F
    OBVIOUS
  <2>1. U # {}
    BY <1>0
  <2>2. ASSUME NEW x \in U PROVE U \ {x} \in F
    <3>1. Cardinality(U \ {x}) = Cardinality(U) - 1
      BY <1>0, <2>2, FS_RemoveElement, Zenon
    <3>2. Cardinality(U \ {x}) = n /\ U \ {x} \in SUBSET S
      BY <3>1
    <3> QED BY <1>2, <3>2
  <2> QED BY <2>1, <2>2
<1>3. \A n \in Nat : n \in T
  <2> HIDE DEF T
  <2> QED BY <1>1, <1>2, NatInduct
<1> QED
  BY <1>0, <1>3

----------------------------------------------------------------------------
(* Sums over finite sets.                                                  *)

SumOver(f, S) == MapThenSumSet(LAMBDA x : f[x], S)

\* The function by which the fold is defined.
SumRecursion(f, S, g) ==
    g = [s \in SUBSET S |->
            IF s = {} THEN 0
            ELSE f[CHOOSE x \in s : TRUE] + g[s \ {CHOOSE x \in s : TRUE}]]

\* The library's fold, as the function that defines it.
LEMMA SumOverDef == \A f, S : SumOver(f, S) = (CHOOSE g : SumRecursion(f, S, g))[S]
BY DEF SumOver, MapThenSumSet, MapThenFoldSet, SumRecursion

\* There is such a function for every finite set.
LEMMA SumRecursionExists ==
    ASSUME NEW S, IsFiniteSet(S), NEW f, \A x \in S : f[x] \in Int
    PROVE  \E g \in [SUBSET S -> Int] : SumRecursion(f, S, g)
<1> DEFINE Some(s) == CHOOSE x \in s : TRUE
           Step(s, g) == IF s = {} THEN 0 ELSE f[Some(s)] + g[s \ {Some(s)}]
           Small(n) == {s \in SUBSET S : Cardinality(s) <= n}
           T == {n \in Nat : \E g \in [SUBSET S -> Int] :
                                 \A s \in Small(n) : g[s] = Step(s, g)}
<1>0. \A s \in SUBSET S : IsFiniteSet(s) /\ Cardinality(s) \in Nat
                          /\ (Cardinality(s) = 0 <=> s = {})
                          /\ Cardinality(s) <= Cardinality(S)
  BY FS_Subset, FS_CardinalityType, FS_EmptySet
<1>1. \A s \in SUBSET S : s # {} =>
          /\ Some(s) \in s /\ s \ {Some(s)} \in SUBSET S
          /\ Cardinality(s \ {Some(s)}) = Cardinality(s) - 1
  <2> TAKE s \in SUBSET S
  <2> HAVE s # {}
  <2>1. Some(s) \in s
    OBVIOUS
  <2> HIDE DEF Some
  <2>2. Cardinality(s \ {Some(s)}) = Cardinality(s) - 1
    BY <1>0, <2>1, FS_RemoveElement, Zenon
  <2> QED BY <2>1, <2>2
<1> HIDE DEF Some
<1>2. 0 \in T
  <2> DEFINE g == [s \in SUBSET S |-> 0]
  <2>1. g \in [SUBSET S -> Int]
    OBVIOUS
  <2>2. \A s \in Small(0) : g[s] = Step(s, g)
    BY <1>0
  <2> QED BY <2>1, <2>2
<1>3. ASSUME NEW n \in Nat, n \in T PROVE n + 1 \in T
  <2>1. PICK g \in [SUBSET S -> Int] : \A s \in Small(n) : g[s] = Step(s, g)
    BY <1>3
  <2> DEFINE h == [s \in SUBSET S |-> Step(s, g)]
  <2>2. \A s \in SUBSET S : Step(s, g) \in Int
    BY <1>1
  <2>3. h \in [SUBSET S -> Int]
    BY <2>2
  <2>4. \A s \in Small(n) : h[s] = g[s]
    BY <2>1
  <2>5. ASSUME NEW s \in Small(n + 1) PROVE Step(s, h) = Step(s, g)
    <3>1. CASE s = {}
      BY <3>1
    <3>2. CASE s # {}
      <4>1. s \ {Some(s)} \in Small(n)
        BY <1>0, <1>1, <3>2
      <4>2. h[s \ {Some(s)}] = g[s \ {Some(s)}]
        BY <2>4, <4>1
      <4> QED BY <3>2, <4>2
    <3> QED BY <3>1, <3>2
  <2>6. \A s \in Small(n + 1) : h[s] = Step(s, h)
    BY <2>5
  <2> HIDE DEF h, Step, Small
  <2> QED BY <2>3, <2>6
<1>4. Cardinality(S) \in T
  <2> HIDE DEF T
  <2>1. \A n \in Nat : n \in T
    BY <1>2, <1>3, NatInduct
  <2> QED BY <1>0, <2>1
<1>5. PICK g \in [SUBSET S -> Int] :
          \A s \in Small(Cardinality(S)) : g[s] = Step(s, g)
  BY <1>4
<1>6. \A s \in SUBSET S : g[s] = Step(s, g)
  BY <1>0, <1>5
<1>7. g = [s \in SUBSET S |-> Step(s, g)]
  BY <1>6
<1>8. SumRecursion(f, S, g)
  BY <1>7 DEF SumRecursion, Some
<1> QED
  BY <1>8

\* Two such functions agree where both are defined.
LEMMA SumRecursionsAgree ==
    ASSUME NEW S, IsFiniteSet(S), NEW f, NEW R \in SUBSET S,
           NEW g, SumRecursion(f, S, g), NEW h, SumRecursion(f, R, h)
    PROVE  \A s \in SUBSET R : g[s] = h[s]
<1> DEFINE T == {n \in Nat : \A s \in SUBSET R : Cardinality(s) = n => g[s] = h[s]}
<1>0. \A s \in SUBSET R : IsFiniteSet(s) /\ Cardinality(s) \in Nat
                          /\ (Cardinality(s) = 0 <=> s = {})
  BY FS_Subset, FS_CardinalityType, FS_EmptySet
<1>1. 0 \in T
  BY <1>0 DEF SumRecursion
<1>2. ASSUME NEW n \in Nat, n \in T PROVE n + 1 \in T
  <2> SUFFICES ASSUME NEW s \in SUBSET R, Cardinality(s) = n + 1 PROVE g[s] = h[s]
    OBVIOUS
  <2>1. PICK x : x = CHOOSE y \in s : TRUE
    OBVIOUS
  <2>2. s # {} /\ x \in s
    BY <1>0, <2>1
  <2>3. Cardinality(s \ {x}) = Cardinality(s) - 1
    BY <1>0, <2>2, FS_RemoveElement, Zenon
  <2>4. g[s \ {x}] = h[s \ {x}]
    BY <1>2, <2>3
  <2>5. s \in SUBSET S /\ s \in SUBSET R
    OBVIOUS
  <2>6. g[s] = f[x] + g[s \ {x}]
    BY <2>1, <2>2, <2>5 DEF SumRecursion
  <2>7. h[s] = f[x] + h[s \ {x}]
    BY <2>1, <2>2, <2>5 DEF SumRecursion
  <2> QED BY <2>4, <2>6, <2>7
<1>3. \A n \in Nat : n \in T
  <2> HIDE DEF T
  <2> QED BY <1>1, <1>2, NatInduct
<1> QED
  BY <1>0, <1>3

\* The defining equation of a sum, and its type.
LEMMA SumOverUnfold ==
    ASSUME NEW S, IsFiniteSet(S), NEW f, \A x \in S : f[x] \in Int
    PROVE  /\ SumOver(f, S) \in Int
           /\ S = {} => SumOver(f, S) = 0
           /\ S # {} => \E x \in S : SumOver(f, S) = f[x] + SumOver(f, S \ {x})
<1>1. ASSUME NEW R \in SUBSET S
      PROVE  \E g \in [SUBSET R -> Int] : SumRecursion(f, R, g) /\ SumOver(f, R) = g[R]
  <2>1. IsFiniteSet(R)
    BY FS_Subset
  <2>2. PICK g0 \in [SUBSET R -> Int] : SumRecursion(f, R, g0)
    BY <2>1, SumRecursionExists
  <2>3. PICK g : g = CHOOSE h : SumRecursion(f, R, h)
    OBVIOUS
  <2>4. SumRecursion(f, R, g)
    BY <2>2, <2>3, Zenon
  <2>5. \A s \in SUBSET R : g[s] = g0[s]
    BY <2>1, <2>2, <2>4, SumRecursionsAgree
  <2>6. SumOver(f, R) = g[R]
    BY <2>3, SumOverDef
  <2> QED BY <2>2, <2>5, <2>6
<1>2. PICK g \in [SUBSET S -> Int] : SumRecursion(f, S, g) /\ SumOver(f, S) = g[S]
  BY <1>1
<1>3. S = {} => SumOver(f, S) = 0
  BY <1>2 DEF SumRecursion
<1>4. ASSUME S # {}
      PROVE  \E x \in S : SumOver(f, S) = f[x] + SumOver(f, S \ {x})
  <2>1. PICK x : x = CHOOSE y \in S : TRUE
    OBVIOUS
  <2>2. x \in S
    BY <1>4, <2>1
  <2>3. g[S] = f[x] + g[S \ {x}]
    BY <1>2, <1>4, <2>1 DEF SumRecursion
  <2>4. PICK h \in [SUBSET (S \ {x}) -> Int] :
            SumRecursion(f, S \ {x}, h) /\ SumOver(f, S \ {x}) = h[S \ {x}]
    BY <1>1
  <2>5. g[S \ {x}] = h[S \ {x}]
    BY <1>2, <2>4, SumRecursionsAgree
  <2> QED BY <1>2, <2>2, <2>3, <2>4, <2>5
<1> QED
  BY <1>2, <1>3, <1>4

\* Any element can be taken out of a sum first.
LEMMA SumOverRemove ==
    ASSUME NEW S, IsFiniteSet(S), NEW f, \A x \in S : f[x] \in Int
    PROVE  \A x \in S : SumOver(f, S) = f[x] + SumOver(f, S \ {x})
<1> DEFINE T == {n \in Nat : \A R \in SUBSET S : Cardinality(R) = n =>
                    \A x \in R : SumOver(f, R) = f[x] + SumOver(f, R \ {x})}
<1>0. \A R \in SUBSET S : IsFiniteSet(R) /\ Cardinality(R) \in Nat
                          /\ (Cardinality(R) = 0 <=> R = {})
                          /\ SumOver(f, R) \in Int
  <2> TAKE R \in SUBSET S
  <2>1. IsFiniteSet(R)
    BY FS_Subset
  <2> QED BY <2>1, FS_CardinalityType, FS_EmptySet, SumOverUnfold
<1>1. 0 \in T
  BY <1>0
<1>2. ASSUME NEW n \in Nat, n \in T PROVE n + 1 \in T
  <2> SUFFICES ASSUME NEW R \in SUBSET S, Cardinality(R) = n + 1, NEW x \in R
               PROVE  SumOver(f, R) = f[x] + SumOver(f, R \ {x})
    OBVIOUS
  <2>1. PICK y \in R : SumOver(f, R) = f[y] + SumOver(f, R \ {y})
    BY <1>0, SumOverUnfold
  <2>2. CASE x = y
    BY <2>1, <2>2
  <2>3. CASE x # y
    <3>1. Cardinality(R \ {y}) = Cardinality(R) - 1 /\ Cardinality(R \ {x}) = Cardinality(R) - 1
      BY <1>0, FS_RemoveElement, Zenon
    <3>2. SumOver(f, R \ {y}) = f[x] + SumOver(f, (R \ {y}) \ {x})
      BY <1>2, <2>3, <3>1
    <3>3. SumOver(f, R \ {x}) = f[y] + SumOver(f, (R \ {x}) \ {y})
      BY <1>2, <2>3, <3>1
    <3>4. (R \ {x}) \ {y} = (R \ {y}) \ {x} /\ (R \ {x}) \ {y} \in SUBSET S
      OBVIOUS
    <3>5. f[x] \in Int /\ f[y] \in Int /\ SumOver(f, (R \ {x}) \ {y}) \in Int
      BY <1>0, <3>4
    <3>6. PICK a \in Int, b \in Int, c \in Int :
              a = f[x] /\ b = f[y] /\ c = SumOver(f, (R \ {x}) \ {y})
      BY <3>5
    <3>7. SumOver(f, R) = b + (a + c) /\ SumOver(f, R \ {x}) = b + c
      BY <2>1, <3>2, <3>3, <3>4, <3>6, Zenon
    <3>8. b + (a + c) = a + (b + c)
      BY <3>6
    <3> QED BY <3>6, <3>7, <3>8, Zenon
  <2> QED BY <2>2, <2>3
<1>3. \A n \in Nat : n \in T
  <2> HIDE DEF T
  <2> QED BY <1>1, <1>2, NatInduct
<1> QED
  BY <1>0, <1>3

\* Adding an element.
LEMMA SumOverAdd ==
    ASSUME NEW S, IsFiniteSet(S), NEW x, x \notin S,
           NEW f, \A y \in S \cup {x} : f[y] \in Int
    PROVE  SumOver(f, S \cup {x}) = f[x] + SumOver(f, S)
<1>1. IsFiniteSet(S \cup {x}) /\ (S \cup {x}) \ {x} = S
  BY FS_AddElement
<1> QED
  BY <1>1, SumOverRemove

\* The type of a sum, and the empty sum.
LEMMA SumOverType ==
    ASSUME NEW S, IsFiniteSet(S), NEW f, \A x \in S : f[x] \in Int
    PROVE  /\ SumOver(f, S) \in Int
           /\ (\A x \in S : f[x] >= 0) => SumOver(f, S) >= 0
<1> DEFINE F == {U \in SUBSET S : SumOver(f, U) \in Int /\
                    ((\A x \in U : f[x] >= 0) => SumOver(f, U) >= 0)}
<1>1. {} \in F
  BY FS_EmptySet, SumOverUnfold
<1>2. ASSUME NEW U \in SUBSET S, NEW x \in S \ U, U \in F PROVE U \cup {x} \in F
  <2>1. SumOver(f, U \cup {x}) = f[x] + SumOver(f, U)
    BY SumOverAdd, FS_Subset
  <2> QED BY <1>2, <2>1
<1>3. S \in F
  <2> HIDE DEF F
  <2> QED BY <1>1, <1>2, FiniteInduct
<1> QED
  BY <1>3

\* Sums of functions that agree on the set are equal.
LEMMA SumOverSame ==
    ASSUME NEW S, IsFiniteSet(S), NEW f, NEW g, \A x \in S : f[x] \in Int /\ g[x] = f[x]
    PROVE  SumOver(g, S) = SumOver(f, S)
<1> DEFINE F == {U \in SUBSET S : SumOver(g, U) = SumOver(f, U)}
<1>1. {} \in F
  BY FS_EmptySet, SumOverUnfold
<1>2. ASSUME NEW U \in SUBSET S, NEW x \in S \ U, U \in F PROVE U \cup {x} \in F
  <2>0. IsFiniteSet(U)
    BY FS_Subset
  <2>1. SumOver(f, U \cup {x}) = f[x] + SumOver(f, U)
    BY <2>0, SumOverAdd
  <2>2. SumOver(g, U \cup {x}) = g[x] + SumOver(g, U)
    BY <2>0, SumOverAdd
  <2> QED BY <1>2, <2>1, <2>2
<1>3. S \in F
  <2> HIDE DEF F
  <2> QED BY <1>1, <1>2, FiniteInduct
<1> QED
  BY <1>3

\* The sum of a sum of two functions.
LEMMA SumOverPlus ==
    ASSUME NEW S, IsFiniteSet(S), NEW f, NEW g, NEW h,
           \A x \in S : f[x] \in Int /\ g[x] \in Int /\ h[x] = f[x] + g[x]
    PROVE  SumOver(h, S) = SumOver(f, S) + SumOver(g, S)
<1> DEFINE F == {U \in SUBSET S : SumOver(h, U) = SumOver(f, U) + SumOver(g, U)}
<1>0. \A U \in SUBSET S : IsFiniteSet(U)
  BY FS_Subset
<1>1. {} \in F
  BY FS_EmptySet, SumOverUnfold
<1>2. ASSUME NEW U \in SUBSET S, NEW x \in S \ U, U \in F PROVE U \cup {x} \in F
  <2>0. \A y \in S : h[y] \in Int
    OBVIOUS
  <2>1. SumOver(f, U \cup {x}) = f[x] + SumOver(f, U) /\ SumOver(f, U) \in Int
    BY <1>0, SumOverAdd, SumOverType
  <2>2. SumOver(g, U \cup {x}) = g[x] + SumOver(g, U) /\ SumOver(g, U) \in Int
    BY <1>0, SumOverAdd, SumOverType
  <2>3. SumOver(h, U \cup {x}) = h[x] + SumOver(h, U)
    BY <1>0, <2>0, SumOverAdd
  <2> QED BY <1>2, <2>1, <2>2, <2>3
<1>3. S \in F
  <2> HIDE DEF F
  <2> QED BY <1>1, <1>2, FiniteInduct
<1> QED
  BY <1>3

\* The sum over two disjoint sets.
LEMMA SumOverUnion ==
    ASSUME NEW S, NEW R, IsFiniteSet(S), IsFiniteSet(R), S \cap R = {},
           NEW f, \A x \in S \cup R : f[x] \in Int
    PROVE  SumOver(f, S \cup R) = SumOver(f, S) + SumOver(f, R)
<1> DEFINE F == {U \in SUBSET R : SumOver(f, S \cup U) = SumOver(f, S) + SumOver(f, U)}
<1>0. \A U \in SUBSET R : IsFiniteSet(U) /\ IsFiniteSet(S \cup U) /\ SumOver(f, U) \in Int
  <2> TAKE U \in SUBSET R
  <2>1. IsFiniteSet(U)
    BY FS_Subset
  <2> QED BY <2>1, FS_Union, SumOverType
<1>1. {} \in F
  <2>1. SumOver(f, {}) = 0 /\ S \cup {} = S /\ SumOver(f, S) \in Int
    BY FS_EmptySet, SumOverUnfold
  <2> QED BY <2>1
<1>2. ASSUME NEW U \in SUBSET R, NEW x \in R \ U, U \in F PROVE U \cup {x} \in F
  <2>1. SumOver(f, U \cup {x}) = f[x] + SumOver(f, U)
    BY <1>0, SumOverAdd
  <2>2. SumOver(f, (S \cup U) \cup {x}) = f[x] + SumOver(f, S \cup U)
    BY <1>0, SumOverAdd
  <2>3. (S \cup U) \cup {x} = S \cup (U \cup {x})
    OBVIOUS
  <2>4. SumOver(f, S) \in Int /\ SumOver(f, U) \in Int /\ f[x] \in Int
    BY <1>0, SumOverType
  <2>5. SumOver(f, S \cup U) = SumOver(f, S) + SumOver(f, U)
    BY <1>2
  <2>6. SumOver(f, S \cup (U \cup {x})) = f[x] + (SumOver(f, S) + SumOver(f, U))
    BY <2>2, <2>3, <2>5, Zenon
  <2>7. SumOver(f, S \cup (U \cup {x})) = SumOver(f, S) + SumOver(f, U \cup {x})
    BY <2>1, <2>4, <2>6
  <2> QED BY <2>7
<1>3. R \in F
  <2> HIDE DEF F
  <2> QED BY <1>1, <1>2, FiniteInduct
<1> QED
  BY <1>3

\* A sum in which every term is zero.
LEMMA SumOverZero ==
    ASSUME NEW S, IsFiniteSet(S), NEW f, \A x \in S : f[x] = 0
    PROVE  SumOver(f, S) = 0
<1> DEFINE F == {U \in SUBSET S : SumOver(f, U) = 0}
<1>1. {} \in F
  BY FS_EmptySet, SumOverUnfold
<1>2. ASSUME NEW U \in SUBSET S, NEW x \in S \ U, U \in F PROVE U \cup {x} \in F
  <2>1. IsFiniteSet(U) /\ \A y \in U \cup {x} : f[y] \in Int
    BY FS_Subset
  <2>2. SumOver(f, U \cup {x}) = f[x] + SumOver(f, U)
    BY <2>1, SumOverAdd
  <2> QED BY <1>2, <2>2
<1>3. S \in F
  <2> HIDE DEF F
  <2> QED BY <1>1, <1>2, FiniteInduct
<1> QED
  BY <1>3

\* A sum over numbers does not change when all of them are moved up by c.
LEMMA SumOverShift ==
    ASSUME NEW c \in Nat, NEW n \in Nat, NEW f, NEW g,
           \A i \in 0..n : f[i] \in Int /\ g[c + i] = f[i]
    PROVE  SumOver(g, c..(c + n)) = SumOver(f, 0..n)
<1> DEFINE T == {m \in Nat : m <= n => SumOver(g, c..(c + m)) = SumOver(f, 0..m)}
<1>1. ASSUME NEW m \in Nat, m <= n,
             SumOver(g, c..(c + m - 1)) = SumOver(f, 0..(m - 1))
      PROVE  SumOver(g, c..(c + m)) = SumOver(f, 0..m)
  <2>1. /\ 0..m = (0..(m - 1)) \cup {m} /\ m \notin 0..(m - 1)
        /\ c..(c + m) = (c..(c + m - 1)) \cup {c + m} /\ c + m \notin c..(c + m - 1)
    OBVIOUS
  <2>2. IsFiniteSet(0..(m - 1)) /\ IsFiniteSet(c..(c + m - 1))
    BY FS_Interval
  <2>3. \A y \in (0..(m - 1)) \cup {m} : f[y] \in Int
    BY <1>1
  <2>4. \A y \in (c..(c + m - 1)) \cup {c + m} : g[y] \in Int
    <3> TAKE y \in (c..(c + m - 1)) \cup {c + m}
    <3>1. y - c \in 0..n /\ c + (y - c) = y
      BY <1>1
    <3> QED BY <3>1
  <2>5. SumOver(f, (0..(m - 1)) \cup {m}) = f[m] + SumOver(f, 0..(m - 1))
    BY <2>1, <2>2, <2>3, SumOverAdd
  <2>6. SumOver(g, (c..(c + m - 1)) \cup {c + m}) = g[c + m] + SumOver(g, c..(c + m - 1))
    BY <2>1, <2>2, <2>4, SumOverAdd
  <2>7. g[c + m] = f[m]
    BY <1>1
  <2> QED BY <1>1, <2>1, <2>5, <2>6, <2>7
<1>2. 0 \in T
  <2>1. 0..(0 - 1) = {} /\ c..(c + 0 - 1) = {}
    OBVIOUS
  <2>2. SumOver(f, {}) = 0 /\ SumOver(g, {}) = 0
    BY FS_EmptySet, SumOverUnfold
  <2>3. SumOver(g, c..(c + 0 - 1)) = SumOver(f, 0..(0 - 1))
    BY <2>1, <2>2
  <2> QED BY <1>1, <2>3
<1>3. ASSUME NEW m \in Nat, m \in T PROVE m + 1 \in T
  <2> SUFFICES ASSUME m + 1 <= n
               PROVE  SumOver(g, c..(c + (m + 1))) = SumOver(f, 0..(m + 1))
    OBVIOUS
  <2>1. SumOver(g, c..(c + m)) = SumOver(f, 0..m) /\ (m + 1) - 1 = m
        /\ c + (m + 1) - 1 = c + m
    BY <1>3
  <2> QED BY <1>1, <2>1
<1>4. \A m \in Nat : m \in T
  <2> HIDE DEF T
  <2> QED BY <1>2, <1>3, NatInduct
<1> QED
  BY <1>4

=============================================================================
