----------------------------- MODULE FoldLemmas -----------------------------
(***************************************************************************)
(* What FoldLeft computes, for the loops the models write with it.  The    *)
(* step of the loop is a parameter: a module instantiates this one once    *)
(* for each of its loops.                                                  *)
(***************************************************************************)
EXTENDS SequencesExt, SequenceTheorems, InductionLemmas

\* Step(c, v, x): what the loop makes of the value v and the element x; c is
\* whatever else its body reads.
CONSTANT Step(_, _, _)

Folded(c, base, s) == FoldLeft(LAMBDA v, x : Step(c, v, x), base, s)

\* The function over sets of positions by which FoldLeft is defined.
FoldRecursion(c, base, s, D, g) ==
    g = [u \in SUBSET D |-> IF u = {} THEN base
                            ELSE Step(c, g[u \ {Max(u)}], s[Max(u)])]

\* The definition, unfolded.
LEMMA FoldedDef ==
    \A c, base, s :
        Folded(c, base, s) = (CHOOSE g : FoldRecursion(c, base, s, DOMAIN s, g))[DOMAIN s]
BY DEF Folded, FoldLeft, MapThenFoldSet, FoldRecursion

\* The greatest of the positions up to n, if n is one of them.
LEMMA MaxUpTo ==
    ASSUME NEW n \in Nat, NEW u \in SUBSET (1..n), n \in u
    PROVE  Max(u) = n
<1>1. \A y \in u : n >= y /\ y \in Nat
  OBVIOUS
<1>2. \E x \in u : \A y \in u : x >= y
  BY <1>1
<1>3. PICK m : m = Max(u)
  OBVIOUS
<1>4. m \in u /\ \A y \in u : m >= y
  BY <1>2, <1>3 DEF Max
<1>5. m \in Nat /\ n >= m /\ m >= n
  BY <1>1, <1>4
<1>6. m = n
  BY <1>5
<1> QED
  BY <1>3, <1>6

\* There is such a function.
LEMMA FoldRecursionExists ==
    ASSUME NEW c, NEW base, NEW s
    PROVE  \A n \in Nat : \E g : FoldRecursion(c, base, s, 1..n, g)
<1> DEFINE T == {n \in Nat : \E g : FoldRecursion(c, base, s, 1..n, g)}
<1>1. 0 \in T
  <2> DEFINE g == [u \in SUBSET (1..0) |-> base]
  <2>1. \A u \in SUBSET (1..0) : u = {}
    OBVIOUS
  <2>2. FoldRecursion(c, base, s, 1..0, g)
    BY <2>1 DEF FoldRecursion
  <2> QED BY <2>2
<1>2. ASSUME NEW n \in Nat, n \in T PROVE n + 1 \in T
  <2>1. PICK f : FoldRecursion(c, base, s, 1..n, f)
    BY <1>2
  <2> DEFINE g == [u \in SUBSET (1..(n + 1)) |->
                      IF n + 1 \in u THEN Step(c, f[u \ {n + 1}], s[n + 1]) ELSE f[u]]
  <2>2. \A u \in SUBSET (1..n) : u \in SUBSET (1..(n + 1)) /\ n + 1 \notin u /\ g[u] = f[u]
    OBVIOUS
  <2>3. ASSUME NEW u \in SUBSET (1..(n + 1))
        PROVE  g[u] = IF u = {} THEN base ELSE Step(c, g[u \ {Max(u)}], s[Max(u)])
    <3>1. CASE n + 1 \in u
      <4>1. Max(u) = n + 1 /\ u \ {n + 1} \in SUBSET (1..n)
        BY <3>1, MaxUpTo
      <4> QED BY <2>2, <3>1, <4>1
    <3>2. CASE n + 1 \notin u
      <4>0. \A x \in u : x \in 1..n
        BY <3>2
      <4>1. u \in SUBSET (1..n) /\ u \ {Max(u)} \in SUBSET (1..n)
        BY <4>0, Zenon
      <4>2. f[u] = IF u = {} THEN base ELSE Step(c, f[u \ {Max(u)}], s[Max(u)])
        BY <2>1, <4>1 DEF FoldRecursion
      <4> HIDE DEF g
      <4> QED BY <2>2, <4>1, <4>2
    <3> QED BY <3>1, <3>2
  <2>4. g = [u \in SUBSET (1..(n + 1)) |-> g[u]]
    OBVIOUS
  <2>5. FoldRecursion(c, base, s, 1..(n + 1), g)
    <3> HIDE DEF g
    <3> QED BY <2>3, <2>4 DEF FoldRecursion
  <2> QED BY <2>5
<1>3. \A n \in Nat : n \in T
  <2> HIDE DEF T
  <2> QED BY <1>1, <1>2, NatInduct
<1> QED
  BY <1>3

\* Functions for sequences with a common beginning agree on it.
LEMMA FoldRecursionsAgree ==
    ASSUME NEW c, NEW base, NEW s, NEW r, NEW n \in Nat, NEW m \in Nat, m <= n,
           \A i \in 1..m : r[i] = s[i],
           NEW f, FoldRecursion(c, base, s, 1..n, f),
           NEW g, FoldRecursion(c, base, r, 1..m, g)
    PROVE  f[1..m] = g[1..m]
<1> DEFINE T == {k \in Nat : k <= m => f[1..k] = g[1..k]}
<1>1. 0 \in T
  <2>1. 1..0 = {} /\ {} \in SUBSET (1..n) /\ {} \in SUBSET (1..m)
    OBVIOUS
  <2>2. f[{}] = base /\ g[{}] = base
    BY <2>1 DEF FoldRecursion
  <2> QED BY <2>1, <2>2
<1>2. ASSUME NEW k \in Nat, k \in T PROVE k + 1 \in T
  <2> SUFFICES ASSUME k + 1 <= m PROVE f[1..(k + 1)] = g[1..(k + 1)]
    OBVIOUS
  <2> DEFINE u == 1..(k + 1)
  <2>1. /\ u \in SUBSET (1..n) /\ u \in SUBSET (1..m) /\ u # {} /\ k + 1 \in u
        /\ u \ {k + 1} = 1..k /\ k + 1 \in 1..m /\ k + 1 \in Nat
    <3>1. u \in SUBSET (1..n) /\ u \in SUBSET (1..m)
      OBVIOUS
    <3>2. k + 1 \in u /\ k + 1 \in 1..m /\ k + 1 \in Nat
      OBVIOUS
    <3>3. u \ {k + 1} = 1..k
      OBVIOUS
    <3> HIDE DEF u
    <3> QED BY <3>1, <3>2, <3>3
  <2>2. Max(u) = k + 1
    BY <2>1, MaxUpTo
  <2> HIDE DEF u
  <2>3. f[u] = Step(c, f[u \ {Max(u)}], s[Max(u)]) /\ g[u] = Step(c, g[u \ {Max(u)}], r[Max(u)])
    BY <2>1 DEF FoldRecursion
  <2>4. f[1..k] = g[1..k]
    BY <1>2
  <2>5. f[u] = g[u]
    BY <2>1, <2>2, <2>3, <2>4
  <2> QED BY <2>5 DEF u
<1>3. \A k \in Nat : k \in T
  <2> HIDE DEF T
  <2> QED BY <1>1, <1>2, NatInduct
<1> QED
  BY <1>3

\* The value of a fold is that of such a function.
LEMMA FoldedIs ==
    ASSUME NEW S, NEW s \in Seq(S), NEW c, NEW base
    PROVE  \E g : FoldRecursion(c, base, s, 1..Len(s), g) /\ Folded(c, base, s) = g[1..Len(s)]
<1>1. DOMAIN s = 1..Len(s) /\ Len(s) \in Nat
  OBVIOUS
<1>2. \E g : FoldRecursion(c, base, s, 1..Len(s), g)
  BY <1>1, FoldRecursionExists
<1>3. PICK f : f = CHOOSE g : FoldRecursion(c, base, s, 1..Len(s), g)
  OBVIOUS
<1>4. FoldRecursion(c, base, s, 1..Len(s), f)
  BY <1>2, <1>3, Zenon
<1>5. Folded(c, base, s) = f[1..Len(s)]
  BY <1>1, <1>3, FoldedDef
<1> QED
  BY <1>4, <1>5

\* A loop over nothing.
LEMMA FoldedEmpty == \A c, base : Folded(c, base, <<>>) = base
<1> TAKE c, base
<1>1. <<>> \in Seq({}) /\ Len(<<>>) = 0 /\ 1..0 = {}
  OBVIOUS
<1>2. PICK g : FoldRecursion(c, base, <<>>, 1..0, g) /\ Folded(c, base, <<>>) = g[1..0]
  BY <1>1, FoldedIs
<1>3. g[{}] = base
  BY <1>1, <1>2 DEF FoldRecursion
<1> QED
  BY <1>1, <1>2, <1>3

(***************************************************************************)
(* One round of the loop: the first n elements are the first n - 1 and     *)
(* then element n.                                                         *)
(***************************************************************************)
LEMMA FoldedStep ==
    ASSUME NEW S, NEW s \in Seq(S), NEW n \in 1..Len(s), NEW c, NEW base
    PROVE  Folded(c, base, SubSeq(s, 1, n))
              = Step(c, Folded(c, base, SubSeq(s, 1, n - 1)), s[n])
<1> DEFINE r == SubSeq(s, 1, n)
           q == SubSeq(s, 1, n - 1)
           D == 1..n
<1>1. /\ r \in Seq(S) /\ Len(r) = n /\ (\A i \in 1..n : r[i] = s[i])
      /\ q \in Seq(S) /\ Len(q) = n - 1 /\ (\A i \in 1..(n - 1) : q[i] = s[i])
      /\ n \in Nat /\ n - 1 \in Nat
  OBVIOUS
<1> HIDE DEF r, q
<1>2. PICK f : FoldRecursion(c, base, r, 1..n, f) /\ Folded(c, base, r) = f[1..n]
  BY <1>1, FoldedIs
<1>3. PICK g : FoldRecursion(c, base, q, 1..(n - 1), g) /\ Folded(c, base, q) = g[1..(n - 1)]
  BY <1>1, FoldedIs
<1>4. f[1..(n - 1)] = g[1..(n - 1)]
  <2>1. n - 1 <= n /\ \A i \in 1..(n - 1) : q[i] = r[i]
    BY <1>1
  <2> QED BY <1>1, <1>2, <1>3, <2>1, FoldRecursionsAgree
<1>5. D \in SUBSET (1..n) /\ D # {} /\ Max(D) = n /\ D \ {n} = 1..(n - 1) /\ n \in D
  <2>0. n \in Nat /\ 1 <= n
    OBVIOUS
  <2>1. D \in SUBSET (1..n) /\ D # {} /\ D \ {n} = 1..(n - 1) /\ n \in D /\ n \in Nat
    <3>1. n \in D /\ D \in SUBSET (1..n)
      BY <2>0
    <3>2. \A i : i \in D \ {n} <=> i \in 1..(n - 1)
      BY <2>0
    <3> QED BY <2>0, <3>1, <3>2, Zenon
  <2> QED BY <2>1, MaxUpTo
<1> HIDE DEF D
<1>6. f[D] = Step(c, f[D \ {Max(D)}], r[Max(D)])
  BY <1>2, <1>5 DEF FoldRecursion
<1>7. f[D] = Step(c, Folded(c, base, q), s[n])
  BY <1>1, <1>3, <1>4, <1>5, <1>6
<1> QED
  BY <1>2, <1>7 DEF r, q, D

\* One element more.
LEMMA FoldedAppend ==
    ASSUME NEW S, NEW s \in Seq(S), NEW e \in S, NEW c, NEW base
    PROVE  Folded(c, base, Append(s, e)) = Step(c, Folded(c, base, s), e)
<1> DEFINE r == Append(s, e)
           n == Len(s) + 1
<1>1. r \in Seq(S) /\ Len(r) = n /\ n \in 1..Len(r) /\ r[n] = e
  OBVIOUS
<1>2. SubSeq(r, 1, n) = r /\ SubSeq(r, 1, n - 1) = s
  OBVIOUS
<1> HIDE DEF r, n
<1>3. Folded(c, base, SubSeq(r, 1, n)) = Step(c, Folded(c, base, SubSeq(r, 1, n - 1)), r[n])
  BY <1>1, FoldedStep
<1> QED
  BY <1>1, <1>2, <1>3 DEF r

----------------------------------------------------------------------------
(* The same for loops over sets, in whatever order the set is gone through. *)

FoldedSet(c, base, S) == FoldSet(LAMBDA x, v : Step(c, v, x), base, S)

\* The element a set is taken apart at.
Some(s) == CHOOSE x \in s : TRUE

\* The function over subsets by which FoldSet is defined.
SetRecursion(c, base, S, g) ==
    g = [s \in SUBSET S |-> IF s = {} THEN base ELSE Step(c, g[s \ {Some(s)}], Some(s))]

\* The definition, unfolded.
LEMMA FoldedSetDef ==
    \A c, base, S : FoldedSet(c, base, S) = (CHOOSE g : SetRecursion(c, base, S, g))[S]
BY DEF FoldedSet, FoldSet, MapThenFoldSet, SetRecursion, Some

\* The set that is left has one element less.
LEMMA SomeOf ==
    ASSUME NEW S, IsFiniteSet(S)
    PROVE  /\ \A s \in SUBSET S : /\ IsFiniteSet(s) /\ Cardinality(s) \in Nat
                                  /\ (Cardinality(s) = 0 <=> s = {})
                                  /\ Cardinality(s) <= Cardinality(S)
           /\ \A s \in SUBSET S : s # {} =>
                  /\ Some(s) \in s /\ s \ {Some(s)} \in SUBSET S
                  /\ Cardinality(s \ {Some(s)}) = Cardinality(s) - 1
<1>0. \A s \in SUBSET S : /\ IsFiniteSet(s) /\ Cardinality(s) \in Nat
                          /\ (Cardinality(s) = 0 <=> s = {})
                          /\ Cardinality(s) <= Cardinality(S)
  BY FS_Subset, FS_CardinalityType, FS_EmptySet
<1>1. ASSUME NEW s \in SUBSET S, s # {}
      PROVE  /\ Some(s) \in s /\ s \ {Some(s)} \in SUBSET S
             /\ Cardinality(s \ {Some(s)}) = Cardinality(s) - 1
  <2>1. Some(s) \in s
    BY <1>1 DEF Some
  <2>2. Cardinality(s \ {Some(s)}) = Cardinality(s) - 1
    BY <1>0, <2>1, FS_RemoveElement, Zenon
  <2> QED BY <2>1, <2>2
<1> QED
  BY <1>0, <1>1

\* There is such a function for every finite set.
LEMMA SetRecursionExists ==
    ASSUME NEW c, NEW base, NEW S, IsFiniteSet(S)
    PROVE  \E g : SetRecursion(c, base, S, g)
<1> DEFINE Turn(s, g) == IF s = {} THEN base ELSE Step(c, g[s \ {Some(s)}], Some(s))
           Small(n) == {s \in SUBSET S : Cardinality(s) <= n}
           T == {n \in Nat : \E g : \A s \in Small(n) : g[s] = Turn(s, g)}
<1>0. \A s \in SUBSET S : /\ Cardinality(s) \in Nat /\ (Cardinality(s) = 0 <=> s = {})
                          /\ Cardinality(s) <= Cardinality(S)
  BY SomeOf
<1>1. \A s \in SUBSET S : s # {} =>
          /\ Some(s) \in s /\ s \ {Some(s)} \in SUBSET S
          /\ Cardinality(s \ {Some(s)}) = Cardinality(s) - 1
  BY SomeOf
<1>2. 0 \in T
  <2> DEFINE g == [s \in SUBSET S |-> base]
  <2>1. \A s \in Small(0) : g[s] = Turn(s, g)
    BY <1>0
  <2> QED BY <2>1
<1>3. ASSUME NEW n \in Nat, n \in T PROVE n + 1 \in T
  <2>1. PICK g : \A s \in Small(n) : g[s] = Turn(s, g)
    BY <1>3
  <2> DEFINE h == [s \in SUBSET S |-> Turn(s, g)]
  <2>2. \A s \in Small(n) : h[s] = g[s]
    BY <2>1
  <2>3. ASSUME NEW s \in Small(n + 1) PROVE Turn(s, h) = Turn(s, g)
    <3>1. CASE s = {}
      BY <3>1
    <3>2. CASE s # {}
      <4>1. s \ {Some(s)} \in Small(n)
        BY <1>0, <1>1, <3>2
      <4>2. h[s \ {Some(s)}] = g[s \ {Some(s)}]
        BY <2>2, <4>1
      <4> QED BY <3>2, <4>2
    <3> QED BY <3>1, <3>2
  <2>4. \A s \in Small(n + 1) : h[s] = Turn(s, h)
    BY <2>3
  <2> HIDE DEF h, Turn, Small
  <2> QED BY <2>4
<1>4. Cardinality(S) \in T
  <2> HIDE DEF T
  <2>1. \A n \in Nat : n \in T
    BY <1>2, <1>3, NatInduct
  <2> QED BY <1>0, <2>1
<1>5. PICK g : \A s \in Small(Cardinality(S)) : g[s] = Turn(s, g)
  BY <1>4
<1> DEFINE h == [s \in SUBSET S |-> Turn(s, g)]
<1>6. \A s \in SUBSET S : s \in Small(Cardinality(S)) /\ h[s] = g[s]
  BY <1>0, <1>5
<1>7. ASSUME NEW s \in SUBSET S PROVE Turn(s, g) = Turn(s, h)
  <2>1. CASE s = {}
    BY <2>1
  <2>2. CASE s # {}
    <3>1. s \ {Some(s)} \in SUBSET S
      BY <1>1, <2>2
    <3>2. h[s \ {Some(s)}] = g[s \ {Some(s)}]
      BY <1>6, <3>1
    <3> QED BY <2>2, <3>2
  <2> QED BY <2>1, <2>2
<1>8. h = [s \in SUBSET S |-> Turn(s, h)]
  <2>1. \A s \in SUBSET S : h[s] = Turn(s, h)
    BY <1>7
  <2>2. h = [s \in SUBSET S |-> h[s]]
    OBVIOUS
  <2> HIDE DEF h, Turn
  <2> QED BY <2>1, <2>2
<1>9. SetRecursion(c, base, S, h)
  <2> HIDE DEF h
  <2> QED BY <1>8 DEF SetRecursion
<1> QED
  BY <1>9

\* Two such functions agree where both are defined.
LEMMA SetRecursionsAgree ==
    ASSUME NEW c, NEW base, NEW S, IsFiniteSet(S), NEW R \in SUBSET S,
           NEW g, SetRecursion(c, base, S, g), NEW h, SetRecursion(c, base, R, h)
    PROVE  \A s \in SUBSET R : g[s] = h[s]
<1> DEFINE F == {s \in SUBSET R : g[s] = h[s]}
<1>1. {} \in F
  BY DEF SetRecursion
<1>2. ASSUME NEW s \in SUBSET R, s # {}, \A x \in s : s \ {x} \in F PROVE s \in F
  <2>1. Some(s) \in s /\ s \in SUBSET S
    BY <1>2, SomeOf
  <2>2. g[s \ {Some(s)}] = h[s \ {Some(s)}]
    BY <1>2, <2>1
  <2>3. g[s] = Step(c, g[s \ {Some(s)}], Some(s)) /\ h[s] = Step(c, h[s \ {Some(s)}], Some(s))
    BY <1>2, <2>1 DEF SetRecursion
  <2> QED BY <2>2, <2>3
<1>3. IsFiniteSet(R)
  BY FS_Subset
<1> HIDE DEF F
<1>4. \A s \in SUBSET R : s \in F
  BY <1>1, <1>2, <1>3, SubsetInduct
<1> QED
  BY <1>4 DEF F

(***************************************************************************)
(* A loop over nothing, and a loop over a set as a loop over all but one   *)
(* of its elements and then that one.                                      *)
(***************************************************************************)
LEMMA FoldedSetUnfold ==
    ASSUME NEW c, NEW base, NEW S, IsFiniteSet(S)
    PROVE  /\ S = {} => FoldedSet(c, base, S) = base
           /\ S # {} => \E x \in S : FoldedSet(c, base, S) = Step(c, FoldedSet(c, base, S \ {x}), x)
<1>1. ASSUME NEW R \in SUBSET S
      PROVE  \E g : SetRecursion(c, base, R, g) /\ FoldedSet(c, base, R) = g[R]
  <2>1. IsFiniteSet(R)
    BY FS_Subset
  <2>2. \E g : SetRecursion(c, base, R, g)
    BY <2>1, SetRecursionExists
  <2>3. PICK g : g = CHOOSE h : SetRecursion(c, base, R, h)
    OBVIOUS
  <2>4. SetRecursion(c, base, R, g)
    BY <2>2, <2>3, Zenon
  <2>5. FoldedSet(c, base, R) = g[R]
    BY <2>3, FoldedSetDef
  <2> QED BY <2>4, <2>5
<1>2. PICK g : SetRecursion(c, base, S, g) /\ FoldedSet(c, base, S) = g[S]
  BY <1>1
<1>3. S = {} => FoldedSet(c, base, S) = base
  BY <1>2 DEF SetRecursion
<1>4. ASSUME S # {}
      PROVE  \E x \in S : FoldedSet(c, base, S) = Step(c, FoldedSet(c, base, S \ {x}), x)
  <2> DEFINE x == Some(S)
             R == S \ {x}
  <2>1. x \in S /\ R \in SUBSET S
    BY <1>4, SomeOf
  <2>2. g[S] = Step(c, g[R], x)
    BY <1>2, <1>4 DEF SetRecursion
  <2> HIDE DEF x, R
  <2>3. PICK h : SetRecursion(c, base, R, h) /\ FoldedSet(c, base, R) = h[R]
    BY <1>1, <2>1
  <2>4. R \in SUBSET R
    OBVIOUS
  <2>5. g[R] = h[R]
    BY <1>2, <2>1, <2>3, <2>4, SetRecursionsAgree
  <2> QED BY <1>2, <2>1, <2>2, <2>3, <2>5 DEF R
<1> QED
  BY <1>3, <1>4
=============================================================================
