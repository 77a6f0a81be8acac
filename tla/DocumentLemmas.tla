----------------------------- MODULE DocumentLemmas -----------------------------
(*****************************************************************************)
(* What holds of the functions on text of Documents, for every text.  Each   *)
(* of them is a fold, and is first shown to be a run, one value per symbol   *)
(* or line (SqueezeRuns, CleanRuns, SubstitutedRuns); a fact about its       *)
(* result is an ordinary induction along that run.  The library's rules for  *)
(* induction take a predicate, these take a set.                             *)
(*****************************************************************************)
EXTENDS Documents, FiniteSetTheorems, SequenceTheorems, WellFoundedInduction, TLAPS

-------------------------------------------------------------------------------
(* Least elements, and induction *)

\* A set of naturals that is not empty has a least element.
LEMMA LeastNatural ==
  ASSUME NEW T \in SUBSET Nat, T # {}
  PROVE  \E m \in T : \A n \in T : m <= n
<1> DEFINE R == OpToRel(<, Nat)
<1>1. IsWellFoundedOn(R, Nat)
  BY NatLessThanWellFounded
<1>2. PICK m \in T : \A n \in T : ~ (<<n, m>> \in R)
  BY <1>1, WFMin, Zenon
<1>3. \A i, j \in Nat : <<i, j>> \in R <=> i < j
  BY DEF OpToRel
<1> HIDE DEF R
<1>4. \A n \in T : ~ (n < m)
  BY <1>2, <1>3
<1> QED
  BY <1>4

\* Every subset of a finite set is in G, if one is whenever all that lack just
\* one of its elements are.  The library's rules take a predicate instead.
LEMMA SubsetInduction ==
  ASSUME NEW S, IsFiniteSet(S), NEW G,
         \A T \in SUBSET S : (\A x \in T : T \ {x} \in G) => T \in G
  PROVE  \A T \in SUBSET S : T \in G
<1> SUFFICES ASSUME \E T \in SUBSET S : T \notin G
             PROVE  FALSE
  OBVIOUS
<1> DEFINE Sizes == {Cardinality(T) : T \in {U \in SUBSET S : U \notin G}}
<1>1. \A T \in SUBSET S : IsFiniteSet(T) /\ Cardinality(T) \in Nat
  BY FS_Subset, FS_CardinalityType
<1>2. PICK n \in Sizes : \A k \in Sizes : n <= k
  <2>1. Sizes \in SUBSET Nat /\ Sizes # {}
    BY <1>1
  <2> HIDE DEF Sizes
  <2> QED
    BY <2>1, LeastNatural
<1>3. PICK T \in SUBSET S : T \notin G /\ Cardinality(T) = n
  BY <1>2
<1>4. \A x \in T : T \ {x} \in G
  <2> SUFFICES ASSUME NEW x \in T, T \ {x} \notin G
               PROVE  FALSE
    OBVIOUS
  <2>1. Cardinality(T \ {x}) = Cardinality(T) - 1
    BY <1>1, FS_RemoveElement
  <2>2. Cardinality(T \ {x}) \in Sizes
    OBVIOUS
  <2>3. Cardinality(T) \in Nat
    BY <1>1
  <2>4. Cardinality(T) <= Cardinality(T \ {x})
    BY <1>2, <1>3, <2>2
  <2> QED
    BY <2>1, <2>3, <2>4
<1> QED
  BY <1>3, <1>4

\* Induction over the naturals.
LEMMA NaturalInduction ==
  ASSUME NEW G, 0 \in G, \A n \in Nat : n \in G => n + 1 \in G
  PROVE  Nat \subseteq G
<1> DEFINE Bad == Nat \ G
<1> SUFFICES ASSUME Bad # {}
             PROVE  FALSE
  OBVIOUS
<1>1. PICK n \in Bad : \A k \in Bad : n <= k
  <2>1. Bad \in SUBSET Nat
    OBVIOUS
  <2> HIDE DEF Bad
  <2> QED
    BY <2>1, LeastNatural
<1>2. n - 1 \in Nat /\ n - 1 \in G
  BY <1>1
<1> QED
  BY <1>1, <1>2

-------------------------------------------------------------------------------
(* Sequences *)

\* A sequence with one more entry.
LEMMA Appended ==
  ASSUME NEW S, NEW s \in Seq(S), NEW e \in S, NEW n \in Nat, Len(s) = n
  PROVE  /\ Append(s, e) \in Seq(S)
         /\ Len(Append(s, e)) = n + 1
         /\ \A i \in 1 .. n : Append(s, e)[i] = s[i]
         /\ Append(s, e)[n + 1] = e
OBVIOUS

\* What SetToSeqs gives: the elements of a finite set, each once.
LEMMA Listed ==
  ASSUME NEW S, IsFiniteSet(S), NEW s \in SetToSeqs(S)
  PROVE  /\ DOMAIN s = 1 .. Cardinality(S) /\ Cardinality(S) \in Nat
         /\ s \in Seq(S)
         /\ \A i, j \in DOMAIN s : s[i] = s[j] => i = j
         /\ \A x \in S : \E i \in DOMAIN s : s[i] = x
<1> DEFINE n == Cardinality(S)
<1>1. n \in Nat
  BY FS_CardinalityType
<1> HIDE DEF n
<1>2. s \in [1 .. n -> S] /\ \A i, j \in 1 .. n : i # j => s[i] # s[j]
  BY DEF SetToSeqs, n
<1>3. s \in Injection(1 .. n, S)
  BY <1>2 DEF Injection, IsInjective
<1>4. Cardinality(1 .. n) = n
  BY <1>1, FS_Interval
<1>5. s \in Surjection(1 .. n, S)
  BY <1>3, <1>4, FS_Injection DEF n
<1>6. \A x \in S : \E i \in 1 .. n : s[i] = x
  BY <1>5 DEF Surjection
<1>7. DOMAIN s = 1 .. n /\ s \in Seq(S)
  BY <1>1, <1>2
<1> QED
  BY <1>1, <1>2, <1>6, <1>7 DEF n

\* A finite set of naturals has a greatest element.
LEMMA GreatestNatural ==
  ASSUME NEW S \in SUBSET Nat, IsFiniteSet(S), S # {}
  PROVE  \E m \in S : \A n \in S : n <= m
<1> DEFINE G == {T \in SUBSET S : T # {} => \E m \in T : \A n \in T : n <= m}
<1>1. ASSUME NEW T \in SUBSET S, \A x \in T : T \ {x} \in G PROVE T \in G
  <2> SUFFICES ASSUME T # {} PROVE \E m \in T : \A n \in T : n <= m
    OBVIOUS
  <2>1. PICK x \in T : TRUE
    OBVIOUS
  <2>2. x \in Nat /\ T \in SUBSET Nat
    OBVIOUS
  <2>3. CASE T \ {x} = {}
    <3>1. \A n \in T : n = x
      BY <2>3
    <3> QED
      BY <2>1, <2>2, <3>1
  <2>4. CASE T \ {x} # {}
    <3>1. PICK m \in T \ {x} : \A n \in T \ {x} : n <= m
      BY <1>1, <2>4
    <3>2. CASE x <= m
      BY <2>2, <3>1, <3>2
    <3>3. CASE m <= x
      <4>1. ASSUME NEW n \in T PROVE n <= x
        <5>1. n \in Nat /\ m \in Nat
          BY <2>2
        <5>2. n = x \/ n <= m
          BY <3>1
        <5> QED
          BY <2>2, <3>3, <5>1, <5>2
      <4> QED
        BY <4>1
    <3> QED
      BY <2>2, <3>2, <3>3
  <2> QED
    BY <2>3, <2>4
<1>2. \A T \in SUBSET S : T \in G
  <2> HIDE DEF G
  <2> QED
    BY <1>1, SubsetInduction
<1>3. S \in G
  BY <1>2
<1> QED
  BY <1>3

\* Precedes orders S: of two elements exactly one comes first.
Orders(precedes, S) ==
  /\ \A x \in S : <<x, x>> \notin precedes
  /\ \A x, y \in S : x = y \/ <<x, y>> \in precedes \/ <<y, x>> \in precedes
  /\ \A x, y, z \in S : <<x, y>> \in precedes /\ <<y, z>> \in precedes => <<x, z>> \in precedes

\* In an order, a finite set has a last element.
LEMMA LastInOrder ==
  ASSUME NEW S, IsFiniteSet(S), NEW precedes, Orders(precedes, S), S # {}
  PROVE  \E m \in S : \A x \in S : x = m \/ <<x, m>> \in precedes
<1> DEFINE IsLast(m, T) == \A x \in T : x = m \/ <<x, m>> \in precedes
           G == {T \in SUBSET S : T # {} => \E m \in T : IsLast(m, T)}
<1>1. ASSUME NEW T \in SUBSET S, \A x \in T : T \ {x} \in G PROVE T \in G
  <2> SUFFICES ASSUME T # {} PROVE \E m \in T : IsLast(m, T)
    OBVIOUS
  <2>1. PICK x \in T : TRUE
    OBVIOUS
  <2>2. CASE T \ {x} = {}
    BY <2>1, <2>2
  <2>3. CASE T \ {x} # {}
    <3>1. PICK m \in T \ {x} : IsLast(m, T \ {x})
      BY <1>1, <2>3
    <3>2. CASE <<x, m>> \in precedes
      BY <3>1, <3>2
    <3>3. CASE <<m, x>> \in precedes
      <4>1. ASSUME NEW y \in T, y # x PROVE <<y, x>> \in precedes
        <5>1. y = m \/ <<y, m>> \in precedes
          BY <3>1, <4>1
        <5>2. x \in S /\ y \in S /\ m \in S
          OBVIOUS
        <5> QED
          BY <3>3, <5>1, <5>2 DEF Orders
      <4> QED
        BY <4>1
    <3>4. <<x, m>> \in precedes \/ <<m, x>> \in precedes
      BY <3>1 DEF Orders
    <3> QED
      BY <3>2, <3>3, <3>4
  <2> QED
    BY <2>2, <2>3
<1>2. \A T \in SUBSET S : T \in G
  <2> HIDE DEF G
  <2> QED
    BY <1>1, SubsetInduction
<1>3. S \in G
  BY <1>2
<1> QED
  BY <1>3

\* A finite set can be listed in any order.
LEMMA ListedBy ==
  ASSUME NEW S, IsFiniteSet(S), NEW precedes, Orders(precedes, S)
  PROVE  \E s \in SetToSeqs(S) : \A i, j \in DOMAIN s : i < j => <<s[i], s[j]>> \in precedes
<1> DEFINE Ordered(s) == \A i, j \in DOMAIN s : i < j => <<s[i], s[j]>> \in precedes
           G == {T \in SUBSET S : \E s \in SetToSeqs(T) : Ordered(s)}
<1>1. ASSUME NEW T \in SUBSET S, \A x \in T : T \ {x} \in G PROVE T \in G
  <2>1. IsFiniteSet(T) /\ Cardinality(T) \in Nat
    BY FS_Subset, FS_CardinalityType
  <2>2. CASE T = {}
    <3> DEFINE none == [i \in 1 .. 0 |-> 0]
    <3>1. none \in [1 .. 0 -> {}] /\ DOMAIN none = {}
      OBVIOUS
    <3>2. Cardinality(T) = 0
      BY <2>2, FS_EmptySet
    <3> HIDE DEF none
    <3>3. none \in SetToSeqs(T)
      BY <2>2, <3>1, <3>2 DEF SetToSeqs
    <3>4. Ordered(none)
      BY <3>1
    <3> HIDE DEF Ordered
    <3> QED
      BY <3>3, <3>4
  <2>3. CASE T # {}
    <3>1. PICK m \in T : \A x \in T : x = m \/ <<x, m>> \in precedes
      <4>1. Orders(precedes, T)
        BY DEF Orders
      <4> QED
        BY <2>1, <2>3, <4>1, LastInOrder
    <3> DEFINE rest == T \ {m}
               c == Cardinality(rest)
    <3>2. PICK s \in SetToSeqs(rest) : Ordered(s)
      <4>1. rest \in G
        <5> HIDE DEF G
        <5> QED
          BY <1>1, <3>1
      <4> HIDE DEF Ordered, rest
      <4> QED
        BY <4>1
    <3>3. IsFiniteSet(rest) /\ c \in Nat /\ Cardinality(T) = c + 1
      <4>1. IsFiniteSet(rest) /\ Cardinality(rest) = Cardinality(T) - 1
        BY <2>1, FS_RemoveElement
      <4>2. Cardinality(rest) \in Nat
        BY <4>1, FS_CardinalityType
      <4> HIDE DEF rest
      <4> QED
        BY <2>1, <4>1, <4>2
    <3>4. /\ DOMAIN s = 1 .. c
          /\ \A i \in 1 .. c : s[i] \in rest
          /\ \A i, j \in 1 .. c : s[i] = s[j] => i = j
      <4>1. s \in SetToSeqs(rest)
        BY <3>2
      <4> HIDE DEF rest, Ordered
      <4> QED
        BY <3>3, <4>1, Listed
    <3> DEFINE t == [i \in 1 .. c + 1 |-> IF i = c + 1 THEN m ELSE s[i]]
    <3> HIDE DEF c
    <3>5. \A i \in 1 .. c + 1 : i = c + 1 \/ i \in 1 .. c
      BY <3>3
    <3>6. c + 1 \notin 1 .. c /\ c + 1 \in 1 .. c + 1 /\ \A i \in 1 .. c : i \in 1 .. c + 1
      BY <3>3
    <3>7. /\ DOMAIN t = 1 .. c + 1 /\ t[c + 1] = m
          /\ \A i \in 1 .. c : t[i] = s[i] /\ t[i] \in T /\ t[i] # m /\ <<t[i], m>> \in precedes
      <4>1. \A i \in 1 .. c : s[i] \in T /\ s[i] # m /\ <<s[i], m>> \in precedes
        BY <3>1, <3>4
      <4> QED
        BY <3>6, <4>1
    <3>8. t \in [1 .. c + 1 -> T]
      BY <3>5, <3>7
    <3> HIDE DEF t, rest
    <3>9. ASSUME NEW i \in 1 .. c + 1, NEW j \in 1 .. c + 1, i < j PROVE <<t[i], t[j]>> \in precedes
      <4>1. i \in 1 .. c
        BY <3>3, <3>9
      <4>2. CASE j = c + 1
        BY <3>7, <4>1, <4>2
      <4>3. CASE j \in 1 .. c
        BY <3>2, <3>4, <3>7, <3>9, <4>1, <4>3
      <4> QED
        BY <3>5, <4>2, <4>3
    <3>10. ASSUME NEW i \in 1 .. c + 1, NEW j \in 1 .. c + 1, i # j PROVE t[i] # t[j]
      <4>1. i < j \/ j < i
        BY <3>3, <3>10
      <4>2. t[i] \in S /\ t[j] \in S
        BY <3>8
      <4>3. <<t[i], t[j]>> \in precedes \/ <<t[j], t[i]>> \in precedes
        BY <3>9, <4>1
      <4> QED
        BY <4>2, <4>3 DEF Orders
    <3>11. t \in SetToSeqs(T)
      BY <3>3, <3>8, <3>10 DEF SetToSeqs
    <3>12. Ordered(t)
      BY <3>7, <3>9
    <3> QED
      BY <3>11, <3>12
  <2> QED
    BY <2>2, <2>3
<1>2. \A T \in SUBSET S : T \in G
  <2> HIDE DEF G
  <2> QED
    BY <1>1, SubsetInduction
<1>3. S \in G
  BY <1>2
<1> QED
  BY <1>3

\* A finite set of naturals can be listed in order.
LEMMA ListedInOrder ==
  ASSUME NEW S \in SUBSET Nat, IsFiniteSet(S)
  PROVE  \E s \in SetToSeqs(S) : \A i, j \in DOMAIN s : i < j => s[i] < s[j]
<1> DEFINE less == {p \in S \X S : p[1] < p[2]}
<1>1. \A x, y \in S : <<x, y>> \in less <=> x < y
  OBVIOUS
<1> HIDE DEF less
<1>2. Orders(less, S)
  <2>1. \A x \in S : x \in Nat
    OBVIOUS
  <2> QED
    BY <1>1, <2>1 DEF Orders
<1>3. PICK s \in SetToSeqs(S) : \A i, j \in DOMAIN s : i < j => <<s[i], s[j]>> \in less
  BY <1>2, ListedBy
<1>4. \A i \in DOMAIN s : s[i] \in S
  BY DEF SetToSeqs
<1> QED
  BY <1>1, <1>3, <1>4

-------------------------------------------------------------------------------
(* Folds *)

\* Of a set of positions that is not empty, the last one is in it.
LEMMA MaxOfRange ==
  ASSUME NEW n \in Nat, NEW s \in SUBSET (1 .. n), s # {}
  PROVE  /\ Max(s) \in s /\ s \ {Max(s)} \in SUBSET (1 .. n)
         /\ \A y \in s : y <= Max(s)
<1>1. s \in SUBSET Nat /\ IsFiniteSet(s)
  <2> DEFINE S == 1 .. n
  <2>1. IsFiniteSet(S) /\ s \in SUBSET S
    BY FS_Interval
  <2>2. s \in SUBSET Nat
    OBVIOUS
  <2> HIDE DEF S
  <2> QED
    BY <2>1, <2>2, FS_Subset
<1>2. PICK x \in s : \A y \in s : y <= x
  BY <1>1, GreatestNatural
<1>3. \A y \in s : x >= y
  BY <1>1, <1>2
<1>4. Max(s) \in s /\ \A y \in s : Max(s) >= y
  BY <1>3 DEF Max
<1> QED
  BY <1>1, <1>4

\* ... and so is the first.
LEMMA MinOfRange ==
  ASSUME NEW n \in Nat, NEW s \in SUBSET (1 .. n), s # {}
  PROVE  Min(s) \in s /\ \A y \in s : Min(s) <= y
<1>1. s \in SUBSET Nat
  OBVIOUS
<1>2. PICK x \in s : \A y \in s : x <= y
  BY <1>1, LeastNatural
<1> QED
  BY <1>2 DEF Min

\* What a fold over n entries may take, one entry at a time.
FoldSteps(A, n) == [A \X (1 .. n) -> A]

\* A fold from the left as a function on sets of positions: it takes the last
\* position first.
IsFold(g, A, base, n, o) ==
  /\ g \in [SUBSET (1 .. n) -> A]
  /\ \A s \in SUBSET (1 .. n) :
       g[s] = IF s = {} THEN base ELSE o[<<g[s \ {Max(s)}], Max(s)>>]

\* A fold from the left over n entries is a function on the subsets of 1 .. n
\* that takes the last position first.  If what it folds with keeps to a set,
\* given as a function, there is such a function.
LEMMA FoldExists ==
  ASSUME NEW A, NEW base \in A, NEW n \in Nat, NEW o \in FoldSteps(A, n)
  PROVE  \E g : IsFold(g, A, base, n, o)
<1> USE DEF FoldSteps, IsFold
<1> DEFINE S == 1 .. n
           UpTo(k, g) ==
             /\ g \in [SUBSET S -> A]
             /\ \A s \in SUBSET S :
                  g[s] = IF s = {} \/ Cardinality(s) > k THEN base
                         ELSE o[<<g[s \ {Max(s)}], Max(s)>>]
           G == {k \in Nat : \E g : UpTo(k, g)}
<1>0. IsFiniteSet(S)
  BY FS_Interval
<1>1. \A s \in SUBSET S : IsFiniteSet(s) /\ Cardinality(s) \in Nat /\ Cardinality(s) <= Cardinality(S)
  BY <1>0, FS_Subset, FS_CardinalityType
<1>2. ASSUME NEW s \in SUBSET S, s # {}
      PROVE  Max(s) \in s /\ s \ {Max(s)} \in SUBSET S /\ Cardinality(s \ {Max(s)}) = Cardinality(s) - 1
  BY <1>0, <1>1, <1>2, FS_RemoveElement, MaxOfRange
<1>3. 0 \in G
  <2> DEFINE g == [s \in SUBSET S |-> base]
  <2>1. \A s \in SUBSET S : s # {} => Cardinality(s) > 0
    BY <1>1, FS_EmptySet
  <2>2. UpTo(0, g)
    BY <2>1
  <2> QED
    BY <2>2
<1> HIDE DEF S
<1>4. ASSUME NEW k \in Nat, k \in G PROVE k + 1 \in G
  <2>1. PICK g : UpTo(k, g)
    BY <1>4
  <2> DEFINE Next(s) == o[<<g[s \ {Max(s)}], Max(s)>>]
             h == [s \in SUBSET S |-> IF s = {} \/ Cardinality(s) > k + 1 THEN base ELSE Next(s)]
  <2>2. ASSUME NEW s \in SUBSET S, s # {} PROVE Next(s) \in A
    <3>1. g[s \ {Max(s)}] \in A /\ Max(s) \in 1 .. n
      BY <1>2, <2>1, <2>2 DEF S
    <3> QED
      BY <3>1
  <2>3. h \in [SUBSET S -> A]
    BY <2>2
  <2>4. ASSUME NEW s \in SUBSET S, Cardinality(s) <= k PROVE h[s] = g[s]
    BY <1>1, <2>1, <2>4
  <2>5. ASSUME NEW s \in SUBSET S, s # {}, Cardinality(s) <= k + 1
        PROVE  h[s \ {Max(s)}] = g[s \ {Max(s)}]
    <3> DEFINE r == s \ {Max(s)}
    <3>1. r \in SUBSET S /\ Cardinality(r) = Cardinality(s) - 1
      BY <1>2, <2>5
    <3>2. Cardinality(s) \in Nat
      BY <1>1
    <3> HIDE DEF h, r
    <3>3. Cardinality(r) <= k
      BY <2>5, <3>1, <3>2
    <3>4. h[r] = g[r]
      BY <2>4, <3>1, <3>3
    <3> QED
      BY <3>4 DEF r
  <2>6. ASSUME NEW s \in SUBSET S
        PROVE  h[s] = IF s = {} \/ Cardinality(s) > k + 1 THEN base
                      ELSE o[<<h[s \ {Max(s)}], Max(s)>>]
    <3>1. h[s] = IF s = {} \/ Cardinality(s) > k + 1 THEN base ELSE Next(s)
      OBVIOUS
    <3> HIDE DEF h
    <3>2. CASE s = {} \/ Cardinality(s) > k + 1
      BY <3>1, <3>2
    <3>3. CASE ~ (s = {} \/ Cardinality(s) > k + 1)
      <4>1. h[s \ {Max(s)}] = g[s \ {Max(s)}]
        BY <1>1, <2>5, <3>3
      <4> QED
        BY <3>1, <3>3, <4>1
    <3> QED
      BY <3>2, <3>3
  <2> HIDE DEF h
  <2>7. UpTo(k + 1, h)
    BY <2>3, <2>6
  <2> QED
    BY <2>7
<1>5. Cardinality(S) \in G
  <2> HIDE DEF G
  <2> QED
    BY <1>0, <1>3, <1>4, NaturalInduction, FS_CardinalityType
<1>6. PICK g : UpTo(Cardinality(S), g)
  BY <1>5
<1>7. \A s \in SUBSET S : ~ (Cardinality(s) > Cardinality(S))
  BY <1>0, <1>1, FS_CardinalityType
<1> QED
  BY <1>6, <1>7 DEF S

\* Its values at the sets it is computed from.
LEMMA FoldValues ==
  ASSUME NEW A, NEW base, NEW n \in Nat, NEW o, NEW g, IsFold(g, A, base, n, o)
  PROVE  \A s \in SUBSET (1 .. n) : s # {} => g[s \ {Max(s)}] \in A /\ Max(s) \in 1 .. n
<1> SUFFICES ASSUME NEW s \in SUBSET (1 .. n), s # {}
             PROVE  g[s \ {Max(s)}] \in A /\ Max(s) \in 1 .. n
  OBVIOUS
<1>1. Max(s) \in s /\ s \ {Max(s)} \in SUBSET (1 .. n)
  BY MaxOfRange
<1> QED
  BY <1>1 DEF IsFold

\* A fold as the run of what it has after each entry.
IsRun(f, A, base, n, o) ==
  /\ f \in [0 .. n -> A]
  /\ f[0] = base
  /\ \A k \in 1 .. n : f[k] = o[<<f[k - 1], k>>]

\* Positions up to n from 0: what holds of 0 and of the next one holds of all.
LEMMA IntervalInduction ==
  ASSUME NEW n \in Nat, NEW G, 0 \in G, \A k \in 1 .. n : k - 1 \in G => k \in G
  PROVE  0 .. n \subseteq G
<1> DEFINE H == {k \in Nat : k <= n => k \in G}
<1>1. 0 \in H
  OBVIOUS
<1>2. ASSUME NEW k \in Nat, k \in H PROVE k + 1 \in H
  <2> SUFFICES ASSUME k + 1 <= n PROVE k + 1 \in G
    OBVIOUS
  <2>1. k \in G /\ k + 1 \in 1 .. n /\ (k + 1) - 1 = k
    BY <1>2
  <2> QED
    BY <2>1
<1>3. Nat \subseteq H
  <2> HIDE DEF H
  <2> QED
    BY <1>1, <1>2, NaturalInduction
<1> QED
  BY <1>3

\* A fold is such a run: its value after k positions is made from the one after k - 1.
LEMMA FoldRuns ==
  ASSUME NEW A, NEW base \in A, NEW n \in Nat, NEW o \in FoldSteps(A, n), NEW it,
         it[{}] = base,
         \A s \in SUBSET (1 .. n) :
           s # {} /\ it[s \ {Max(s)}] \in A => it[s] = o[<<it[s \ {Max(s)}], Max(s)>>]
  PROVE  IsRun([k \in 0 .. n |-> it[1 .. k]], A, base, n, o)
<1> DEFINE f == [k \in 0 .. n |-> it[1 .. k]]
           G == {k \in 0 .. n : it[1 .. k] \in A}
<1>1. 1 .. 0 = {} /\ 0 \in G
  OBVIOUS
<1>2. ASSUME NEW k \in 1 .. n, k - 1 \in G
      PROVE  it[1 .. k] = o[<<it[1 .. (k - 1)], k>>] /\ k \in G
  <2> DEFINE s == 1 .. k
  <2>1. s \in SUBSET (1 .. n) /\ k \in s /\ \A y \in s : k >= y /\ (y >= k => y = k)
    OBVIOUS
  <2>2. Max(s) = k
    <3> HIDE DEF s
    <3>1. \E x \in s : \A y \in s : x >= y
      BY <2>1
    <3>2. Max(s) \in s /\ \A y \in s : Max(s) >= y
      BY <3>1 DEF Max
    <3> QED
      BY <2>1, <3>2
  <2>3. s \ {k} = 1 .. (k - 1)
    OBVIOUS
  <2>4. it[s \ {Max(s)}] \in A
    BY <1>2, <2>2, <2>3
  <2>5. it[s] = o[<<it[s \ {Max(s)}], Max(s)>>]
    <3> HIDE DEF s
    <3> QED
      BY <2>1, <2>4
  <2>6. it[1 .. k] = o[<<it[1 .. (k - 1)], k>>]
    BY <2>2, <2>3, <2>5
  <2>7. o[<<it[1 .. (k - 1)], k>>] \in A
    BY <1>2 DEF FoldSteps
  <2> QED
    BY <2>6, <2>7
<1>3. 0 .. n \subseteq G
  <2> HIDE DEF G
  <2> QED
    BY <1>1, <1>2, IntervalInduction
<1>4. \A k \in 1 .. n : f[k] = o[<<f[k - 1], k>>]
  <2> TAKE k \in 1 .. n
  <2>1. k - 1 \in G /\ k - 1 \in 0 .. n /\ k \in 0 .. n
    BY <1>3
  <2> HIDE DEF G
  <2> QED
    BY <1>2, <2>1
<1>5. f \in [0 .. n -> A] /\ f[0] = base
  BY <1>1, <1>3
<1>6. IsRun(f, A, base, n, o)
  <2> HIDE DEF f
  <2> QED
    BY <1>4, <1>5 DEF IsRun
<1> QED
  BY <1>6

\* A sequence cut down to one position is the one value there.
LEMMA SubSeqOfOne ==
  ASSUME NEW T, NEW seq \in Seq(T), NEW i \in 1 .. Len(seq)
  PROVE  SubSeq(seq, i, i) = <<seq[i]>>
<1> DEFINE a == SubSeq(seq, i, i)
           b == <<seq[i]>>
<1>1. a \in Seq(T) /\ Len(a) = 1 /\ a[1] = seq[i]
  OBVIOUS
<1>2. b \in Seq(T) /\ Len(b) = 1 /\ b[1] = seq[i]
  OBVIOUS
<1> HIDE DEF a, b
<1>3. a = b
  BY <1>1, <1>2
<1> QED
  BY <1>3 DEF a, b

\* A sequence with a length is not the empty one.
LEMMA LongIsNotEmpty == ASSUME NEW s, Len(s) # 0 PROVE s # <<>>
<1> SUFFICES ASSUME s = <<>> PROVE FALSE
  OBVIOUS
<1>1. Len(<<>>) = 0
  OBVIOUS
<1> QED
  BY <1>1

-------------------------------------------------------------------------------
(* White space: Strip, Squeeze, normalise *)

\* The positions strip() keeps.
LEMMA InkRange ==
  ASSUME NEW text, NEW range \in SUBSET Nat, IsFiniteSet(range), Ink(text, range) # {}
  PROVE  \E first, last \in range :
           /\ first <= last /\ Ink(text, range) = first .. last
           /\ ~IsWhite(text[first]) /\ ~IsWhite(text[last])
           /\ \A i \in range : ~IsWhite(text[i]) => first <= i /\ i <= last
<1> DEFINE ink == {i \in range : ~IsWhite(text[i])}
<1>1. Ink(text, range) = Min(ink) .. Max(ink) /\ ink # {}
  BY DEF Ink
<1>2. ink \in SUBSET Nat /\ ink \subseteq range /\ IsFiniteSet(ink)
  <2>1. ink \in SUBSET range /\ ink \in SUBSET Nat
    OBVIOUS
  <2> HIDE DEF ink
  <2> QED
    BY <2>1, FS_Subset
<1> HIDE DEF ink
<1>3. Min(ink) \in ink /\ \A i \in ink : Min(ink) <= i
  <2>1. \E m \in ink : \A i \in ink : m <= i
    BY <1>1, <1>2, LeastNatural
  <2> QED
    BY <2>1 DEF Min
<1>4. Max(ink) \in ink /\ \A i \in ink : i <= Max(ink)
  <2>1. \E m \in ink : \A i \in ink : i <= m
    BY <1>1, <1>2, GreatestNatural
  <2>2. \E m \in ink : \A i \in ink : m >= i
    BY <1>2, <2>1
  <2>3. Max(ink) \in ink /\ \A i \in ink : Max(ink) >= i
    BY <2>2 DEF Max
  <2> QED
    BY <1>2, <2>3
<1> DEFINE first == Min(ink)
           last == Max(ink)
<1>5. first \in range /\ last \in range /\ first <= last /\ Ink(text, range) = first .. last
  BY <1>1, <1>2, <1>3, <1>4
<1>6. ~IsWhite(text[first]) /\ ~IsWhite(text[last])
  BY <1>3, <1>4 DEF ink
<1>7. \A i \in range : ~IsWhite(text[i]) => first <= i /\ i <= last
  BY <1>3, <1>4 DEF ink
<1> HIDE DEF first, last
<1> QED
  BY <1>5, <1>6, <1>7

\* Interval ends.
LEMMA Ends ==
  ASSUME NEW first \in Int, NEW last \in Int, first <= last
  PROVE  Min(first .. last) = first /\ Max(first .. last) = last
<1> DEFINE S == first .. last
<1>1. first \in S /\ last \in S /\ \A i \in S : i \in Int /\ first <= i /\ i <= last /\ last >= i
  OBVIOUS
<1>2. Min(S) \in S /\ \A i \in S : Min(S) <= i
  <2> HIDE DEF S
  <2> QED
    BY <1>1 DEF Min
<1>3. Max(S) \in S /\ \A i \in S : Max(S) >= i
  <2> HIDE DEF S
  <2> QED
    BY <1>1 DEF Max
<1> QED
  BY <1>1, <1>2, <1>3

\* strip() takes white space only.
LEMMA Stripped ==
  ASSUME NEW T, NEW text \in Seq(T)
  PROVE  \/ Strip(text) = <<>> /\ \A i \in 1 .. Len(text) : IsWhite(text[i])
         \/ \E first, last \in 1 .. Len(text) :
              /\ first <= last /\ Strip(text) = SubSeq(text, first, last)
              /\ ~IsWhite(text[first]) /\ ~IsWhite(text[last])
              /\ \A i \in 1 .. Len(text) : i < first \/ i > last => IsWhite(text[i])
<1> DEFINE n == Len(text)
           all == 1 .. n
           range == Ink(text, DOMAIN text)
<1>1. n \in Nat /\ DOMAIN text = all /\ all \in SUBSET Nat
  OBVIOUS
<1>2. IsFiniteSet(all)
  BY <1>1, FS_Interval
<1>3. CASE range = {}
  <2>1. \A i \in all : IsWhite(text[i])
    <3> SUFFICES ASSUME NEW i \in all, ~IsWhite(text[i]) PROVE FALSE
      OBVIOUS
    <3> DEFINE ink == {j \in all : ~IsWhite(text[j])}
    <3>1. ink # {} /\ ink \in SUBSET (1 .. n)
      OBVIOUS
    <3>2. range = Min(ink) .. Max(ink)
      BY <1>1, <3>1 DEF Ink
    <3> HIDE DEF range, ink, n
    <3>3. Min(ink) \in ink /\ Max(ink) \in ink /\ Max(ink) \in 1 .. n /\ Min(ink) \in 1 .. n
          /\ Min(ink) <= Max(ink)
      BY <1>1, <3>1, MinOfRange, MaxOfRange
    <3> QED
      BY <1>3, <3>2, <3>3
  <2> QED
    BY <1>3, <2>1 DEF Strip
<1>4. CASE range # {}
  <2>1. PICK first, last \in all :
          /\ first <= last /\ range = first .. last
          /\ ~IsWhite(text[first]) /\ ~IsWhite(text[last])
          /\ \A i \in all : ~IsWhite(text[i]) => first <= i /\ i <= last
    <3>1. range = Ink(text, all)
      BY <1>1
    <3> HIDE DEF range, all, n
    <3> QED
      BY <1>1, <1>2, <1>4, <3>1, InkRange
  <2>2. Min(range) = first /\ Max(range) = last
    BY <1>1, <2>1, Ends
  <2>3. Strip(text) = SubSeq(text, first, last)
    BY <1>4, <2>2 DEF Strip
  <2>4. \A i \in all : i < first \/ i > last => IsWhite(text[i])
    BY <1>1, <2>1
  <2> QED
    BY <2>1, <2>3, <2>4
<1> QED
  BY <1>3, <1>4

\* strip() adds no symbol.
LEMMA StripTyped ==
  ASSUME NEW T, NEW text \in Seq(T)
  PROVE  Strip(text) \in Seq(T)
<1>1. \A first, last \in 1 .. Len(text) : first <= last => SubSeq(text, first, last) \in Seq(T)
  OBVIOUS
<1>2. <<>> \in Seq(T)
  OBVIOUS
<1> QED
  BY <1>1, <1>2, Stripped

\* strip() leaves alone a text that begins and ends with ink.
LEMMA StripOfInk ==
  ASSUME NEW T, NEW text \in Seq(T), text # <<>>, ~IsWhite(text[1]), ~IsWhite(text[Len(text)])
  PROVE  Strip(text) = text
<1> DEFINE n == Len(text)
<1>1. n \in Nat /\ n > 0 /\ 1 \in 1 .. n /\ n \in 1 .. n /\ SubSeq(text, 1, n) = text
  OBVIOUS
<1>2. PICK first \in 1 .. n, last \in 1 .. n :
        /\ Strip(text) = SubSeq(text, first, last)
        /\ \A i \in 1 .. n : i < first \/ i > last => IsWhite(text[i])
  BY <1>1, Stripped
<1> HIDE DEF n
<1>3. ~ (1 < first) /\ ~ (n > last)
  BY <1>1, <1>2 DEF n
<1>4. first = 1 /\ last = n
  BY <1>1, <1>3
<1> QED
  BY <1>1, <1>2, <1>4

\* What Squeeze does with one more symbol.
Squeezed(done, s) ==
  IF ~IsWhite(s) THEN Append(done, s)
  ELSE IF done # <<>> /\ Last(done) = Space THEN done
  ELSE Append(done, Space)

\* Squeeze, one symbol after the other.
SqueezeRun(f, T, text, n) ==
  /\ f \in [0 .. n -> Seq(T)]
  /\ f[0] = <<>> /\ f[n] = Squeeze(text)
  /\ \A k \in 1 .. n : f[k] = Squeezed(f[k - 1], text[k])

\* re.sub(r"\s+", " ", text) is a run over the symbols of the text.
LEMMA SqueezeRuns ==
  ASSUME NEW T, Space \in T, Newline \in T, NEW text, NEW n \in Nat,
         DOMAIN text = 1 .. n, \A i \in 1 .. n : text[i] \in T
  PROVE  \E f : SqueezeRun(f, T, text, n)
<1> DEFINE A == Seq(T)
           base == <<>>
           Step(done, next) == Squeezed(done, next)
           o == [p \in A \X (1 .. n) |-> Step(p[1], text[p[2]])]
           Iterates(g) == g = [s \in SUBSET (1 .. n) |-> IF s = {} THEN base
                                 ELSE Step(g[s \ {Max(s)}], text[Max(s)])]
           it == CHOOSE g : Iterates(g)
           f == [k \in 0 .. n |-> it[1 .. k]]
<1>1. base \in A
  OBVIOUS
<1>2. \A a \in A, i \in 1 .. n : Step(a, text[i]) \in A
  BY DEF Squeezed
<1>3. Squeeze(text) = it[1 .. n]
  BY DEF Squeeze, Squeezed, FoldLeft, MapThenFoldSet
<1> HIDE DEF A, base, Step
<1>4. o \in FoldSteps(A, n)
      /\ \A a \in A, i \in 1 .. n : o[<<a, i>>] = Step(a, text[i])
  BY <1>2 DEF FoldSteps
<1> HIDE DEF o, it, f
<1>5. PICK g : IsFold(g, A, base, n, o)
  BY <1>1, <1>4, FoldExists
<1>6. Iterates(it)
  <2>1. \A s \in SUBSET (1 .. n) : s # {} => g[s \ {Max(s)}] \in A /\ Max(s) \in 1 .. n
    BY <1>5, FoldValues
  <2>2. Iterates(g)
    BY <1>4, <1>5, <2>1 DEF IsFold
  <2> HIDE DEF Iterates
  <2> QED
    BY <2>2 DEF it
<1>7. /\ it[{}] = base
      /\ \A s \in SUBSET (1 .. n) :
           s # {} /\ it[s \ {Max(s)}] \in A => it[s] = o[<<it[s \ {Max(s)}], Max(s)>>]
  BY <1>4, <1>6, MaxOfRange
<1> HIDE DEF Iterates
<1>8. IsRun(f, A, base, n, o)
  BY <1>1, <1>4, <1>7, FoldRuns DEF f
<1>9. f \in [0 .. n -> A] /\ f[0] = base /\ f[n] = Squeeze(text)
  BY <1>3, <1>8 DEF f, IsRun
<1>10. ASSUME NEW k \in 1 .. n PROVE f[k] = Step(f[k - 1], text[k])
  <2>1. k - 1 \in 0 .. n /\ f[k] = o[<<f[k - 1], k>>]
    BY <1>8 DEF IsRun
  <2> QED
    BY <1>4, <1>9, <2>1
<1> QED
  BY <1>9, <1>10 DEF A, base, Step, SqueezeRun

\* A normalised text is made of the symbols of the text and of spaces.
LEMMA NormaliseTyped ==
  ASSUME NEW T, Space \in T, Newline \in T, NEW text \in Seq(T)
  PROVE  normalise(text) \in Seq(T)
<1> DEFINE n == Len(text)
<1>1. n \in Nat /\ DOMAIN text = 1 .. n /\ \A i \in 1 .. n : text[i] \in T
  OBVIOUS
<1>2. Squeeze(text) \in Seq(T)
  <2> HIDE DEF n
  <2>1. PICK f : SqueezeRun(f, T, text, n)
    BY <1>1, SqueezeRuns
  <2> QED
    BY <1>1, <2>1 DEF SqueezeRun
<1> QED
  BY <1>2, StripTyped DEF normalise

\* What stands before a text, or after it, does not change how it is squeezed.
LEMMA SqueezedAfter ==
  ASSUME NEW T, Space \in T, NEW p \in Seq(T), NEW q \in Seq(T), NEW s \in T
  PROVE  q # <<>> \/ ~IsWhite(s) =>
           Squeezed(p \o q, s) = p \o Squeezed(q, s) /\ Squeezed(q, s) # <<>>
<1> SUFFICES ASSUME q # <<>> \/ ~IsWhite(s)
             PROVE  Squeezed(p \o q, s) = p \o Squeezed(q, s) /\ Squeezed(q, s) # <<>>
  OBVIOUS
<1>1. CASE ~IsWhite(s)
  BY <1>1 DEF Squeezed
<1>2. CASE IsWhite(s)
  <2>1. q # <<>> /\ p \o q # <<>> /\ Last(p \o q) = Last(q)
    BY <1>2 DEF Last
  <2>2. /\ Append(p \o q, Space) = p \o Append(q, Space)
        /\ Append(q, Space) \in Seq(T) /\ Append(q, Space) # <<>>
    OBVIOUS
  <2>3. CASE Last(q) = Space
    BY <1>2, <2>1, <2>3 DEF Squeezed
  <2>4. CASE Last(q) # Space
    <3>1. Squeezed(q, s) = Append(q, Space) /\ Squeezed(p \o q, s) = Append(p \o q, Space)
      BY <1>2, <2>1, <2>4 DEF Squeezed
    <3> QED
      BY <2>2, <3>1
  <2> QED
    BY <2>3, <2>4
<1> QED
  BY <1>1, <1>2

\* The text begins with q.
Starts(T, q, text) == \E r \in Seq(T) : text = q \o r

\* Squeezing one more symbol in never disturbs what came before.
LEMMA SqueezedBefore ==
  ASSUME NEW T, Space \in T, NEW q \in Seq(T), NEW text, Starts(T, q, text), NEW s \in T
  PROVE  Starts(T, q, Squeezed(text, s))
<1>1. PICK r \in Seq(T) : text = q \o r
  BY DEF Starts
<1>2. Squeezed(text, s) \in {text, Append(text, s), Append(text, Space)}
  BY DEF Squeezed
<1>3. \A x \in T : Append(q \o r, x) = q \o Append(r, x) /\ Append(r, x) \in Seq(T)
  OBVIOUS
<1> QED
  BY <1>1, <1>2, <1>3 DEF Starts

\* A text stands inside another one.
Around(T, part, whole) == \E p, r \in Seq(T) : whole = (p \o part) \o r

\* A part of a text that begins with ink, squeezed alone, stands in the squeezed text.
LEMMA SqueezedPart ==
  ASSUME NEW T, Space \in T, Newline \in T, NEW text \in Seq(T),
         NEW first \in Int, NEW last \in Int, NEW i \in Int, NEW j \in Int,
         1 <= first, first <= i, i <= j, j <= last, last <= Len(text), ~IsWhite(text[i])
  PROVE  Around(T, Squeeze(SubSeq(text, i, j)), Squeeze(SubSeq(text, first, last)))
<1> DEFINE u == SubSeq(text, first, last)
           N == last - first + 1
           w == SubSeq(text, i, j)
           n == j - i + 1
           d == i - first
<1>1. /\ N \in Nat /\ n \in Nat /\ n >= 1 /\ d \in Nat /\ d + n <= N
      /\ u \in Seq(T) /\ DOMAIN u = 1 .. N /\ w \in Seq(T) /\ DOMAIN w = 1 .. n
      /\ (\A k \in 1 .. N : u[k] \in T) /\ (\A k \in 1 .. n : w[k] \in T)
      /\ \A k \in 1 .. n : w[k] = u[d + k] /\ d + k \in 1 .. N
      /\ w[1] = text[i]
  OBVIOUS
<1> HIDE DEF u, w, N, n, d
<1>2. PICK g : SqueezeRun(g, T, u, N)
  BY <1>1, SqueezeRuns
<1>3. PICK h : SqueezeRun(h, T, w, n)
  BY <1>1, SqueezeRuns
<1> DEFINE p == g[d]
           G == {k \in 0 .. n : g[d + k] = p \o h[k] /\ (k > 0 => h[k] # <<>>)}
<1>4. p \in Seq(T)
  <2>1. d \in 0 .. N
    BY <1>1
  <2> QED
    BY <1>2, <2>1 DEF SqueezeRun
<1>16. \A q \in Seq(T), s \in T :
        q # <<>> \/ ~IsWhite(s) =>
          Squeezed(p \o q, s) = p \o Squeezed(q, s) /\ Squeezed(q, s) # <<>>
  <2> HIDE DEF p
  <2> QED
    BY <1>4, SqueezedAfter
<1>5. 0 \in G
  <2>1. h[0] = <<>> /\ d + 0 = d
    BY <1>1, <1>3 DEF SqueezeRun
  <2> HIDE DEF p
  <2>2. p \o <<>> = p
    BY <1>4
  <2>3. g[d + 0] = p \o h[0]
    BY <2>1, <2>2 DEF p
  <2> QED
    BY <1>1, <2>3
<1>6. ASSUME NEW k \in 1 .. n, k - 1 \in G PROVE k \in G
  <2>1. /\ k - 1 \in 0 .. n /\ d + k \in 1 .. N /\ (d + k) - 1 = d + (k - 1)
        /\ w[k] = u[d + k] /\ w[k] \in T
    BY <1>1
  <2>2. h[k] = Squeezed(h[k - 1], w[k]) /\ h[k - 1] \in Seq(T)
    BY <1>3, <2>1 DEF SqueezeRun
  <2>3. g[d + k] = Squeezed(g[d + (k - 1)], w[k])
    BY <1>2, <2>1 DEF SqueezeRun
  <2>4. g[d + (k - 1)] = p \o h[k - 1] /\ (k - 1 > 0 => h[k - 1] # <<>>)
    BY <1>6
  <2> HIDE DEF p
  <2>5. h[k - 1] # <<>> \/ ~IsWhite(w[k])
    BY <1>1, <2>4
  <2> DEFINE done == h[k - 1]
             s == w[k]
  <2>6. Squeezed(p \o done, s) = p \o Squeezed(done, s) /\ Squeezed(done, s) # <<>>
    <3>1. done \in Seq(T) /\ s \in T
      BY <2>1, <2>2
    <3>2. done # <<>> \/ ~IsWhite(s)
      BY <2>5
    <3> HIDE DEF done, s
    <3> QED
      BY <1>16, <3>1, <3>2
  <2>7. g[d + k] = p \o h[k] /\ h[k] # <<>>
    BY <2>2, <2>3, <2>4, <2>6
  <2> QED
    BY <2>7
<1>7. g[d + n] = p \o h[n]
  <2>1. 0 .. n \subseteq G
    <3> HIDE DEF G
    <3> QED
      BY <1>1, <1>5, <1>6, IntervalInduction
  <2>2. n \in 0 .. n
    BY <1>1
  <2> QED
    BY <2>1, <2>2
<1> DEFINE m == N - (d + n)
           q == g[d + n]
           H == {k \in 0 .. m : Starts(T, q, g[d + n + k])}
<1>8. m \in Nat /\ q \in Seq(T) /\ h[n] \in Seq(T)
  <2>1. d + n \in 0 .. N /\ n \in 0 .. n /\ m \in Nat
    BY <1>1
  <2> QED
    BY <1>2, <1>3, <2>1 DEF SqueezeRun
<1>9. 0 \in H
  <2>1. d + n + 0 = d + n
    BY <1>1
  <2>2. q = q \o <<>> /\ <<>> \in Seq(T)
    <3> HIDE DEF q
    <3> QED
      BY <1>8
  <2>3. g[d + n + 0] = q
    BY <2>1
  <2> HIDE DEF q, m
  <2>4. Starts(T, q, g[d + n + 0])
    BY <2>2, <2>3 DEF Starts
  <2>5. 0 \in 0 .. m
    BY <1>8
  <2> QED
    BY <2>4, <2>5
<1>10. ASSUME NEW k \in 1 .. m, k - 1 \in H PROVE k \in H
  <2>1. Starts(T, q, g[d + n + (k - 1)])
    BY <1>10
  <2>2. d + n + k \in 1 .. N /\ (d + n + k) - 1 = d + n + (k - 1)
    BY <1>1
  <2>3. g[d + n + k] = Squeezed(g[d + n + (k - 1)], u[d + n + k]) /\ u[d + n + k] \in T
    BY <1>1, <1>2, <2>2 DEF SqueezeRun
  <2> HIDE DEF q, m
  <2>4. Starts(T, q, g[d + n + k])
    BY <1>8, <2>1, <2>3, SqueezedBefore
  <2> QED
    BY <2>4
<1>11. m \in H
  <2> HIDE DEF H, m
  <2>1. 0 .. m \subseteq H
    BY <1>8, <1>9, <1>10, IntervalInduction
  <2>2. m \in 0 .. m
    BY <1>8
  <2> QED
    BY <2>1, <2>2
<1>12. PICK r \in Seq(T) : g[d + n + m] = q \o r
  BY <1>11 DEF Starts
<1>13. d + n + m = N
  BY <1>1
<1>14. Squeeze(u) = g[N] /\ Squeeze(w) = h[n]
  BY <1>2, <1>3 DEF SqueezeRun
<1> HIDE DEF p, q, m
<1>15. Squeeze(u) = (p \o Squeeze(w)) \o r
  BY <1>7, <1>12, <1>13, <1>14 DEF q
<1> QED
  BY <1>4, <1>12, <1>15 DEF u, w, Around

\* A text that begins and ends with ink needs no strip() to be normalised.
LEMMA NormaliseOfInk ==
  ASSUME NEW T, Space \in T, Newline \in T, NEW text \in Seq(T), text # <<>>,
         ~IsWhite(text[1]), ~IsWhite(text[Len(text)])
  PROVE  normalise(text) = Squeeze(text) /\ Squeeze(text) \in Seq(T) /\ Squeeze(text) # <<>>
<1> DEFINE n == Len(text)
<1>1. n \in Nat /\ n >= 1 /\ DOMAIN text = 1 .. n /\ \A k \in 1 .. n : text[k] \in T
  OBVIOUS
<1> HIDE DEF n
<1>2. PICK h : SqueezeRun(h, T, text, n)
  BY <1>1, SqueezeRuns
<1> DEFINE G == {k \in 0 .. n : k > 0 => h[k] # <<>> /\ h[k][1] = text[1]}
<1>3. 0 \in G
  BY <1>1
<1>4. ASSUME NEW k \in 1 .. n, k - 1 \in G PROVE k \in G
  <2>1. k - 1 \in 0 .. n /\ text[k] \in T
    BY <1>1
  <2>2. h[k] = Squeezed(h[k - 1], text[k]) /\ h[k - 1] \in Seq(T)
    BY <1>2, <2>1 DEF SqueezeRun
  <2>3. CASE k = 1
    <3>1. h[0] = <<>>
      BY <1>2 DEF SqueezeRun
    <3>2. h[1] = Append(<<>>, text[1])
      BY <2>2, <2>3, <3>1 DEF Squeezed
    <3>3. <<>> \in Seq(T) /\ Len(<<>>) = 0 /\ text[1] \in T
      BY <2>1, <2>3
    <3>4. h[1] # <<>> /\ h[1][0 + 1] = text[1]
      BY <3>2, <3>3, AppendProperties
    <3> QED
      BY <1>1, <2>3, <3>4
  <2>4. CASE k # 1
    <3>1. h[k - 1] # <<>> /\ h[k - 1][1] = text[1]
      BY <1>4, <2>4
    <3>2. h[k] \in {h[k - 1], Append(h[k - 1], text[k]), Append(h[k - 1], Space)}
      BY <2>2 DEF Squeezed
    <3> DEFINE done == h[k - 1]
    <3>3. done \in Seq(T) /\ done # <<>> /\ done[1] = text[1]
      BY <2>2, <3>1
    <3> HIDE DEF done
    <3>4. \A x \in T : Append(done, x) # <<>> /\ Append(done, x)[1] = text[1]
      BY <3>3
    <3>5. h[k] # <<>> /\ h[k][1] = text[1]
      BY <2>1, <3>2, <3>3, <3>4 DEF done
    <3> QED
      BY <3>5
  <2> QED
    BY <2>3, <2>4
<1>5. n \in G
  <2> HIDE DEF G
  <2>1. 0 .. n \subseteq G
    BY <1>1, <1>3, <1>4, IntervalInduction
  <2> QED
    BY <1>1, <2>1
<1>6. Squeeze(text) = h[n] /\ h[n] \in Seq(T) /\ h[n] # <<>> /\ h[n][1] = text[1]
  BY <1>1, <1>2, <1>5 DEF SqueezeRun
<1>7. ~IsWhite(h[n][Len(h[n])])
  <2>1. n - 1 \in 0 .. n /\ n \in 1 .. n
    BY <1>1
  <2>2. h[n] = Squeezed(h[n - 1], text[n]) /\ h[n - 1] \in Seq(T)
    BY <1>2, <2>1 DEF SqueezeRun
  <2>3. h[n] = Append(h[n - 1], text[n])
    BY <2>2 DEF Squeezed, n
  <2>4. h[n][Len(h[n])] = text[n]
    BY <1>1, <2>1, <2>2, <2>3
  <2> QED
    BY <2>4 DEF n
<1>8. Strip(h[n]) = h[n]
  BY <1>6, <1>7, StripOfInk
<1> QED
  BY <1>6, <1>8 DEF normalise

\* A value that is part of another one is found in it, however both are spaced.
LEMMA PartOccurs ==
  ASSUME NEW T, Space \in T, Newline \in T, NEW text \in Seq(T),
         NEW first \in Int, NEW last \in Int, NEW i \in Int, NEW j \in Int,
         1 <= first, first <= i, i <= j, j <= last, last <= Len(text),
         ~IsWhite(text[first]), ~IsWhite(text[last]), ~IsWhite(text[i]), ~IsWhite(text[j])
  PROVE  Occurs(normalise(SubSeq(text, i, j)), normalise(SubSeq(text, first, last)))
<1> DEFINE u == SubSeq(text, first, last)
           w == SubSeq(text, i, j)
<1>1. /\ u \in Seq(T) /\ u # <<>> /\ u[1] = text[first] /\ u[Len(u)] = text[last]
      /\ w \in Seq(T) /\ w # <<>> /\ w[1] = text[i] /\ w[Len(w)] = text[j]
  OBVIOUS
<1>2. PICK p, r \in Seq(T) : Squeeze(u) = (p \o Squeeze(w)) \o r
  <2>1. Around(T, Squeeze(SubSeq(text, i, j)), Squeeze(SubSeq(text, first, last)))
    BY SqueezedPart
  <2> QED
    BY <2>1 DEF Around
<1> HIDE DEF u, w
<1>3. normalise(u) = Squeeze(u)
  BY <1>1, NormaliseOfInk
<1>4. normalise(w) = Squeeze(w) /\ Squeeze(w) \in Seq(T) /\ Squeeze(w) # <<>>
  BY <1>1, NormaliseOfInk
<1> DEFINE q == Squeeze(w)
           t == (p \o q) \o r
           k == Len(p) + 1
<1>5. k \in DOMAIN t /\ k + Len(q) - 1 = Len(p) + Len(q) /\ Len(p) + Len(q) <= Len(t)
  <2> HIDE DEF q
  <2>1. q \in Seq(T) /\ q # <<>>
    BY <1>4 DEF q
  <2> QED
    BY <2>1
<1>6. SubSeq(t, k, Len(p) + Len(q)) = q
  <2> HIDE DEF q
  <2>1. q \in Seq(T)
    BY <1>4 DEF q
  <2> QED
    BY <2>1
<1>7. Occurs(q, t)
  <2> HIDE DEF q, t, k
  <2> QED
    BY <1>5, <1>6 DEF Occurs, MatchesAt
<1> QED
  BY <1>2, <1>3, <1>4, <1>7 DEF u, w

-------------------------------------------------------------------------------
(* The folds of _clean_pdf_text, as runs *)

\* The line end of two symbols is one of them too many.
IsKept(text, i) ==
  i \in {j \in DOMAIN text : ~(text[j] = Return /\ j < Len(text) /\ text[j + 1] = Newline)}
\* What one symbol of a PDF text becomes: \r is a newline, \xa0 a space.
Converted(s) == IF s = Return THEN Newline ELSE IF s = NoBreak THEN Space ELSE s

\* UnixLines, one position after the other.
UnixRun(f, T, text, n) ==
  /\ f \in [0 .. n -> Seq(T)]
  /\ f[0] = <<>> /\ f[n] = UnixLines(text)
  /\ \A k \in 1 .. n : f[k] = (IF IsKept(text, k) THEN Append(f[k - 1], Converted(text[k])) ELSE f[k - 1])

\* Converting the line ends is a run over the symbols of the text.
LEMMA UnixRuns ==
  ASSUME NEW T, Space \in T, Newline \in T, NEW text, NEW n \in Nat,
         DOMAIN text = 1 .. n, \A i \in 1 .. n : text[i] \in T
  PROVE  \E f : UnixRun(f, T, text, n)
<1> DEFINE entry == [i \in 1 .. n |-> i]
           A == Seq(T)
           base == <<>>
           Step(done, next) == (IF IsKept(text, next) THEN Append(done, Converted(text[next])) ELSE done)
           o == [p \in A \X (1 .. n) |-> Step(p[1], entry[p[2]])]
           Iterates(g) == g = [s \in SUBSET (1 .. n) |-> IF s = {} THEN base
                                 ELSE Step(g[s \ {Max(s)}], entry[Max(s)])]
           it == CHOOSE g : Iterates(g)
           f == [k \in 0 .. n |-> it[1 .. k]]
<1>1. base \in A
  OBVIOUS
<1>2. \A a \in A, i \in 1 .. n : Step(a, entry[i]) \in A
  <2> TAKE a \in A, i \in 1 .. n
  <2>1. Converted(text[i]) \in T /\ entry[i] = i
    BY DEF Converted
  <2> HIDE DEF entry
  <2> QED
    BY <2>1
<1>3. UnixLines(text) = it[1 .. n]
  BY DEF UnixLines, IsKept, Converted, FoldLeft, MapThenFoldSet
<1> HIDE DEF A, base, Step
<1>4. o \in FoldSteps(A, n)
      /\ \A a \in A, i \in 1 .. n : o[<<a, i>>] = Step(a, entry[i])
  BY <1>2 DEF FoldSteps
<1> HIDE DEF o, it, f, entry
<1>5. PICK g : IsFold(g, A, base, n, o)
  BY <1>1, <1>4, FoldExists
<1>6. Iterates(it)
  <2>1. \A s \in SUBSET (1 .. n) : s # {} => g[s \ {Max(s)}] \in A /\ Max(s) \in 1 .. n
    BY <1>5, FoldValues
  <2>2. Iterates(g)
    BY <1>4, <1>5, <2>1 DEF IsFold
  <2> HIDE DEF Iterates
  <2> QED
    BY <2>2 DEF it
<1>7. /\ it[{}] = base
      /\ \A s \in SUBSET (1 .. n) :
           s # {} /\ it[s \ {Max(s)}] \in A => it[s] = o[<<it[s \ {Max(s)}], Max(s)>>]
  BY <1>4, <1>6, MaxOfRange
<1> HIDE DEF Iterates
<1>8. IsRun(f, A, base, n, o)
  BY <1>1, <1>4, <1>7, FoldRuns DEF f
<1>9. f \in [0 .. n -> A] /\ f[0] = base /\ f[n] = UnixLines(text)
  BY <1>3, <1>8 DEF f, IsRun
<1>10. ASSUME NEW k \in 1 .. n PROVE f[k] = Step(f[k - 1], k)
  <2>1. k - 1 \in 0 .. n /\ f[k] = o[<<f[k - 1], k>>]
    BY <1>8 DEF IsRun
  <2>2. entry[k] = k
    BY DEF entry
  <2> QED
    BY <1>4, <1>9, <2>1, <2>2
<1> QED
  BY <1>9, <1>10 DEF A, base, Step, UnixRun

\* The hyphen of a word that goes on in the next line.
Joint(text, i) ==
  /\ i > 1 /\ i + 2 <= Len(text)
  /\ IsWord(text[i - 1]) /\ text[i] = Hyphen
  /\ text[i + 1] = Newline /\ IsWord(text[i + 2])

\* Dehyphenated, one position after the other.
DehyphenatedRun(f, T, text, n) ==
  /\ f \in [0 .. n -> Seq(T)]
  /\ f[0] = <<>> /\ f[n] = Dehyphenated(text)
  /\ \A k \in 1 .. n : f[k] = (IF Joint(text, k) \/ (k > 1 /\ Joint(text, k - 1)) THEN f[k - 1] ELSE Append(f[k - 1], text[k]))

\* Joining the words cut at a line end is a run over the symbols of the text.
LEMMA DehyphenatedRuns ==
  ASSUME NEW T, Space \in T, Newline \in T, NEW text, NEW n \in Nat,
         DOMAIN text = 1 .. n, \A i \in 1 .. n : text[i] \in T
  PROVE  \E f : DehyphenatedRun(f, T, text, n)
<1> DEFINE entry == [i \in 1 .. n |-> i]
           A == Seq(T)
           base == <<>>
           Step(done, next) == (IF Joint(text, next) \/ (next > 1 /\ Joint(text, next - 1)) THEN done ELSE Append(done, text[next]))
           o == [p \in A \X (1 .. n) |-> Step(p[1], entry[p[2]])]
           Iterates(g) == g = [s \in SUBSET (1 .. n) |-> IF s = {} THEN base
                                 ELSE Step(g[s \ {Max(s)}], entry[Max(s)])]
           it == CHOOSE g : Iterates(g)
           f == [k \in 0 .. n |-> it[1 .. k]]
<1>1. base \in A
  OBVIOUS
<1>2. \A a \in A, i \in 1 .. n : Step(a, entry[i]) \in A
  <2> TAKE a \in A, i \in 1 .. n
  <2>1. text[i] \in T /\ entry[i] = i
    OBVIOUS
  <2> HIDE DEF entry
  <2> QED
    BY <2>1
<1>3. Dehyphenated(text) = it[1 .. n]
  BY DEF Dehyphenated, Joint, FoldLeft, MapThenFoldSet
<1> HIDE DEF A, base, Step
<1>4. o \in FoldSteps(A, n)
      /\ \A a \in A, i \in 1 .. n : o[<<a, i>>] = Step(a, entry[i])
  BY <1>2 DEF FoldSteps
<1> HIDE DEF o, it, f, entry
<1>5. PICK g : IsFold(g, A, base, n, o)
  BY <1>1, <1>4, FoldExists
<1>6. Iterates(it)
  <2>1. \A s \in SUBSET (1 .. n) : s # {} => g[s \ {Max(s)}] \in A /\ Max(s) \in 1 .. n
    BY <1>5, FoldValues
  <2>2. Iterates(g)
    BY <1>4, <1>5, <2>1 DEF IsFold
  <2> HIDE DEF Iterates
  <2> QED
    BY <2>2 DEF it
<1>7. /\ it[{}] = base
      /\ \A s \in SUBSET (1 .. n) :
           s # {} /\ it[s \ {Max(s)}] \in A => it[s] = o[<<it[s \ {Max(s)}], Max(s)>>]
  BY <1>4, <1>6, MaxOfRange
<1> HIDE DEF Iterates
<1>8. IsRun(f, A, base, n, o)
  BY <1>1, <1>4, <1>7, FoldRuns DEF f
<1>9. f \in [0 .. n -> A] /\ f[0] = base /\ f[n] = Dehyphenated(text)
  BY <1>3, <1>8 DEF f, IsRun
<1>10. ASSUME NEW k \in 1 .. n PROVE f[k] = Step(f[k - 1], k)
  <2>1. k - 1 \in 0 .. n /\ f[k] = o[<<f[k - 1], k>>]
    BY <1>8 DEF IsRun
  <2>2. entry[k] = k
    BY DEF entry
  <2> QED
    BY <1>4, <1>9, <2>1, <2>2
<1> QED
  BY <1>9, <1>10 DEF A, base, Step, DehyphenatedRun

\* What Lines does with one more symbol.
Broken(done, s) ==
  IF s = Newline THEN Append(done, <<>>) ELSE [done EXCEPT ![Len(done)] = Append(@, s)]

\* Lines, one symbol after the other.
LinesRun(f, T, text, n) ==
  /\ f \in [0 .. n -> (Seq(Seq(T)) \ {<<>>})]
  /\ f[0] = << <<>> >> /\ f[n] = Lines(text)
  /\ \A k \in 1 .. n : f[k] = Broken(f[k - 1], text[k])

\* split("\n") is a run over the symbols of the text.
LEMMA LinesRuns ==
  ASSUME NEW T, Space \in T, Newline \in T, NEW text, NEW n \in Nat,
         DOMAIN text = 1 .. n, \A i \in 1 .. n : text[i] \in T
  PROVE  \E f : LinesRun(f, T, text, n)
<1> DEFINE A == (Seq(Seq(T)) \ {<<>>})
           base == << <<>> >>
           Step(done, next) == Broken(done, next)
           o == [p \in A \X (1 .. n) |-> Step(p[1], text[p[2]])]
           Iterates(g) == g = [s \in SUBSET (1 .. n) |-> IF s = {} THEN base
                                 ELSE Step(g[s \ {Max(s)}], text[Max(s)])]
           it == CHOOSE g : Iterates(g)
           f == [k \in 0 .. n |-> it[1 .. k]]
<1>1. base \in A
  OBVIOUS
<1>2. \A a \in A, i \in 1 .. n : Step(a, text[i]) \in A
  BY DEF Broken
<1>3. Lines(text) = it[1 .. n]
  BY DEF Lines, Broken, FoldLeft, MapThenFoldSet
<1> HIDE DEF A, base, Step
<1>4. o \in FoldSteps(A, n)
      /\ \A a \in A, i \in 1 .. n : o[<<a, i>>] = Step(a, text[i])
  BY <1>2 DEF FoldSteps
<1> HIDE DEF o, it, f
<1>5. PICK g : IsFold(g, A, base, n, o)
  BY <1>1, <1>4, FoldExists
<1>6. Iterates(it)
  <2>1. \A s \in SUBSET (1 .. n) : s # {} => g[s \ {Max(s)}] \in A /\ Max(s) \in 1 .. n
    BY <1>5, FoldValues
  <2>2. Iterates(g)
    BY <1>4, <1>5, <2>1 DEF IsFold
  <2> HIDE DEF Iterates
  <2> QED
    BY <2>2 DEF it
<1>7. /\ it[{}] = base
      /\ \A s \in SUBSET (1 .. n) :
           s # {} /\ it[s \ {Max(s)}] \in A => it[s] = o[<<it[s \ {Max(s)}], Max(s)>>]
  BY <1>4, <1>6, MaxOfRange
<1> HIDE DEF Iterates
<1>8. IsRun(f, A, base, n, o)
  BY <1>1, <1>4, <1>7, FoldRuns DEF f
<1>9. f \in [0 .. n -> A] /\ f[0] = base /\ f[n] = Lines(text)
  BY <1>3, <1>8 DEF f, IsRun
<1>10. ASSUME NEW k \in 1 .. n PROVE f[k] = Step(f[k - 1], text[k])
  <2>1. k - 1 \in 0 .. n /\ f[k] = o[<<f[k - 1], k>>]
    BY <1>8 DEF IsRun
  <2> QED
    BY <1>4, <1>9, <2>1
<1> QED
  BY <1>9, <1>10 DEF A, base, Step, LinesRun

\* What Parts does with one more symbol.
WithPart(done, s) == IF IsWhite(s) THEN done ELSE Append(done, s)

\* Parts, one symbol after the other.
PartsRun(f, T, text, n) ==
  /\ f \in [0 .. n -> Seq(T)]
  /\ f[0] = <<>> /\ f[n] = Parts(text)
  /\ \A k \in 1 .. n : f[k] = WithPart(f[k - 1], text[k])

\* Collecting the words of a text is a run over its symbols.
LEMMA PartsRuns ==
  ASSUME NEW T, Space \in T, Newline \in T, NEW text, NEW n \in Nat,
         DOMAIN text = 1 .. n, \A i \in 1 .. n : text[i] \in T
  PROVE  \E f : PartsRun(f, T, text, n)
<1> DEFINE A == Seq(T)
           base == <<>>
           Step(done, next) == WithPart(done, next)
           o == [p \in A \X (1 .. n) |-> Step(p[1], text[p[2]])]
           Iterates(g) == g = [s \in SUBSET (1 .. n) |-> IF s = {} THEN base
                                 ELSE Step(g[s \ {Max(s)}], text[Max(s)])]
           it == CHOOSE g : Iterates(g)
           f == [k \in 0 .. n |-> it[1 .. k]]
<1>1. base \in A
  OBVIOUS
<1>2. \A a \in A, i \in 1 .. n : Step(a, text[i]) \in A
  BY DEF WithPart
<1>3. Parts(text) = it[1 .. n]
  BY DEF Parts, WithPart, FoldLeft, MapThenFoldSet
<1> HIDE DEF A, base, Step
<1>4. o \in FoldSteps(A, n)
      /\ \A a \in A, i \in 1 .. n : o[<<a, i>>] = Step(a, text[i])
  BY <1>2 DEF FoldSteps
<1> HIDE DEF o, it, f
<1>5. PICK g : IsFold(g, A, base, n, o)
  BY <1>1, <1>4, FoldExists
<1>6. Iterates(it)
  <2>1. \A s \in SUBSET (1 .. n) : s # {} => g[s \ {Max(s)}] \in A /\ Max(s) \in 1 .. n
    BY <1>5, FoldValues
  <2>2. Iterates(g)
    BY <1>4, <1>5, <2>1 DEF IsFold
  <2> HIDE DEF Iterates
  <2> QED
    BY <2>2 DEF it
<1>7. /\ it[{}] = base
      /\ \A s \in SUBSET (1 .. n) :
           s # {} /\ it[s \ {Max(s)}] \in A => it[s] = o[<<it[s \ {Max(s)}], Max(s)>>]
  BY <1>4, <1>6, MaxOfRange
<1> HIDE DEF Iterates
<1>8. IsRun(f, A, base, n, o)
  BY <1>1, <1>4, <1>7, FoldRuns DEF f
<1>9. f \in [0 .. n -> A] /\ f[0] = base /\ f[n] = Parts(text)
  BY <1>3, <1>8 DEF f, IsRun
<1>10. ASSUME NEW k \in 1 .. n PROVE f[k] = Step(f[k - 1], text[k])
  <2>1. k - 1 \in 0 .. n /\ f[k] = o[<<f[k - 1], k>>]
    BY <1>8 DEF IsRun
  <2> QED
    BY <1>4, <1>9, <2>1
<1> QED
  BY <1>9, <1>10 DEF A, base, Step, PartsRun

\* What Joined does with one more line.
Under(text, line) == text \o <<Newline>> \o line

\* Joined, one line after the other.
JoinedRun(f, T, lines, rest, n) ==
  /\ f \in [0 .. n -> Seq(T)]
  /\ f[0] = Head(lines) /\ f[n] = Joined(lines)
  /\ \A k \in 1 .. n : f[k] = Under(f[k - 1], rest[k])

\* "\n".join(lines) is a run over the lines after the first.
LEMMA JoinedRuns ==
  ASSUME NEW T, Newline \in T, NEW lines, Head(lines) \in Seq(T), NEW rest, rest = Tail(lines),
         NEW n \in Nat, DOMAIN rest = 1 .. n, \A i \in 1 .. n : rest[i] \in Seq(T)
  PROVE  \E f : JoinedRun(f, T, lines, rest, n)
<1> DEFINE A == Seq(T)
           base == Head(lines)
           Step(done, next) == Under(done, next)
           o == [p \in A \X (1 .. n) |-> Step(p[1], rest[p[2]])]
           Iterates(g) == g = [s \in SUBSET (1 .. n) |-> IF s = {} THEN base
                                 ELSE Step(g[s \ {Max(s)}], rest[Max(s)])]
           it == CHOOSE g : Iterates(g)
           f == [k \in 0 .. n |-> it[1 .. k]]
<1>1. base \in A
  OBVIOUS
<1>2. \A a \in A, i \in 1 .. n : Step(a, rest[i]) \in A
  BY DEF Under
<1>3. Joined(lines) = it[1 .. n]
  BY DEF Joined, Under, FoldLeft, MapThenFoldSet
<1> HIDE DEF A, base, Step
<1>4. o \in FoldSteps(A, n)
      /\ \A a \in A, i \in 1 .. n : o[<<a, i>>] = Step(a, rest[i])
  BY <1>2 DEF FoldSteps
<1> HIDE DEF o, it, f
<1>5. PICK g : IsFold(g, A, base, n, o)
  BY <1>1, <1>4, FoldExists
<1>6. Iterates(it)
  <2>1. \A s \in SUBSET (1 .. n) : s # {} => g[s \ {Max(s)}] \in A /\ Max(s) \in 1 .. n
    BY <1>5, FoldValues
  <2>2. Iterates(g)
    BY <1>4, <1>5, <2>1 DEF IsFold
  <2> HIDE DEF Iterates
  <2> QED
    BY <2>2 DEF it
<1>7. /\ it[{}] = base
      /\ \A s \in SUBSET (1 .. n) :
           s # {} /\ it[s \ {Max(s)}] \in A => it[s] = o[<<it[s \ {Max(s)}], Max(s)>>]
  BY <1>4, <1>6, MaxOfRange
<1> HIDE DEF Iterates
<1>8. IsRun(f, A, base, n, o)
  BY <1>1, <1>4, <1>7, FoldRuns DEF f
<1>9. f \in [0 .. n -> A] /\ f[0] = base /\ f[n] = Joined(lines)
  BY <1>3, <1>8 DEF f, IsRun
<1>10. ASSUME NEW k \in 1 .. n PROVE f[k] = Step(f[k - 1], rest[k])
  <2>1. k - 1 \in 0 .. n /\ f[k] = o[<<f[k - 1], k>>]
    BY <1>8 DEF IsRun
  <2> QED
    BY <1>4, <1>9, <2>1
<1> QED
  BY <1>9, <1>10 DEF A, base, Step, JoinedRun

\* What CleanLines does with one more line.
PageEnds(lines, i) == {j \in i .. Len(lines) : IsPageNumber(Joined(SubSeq(lines, i, j)))}

\* What the loop of _clean_pdf_text does with line i: skip it, or drop the page number that
\* begins there, or keep it.
CleanStep(lines, done, i) ==
  IF i <= done.upto THEN done
  ELSE IF PageEnds(lines, i) # {}
  THEN [kept |-> WithLine(done.kept, <<>>), upto |-> Max(PageEnds(lines, i))]
  ELSE [kept |-> WithLine(done.kept, normalise(lines[i])), upto |-> i]

\* CleanLines, one line after the other.
CleanRun(f, T, lines, n) ==
  /\ f \in [0 .. n -> [kept : Seq(Seq(T)), upto : Nat]]
  /\ f[0] = [kept |-> <<>>, upto |-> 0] /\ f[n].kept = CleanLines(lines)
  /\ \A k \in 1 .. n : f[k] = CleanStep(lines, f[k - 1], k)

\* A step of the loop keeps lines of symbols, and a position.
LEMMA CleanStepTyped ==
  ASSUME NEW T, Space \in T, Newline \in T, NEW lines, NEW n \in Nat,
         DOMAIN lines = 1 .. n, Len(lines) = n, \A i \in 1 .. n : lines[i] \in Seq(T),
         NEW done \in [kept : Seq(Seq(T)), upto : Nat], NEW i \in 1 .. n
  PROVE  CleanStep(lines, done, i) \in [kept : Seq(Seq(T)), upto : Nat]
<1>1. lines[i] \in Seq(T) /\ <<>> \in Seq(T) /\ done.kept \in Seq(Seq(T))
  OBVIOUS
<1>2. normalise(lines[i]) \in Seq(T)
  BY <1>1, NormaliseTyped
<1>3. \A line \in Seq(T) : WithLine(done.kept, line) \in Seq(Seq(T))
  BY <1>1 DEF WithLine
<1>4. PageEnds(lines, i) # {} => Max(PageEnds(lines, i)) \in Nat
  <2>1. PageEnds(lines, i) \in SUBSET (1 .. n) /\ 1 .. n \subseteq Nat
    BY DEF PageEnds
  <2> QED
    BY <2>1, MaxOfRange
<1> DEFINE A == [kept : Seq(Seq(T)), upto : Nat]
<1>5. \A kept \in Seq(Seq(T)), upto \in Nat : [kept |-> kept, upto |-> upto] \in A
  OBVIOUS
<1>6. CASE PageEnds(lines, i) = {}
  <2>1. [kept |-> WithLine(done.kept, normalise(lines[i])), upto |-> i] \in A
    <3> HIDE DEF A
    <3> QED
      BY <1>2, <1>3, <1>5
  <2> HIDE DEF A
  <2> QED
    BY <1>6, <2>1 DEF CleanStep, A
<1>7. CASE PageEnds(lines, i) # {}
  <2>1. [kept |-> WithLine(done.kept, <<>>), upto |-> Max(PageEnds(lines, i))] \in A
    <3> HIDE DEF A
    <3> QED
      BY <1>1, <1>3, <1>4, <1>5, <1>7
  <2> HIDE DEF A
  <2> QED
    BY <1>7, <2>1 DEF CleanStep, A
<1> QED
  BY <1>6, <1>7

\* _clean_pdf_text is a run over the lines of the text.
LEMMA CleanRuns ==
  ASSUME NEW T, Space \in T, Newline \in T, NEW lines \in Seq(Seq(T))
  PROVE  \E f : CleanRun(f, T, lines, Len(lines))
<1> DEFINE n == Len(lines)
<1>0. n \in Nat
  OBVIOUS
<1>2. DOMAIN lines = 1 .. n /\ Len(lines) = n /\ \A i \in 1 .. n : lines[i] \in Seq(T)
  OBVIOUS
<1> HIDE DEF n
<1> DEFINE entry == [i \in 1 .. n |-> i]
           A == [kept : Seq(Seq(T)), upto : Nat]
           base == [kept |-> <<>>, upto |-> 0]
           Step(done, next) == CleanStep(lines, done, next)
           o == [p \in A \X (1 .. n) |-> Step(p[1], entry[p[2]])]
           Iterates(g) == g = [s \in SUBSET (1 .. n) |-> IF s = {} THEN base
                                 ELSE Step(g[s \ {Max(s)}], entry[Max(s)])]
           it == CHOOSE g : Iterates(g)
           f == [k \in 0 .. n |-> it[1 .. k]]
<1>1. base \in A
  OBVIOUS
<1>3. \A a \in A, i \in 1 .. n : Step(a, entry[i]) \in A
  <2> TAKE a \in A, i \in 1 .. n
  <2>1. CleanStep(lines, a, i) \in A
    BY <1>0, <1>2, CleanStepTyped
  <2>2. entry[i] = i
    OBVIOUS
  <2> HIDE DEF A, entry
  <2> QED
    BY <2>1, <2>2
<1>4. CleanLines(lines) = it[1 .. n].kept
  BY <1>2 DEF CleanLines, CleanStep, PageEnds, FoldLeft, MapThenFoldSet
<1> HIDE DEF A, base, Step
<1>5. o \in FoldSteps(A, n)
      /\ \A a \in A, i \in 1 .. n : o[<<a, i>>] = Step(a, entry[i])
  BY <1>3 DEF FoldSteps
<1> HIDE DEF o, it, f, entry
<1>6. PICK g : IsFold(g, A, base, n, o)
  BY <1>0, <1>1, <1>5, FoldExists
<1>7. Iterates(it)
  <2>1. \A s \in SUBSET (1 .. n) : s # {} => g[s \ {Max(s)}] \in A /\ Max(s) \in 1 .. n
    BY <1>0, <1>6, FoldValues
  <2>2. Iterates(g)
    BY <1>5, <1>6, <2>1 DEF IsFold
  <2> HIDE DEF Iterates
  <2> QED
    BY <2>2 DEF it
<1>8. /\ it[{}] = base
      /\ \A s \in SUBSET (1 .. n) :
           s # {} /\ it[s \ {Max(s)}] \in A => it[s] = o[<<it[s \ {Max(s)}], Max(s)>>]
  BY <1>0, <1>5, <1>7, MaxOfRange
<1> HIDE DEF Iterates
<1>9. IsRun(f, A, base, n, o)
  BY <1>0, <1>1, <1>5, <1>8, FoldRuns DEF f
<1>10. f \in [0 .. n -> A] /\ f[0] = base /\ f[n].kept = CleanLines(lines)
  BY <1>0, <1>4, <1>9 DEF f, IsRun
<1>11. ASSUME NEW k \in 1 .. n PROVE f[k] = Step(f[k - 1], k)
  <2>1. k - 1 \in 0 .. n /\ f[k] = o[<<f[k - 1], k>>]
    BY <1>0, <1>9 DEF IsRun
  <2>2. entry[k] = k
    BY DEF entry
  <2> QED
    BY <1>0, <1>5, <1>10, <2>1, <2>2
<1> QED
  BY <1>10, <1>11 DEF A, base, Step, CleanRun, n

-------------------------------------------------------------------------------
(* Page numbers do not depend on white space *)

\* Sequences: what is appended, and what is cut and put together again.
LEMMA CutInTwo ==
  ASSUME NEW T, NEW text \in Seq(T), NEW i \in 0 .. Len(text)
  PROVE  /\ text = SubSeq(text, 1, i) \o SubSeq(text, i + 1, Len(text))
         /\ SubSeq(text, 1, i) \in Seq(T) /\ SubSeq(text, i + 1, Len(text)) \in Seq(T)
<1> DEFINE a == SubSeq(text, 1, i)
           b == SubSeq(text, i + 1, Len(text))
           n == Len(text)
<1>1. a \in Seq(T) /\ b \in Seq(T) /\ Len(a) = i /\ Len(b) = n - i /\ n \in Nat /\ i \in 0 .. n
  OBVIOUS
<1>2. /\ \A k \in 1 .. i : a[k] = text[k]
      /\ \A k \in 1 .. n - i : b[k] = text[i + k]
  OBVIOUS
<1>3. text \in Seq(T) /\ Len(text) = n
  OBVIOUS
<1> HIDE DEF a, b, n
<1>4. a \o b \in Seq(T) /\ Len(a \o b) = n
  BY <1>1
<1>5. ASSUME NEW k \in 1 .. n PROVE (a \o b)[k] = text[k]
  <2>1. CASE k <= i
    BY <1>1, <1>2, <2>1
  <2>2. CASE k > i
    <3>1. ~(k <= i) /\ k - i \in 1 .. n - i /\ i + (k - i) = k /\ k \in 1 .. Len(a) + Len(b)
      BY <1>1, <2>2
    <3>2. (a \o b)[k] = b[k - i]
      BY <1>1, <3>1, ConcatProperties
    <3> QED
      BY <1>2, <3>1, <3>2
  <2>3. k <= i \/ k > i
    BY <1>1
  <2> QED
    BY <2>1, <2>2, <2>3
<1>6. a \o b = text
  BY <1>3, <1>4, <1>5, SeqEqual
<1> QED
  BY <1>1, <1>6 DEF a, b, n

\* A sequence is what stands before a part of it, the part, and what stands after it.
LEMMA CutInThree ==
  ASSUME NEW T, NEW text \in Seq(T), NEW first \in 1 .. Len(text), NEW last \in 1 .. Len(text),
         first <= last
  PROVE  /\ text = (SubSeq(text, 1, first - 1) \o SubSeq(text, first, last))
                     \o SubSeq(text, last + 1, Len(text))
         /\ SubSeq(text, 1, first - 1) \in Seq(T) /\ SubSeq(text, first, last) \in Seq(T)
<1>1. last \in 0 .. Len(text) /\ first - 1 \in 0 .. last /\ (first - 1) + 1 = first
  OBVIOUS
<1> DEFINE head == SubSeq(text, 1, last)
<1>2. text = head \o SubSeq(text, last + 1, Len(text)) /\ head \in Seq(T)
  BY <1>1, CutInTwo
<1>3. Len(head) = last /\ SubSeq(head, 1, first - 1) = SubSeq(text, 1, first - 1)
      /\ SubSeq(head, first, last) = SubSeq(text, first, last)
  OBVIOUS
<1> HIDE DEF head
<1>4. head = SubSeq(head, 1, first - 1) \o SubSeq(head, (first - 1) + 1, Len(head))
  <2>1. first - 1 \in 0 .. Len(head)
    BY <1>1, <1>3
  <2> QED
    BY <1>2, <2>1, CutInTwo
<1>5. SubSeq(text, 1, first - 1) \in Seq(T) /\ SubSeq(text, first, last) \in Seq(T)
  OBVIOUS
<1> QED
  BY <1>1, <1>2, <1>3, <1>4, <1>5

\* One text after another.
Both(p, q) == p \o q

\* Adding a symbol to the words of two texts adds it to those of the second.
LEMMA WithPartOfBoth ==
  ASSUME NEW T, NEW p \in Seq(T), NEW q \in Seq(T), NEW s \in T
  PROVE  WithPart(Both(p, q), s) = Both(p, WithPart(q, s))
BY DEF WithPart, Both

\* What stands in a text without its white space, two texts after each other.
LEMMA PartsTyped ==
  ASSUME NEW T, Space \in T, Newline \in T, NEW text \in Seq(T)
  PROVE  Parts(text) \in Seq(T)
<1> DEFINE n == Len(text)
<1>1. n \in Nat /\ DOMAIN text = 1 .. n /\ \A i \in 1 .. n : text[i] \in T
  OBVIOUS
<1> HIDE DEF n
<1>2. PICK f : PartsRun(f, T, text, n)
  BY <1>1, PartsRuns
<1> QED
  BY <1>1, <1>2 DEF PartsRun

\* The words of two texts, one after the other, are the words of each.
LEMMA PartsOfBoth ==
  ASSUME NEW T, Space \in T, Newline \in T, NEW p \in Seq(T), NEW q \in Seq(T)
  PROVE  Parts(p \o q) = Parts(p) \o Parts(q)
<1> DEFINE n == Len(p)
           m == Len(q)
           t == p \o q
<1>1. /\ n \in Nat /\ DOMAIN p = 1 .. n /\ \A i \in 1 .. n : p[i] \in T
      /\ m \in Nat /\ DOMAIN q = 1 .. m /\ \A i \in 1 .. m : q[i] \in T
  OBVIOUS
<1>2. /\ DOMAIN t = 1 .. n + m /\ n + m \in Nat /\ \A i \in 1 .. n + m : t[i] \in T
      /\ \A i \in 1 .. n : t[i] = p[i] /\ i \in 1 .. n + m
      /\ \A i \in 1 .. m : t[n + i] = q[i] /\ n + i \in 1 .. n + m
  OBVIOUS
<1> HIDE DEF n, m, t
<1>3. PICK g : PartsRun(g, T, t, n + m)
  BY <1>2, PartsRuns
<1>4. PICK h : PartsRun(h, T, p, n)
  BY <1>1, PartsRuns
<1>5. PICK e : PartsRun(e, T, q, m)
  BY <1>1, PartsRuns
<1> DEFINE G == {k \in 0 .. n : g[k] = h[k]}
           H == {k \in 0 .. m : g[n + k] = Both(h[n], e[k])}
<1>6. 0 \in G
  BY <1>1, <1>3, <1>4 DEF PartsRun
<1>7. ASSUME NEW k \in 1 .. n, k - 1 \in G PROVE k \in G
  BY <1>2, <1>3, <1>4, <1>7 DEF PartsRun
<1>8. g[n] = h[n] /\ h[n] \in Seq(T)
  <2>1. 0 .. n \subseteq G
    <3> HIDE DEF G
    <3> QED
      BY <1>1, <1>6, <1>7, IntervalInduction
  <2>2. n \in 0 .. n
    BY <1>1
  <2> QED
    BY <1>4, <2>1, <2>2 DEF PartsRun
<1>9. 0 \in H
  <2>1. n + 0 = n /\ e[0] = <<>> /\ h[n] \o <<>> = h[n] /\ 0 \in 0 .. m
    BY <1>1, <1>5, <1>8 DEF PartsRun
  <2> QED
    BY <1>8, <2>1 DEF Both
<1>10. ASSUME NEW k \in 1 .. m, k - 1 \in H PROVE k \in H
  <2>1. n + k \in 1 .. n + m /\ (n + k) - 1 = n + (k - 1) /\ t[n + k] = q[k] /\ k - 1 \in 0 .. m
        /\ q[k] \in T /\ k \in 0 .. m
    BY <1>1, <1>2
  <2>2. e[k - 1] \in Seq(T)
    BY <1>5, <2>1 DEF PartsRun
  <2>3. g[n + k] = WithPart(g[n + (k - 1)], q[k])
    BY <1>3, <2>1 DEF PartsRun
  <2>4. e[k] = WithPart(e[k - 1], q[k])
    BY <1>5 DEF PartsRun
  <2>5. g[n + (k - 1)] = Both(h[n], e[k - 1])
    BY <1>10
  <2>6. WithPart(Both(h[n], e[k - 1]), q[k]) = Both(h[n], WithPart(e[k - 1], q[k]))
    BY <1>8, <2>1, <2>2, WithPartOfBoth
  <2>7. g[n + k] = Both(h[n], e[k])
    BY <2>3, <2>4, <2>5, <2>6
  <2> QED
    BY <2>1, <2>7
<1>11. g[n + m] = Both(h[n], e[m])
  <2>1. 0 .. m \subseteq H
    <3> HIDE DEF H
    <3> QED
      BY <1>1, <1>9, <1>10, IntervalInduction
  <2>2. m \in 0 .. m
    BY <1>1
  <2> QED
    BY <2>1, <2>2
<1> QED
  BY <1>3, <1>4, <1>5, <1>11 DEF PartsRun, t, Both

\* White space is nothing of it.
LEMMA PartsOfWhite ==
  ASSUME NEW T, Space \in T, Newline \in T, NEW text \in Seq(T),
         \A i \in 1 .. Len(text) : IsWhite(text[i])
  PROVE  Parts(text) = <<>>
<1> DEFINE n == Len(text)
<1>1. n \in Nat /\ DOMAIN text = 1 .. n /\ \A i \in 1 .. n : text[i] \in T /\ IsWhite(text[i])
  OBVIOUS
<1> HIDE DEF n
<1>2. PICK f : PartsRun(f, T, text, n)
  BY <1>1, PartsRuns
<1> DEFINE G == {k \in 0 .. n : f[k] = <<>>}
<1>3. 0 \in G
  BY <1>1, <1>2 DEF PartsRun
<1>4. ASSUME NEW k \in 1 .. n, k - 1 \in G PROVE k \in G
  BY <1>1, <1>2, <1>4 DEF PartsRun, WithPart
<1>5. 0 .. n \subseteq G
  <2> HIDE DEF G
  <2> QED
    BY <1>1, <1>3, <1>4, IntervalInduction
<1>6. n \in 0 .. n
  BY <1>1
<1> QED
  BY <1>2, <1>5, <1>6 DEF PartsRun

\* One more symbol adds one word, unless it is white space.
LEMMA PartsWithMore ==
  ASSUME NEW T, Space \in T, Newline \in T, NEW text \in Seq(T), NEW s \in T
  PROVE  Parts(Append(text, s)) = IF IsWhite(s) THEN Parts(text) ELSE Append(Parts(text), s)
<1> DEFINE one == <<s>>
<1>1. one \in Seq(T) /\ DOMAIN one = 1 .. 1 /\ (\A i \in 1 .. 1 : one[i] \in T) /\ one[1] = s
      /\ Append(text, s) = text \o one
  OBVIOUS
<1>2. Parts(text) \in Seq(T)
  BY PartsTyped
<1> HIDE DEF one
<1>3. Parts(Append(text, s)) = Parts(text) \o Parts(one)
  BY <1>1, PartsOfBoth
<1>4. PICK f : PartsRun(f, T, one, 1)
  BY <1>1, PartsRuns
<1>5. 1 \in 1 .. 1 /\ 1 - 1 = 0
  OBVIOUS
<1>6. Parts(one) = IF IsWhite(s) THEN <<>> ELSE <<s>>
  BY <1>1, <1>4, <1>5 DEF PartsRun, WithPart
<1> QED
  BY <1>2, <1>3, <1>6

\* strip() loses no word.
LEMMA PartsOfStrip ==
  ASSUME NEW T, Space \in T, Newline \in T, NEW text \in Seq(T)
  PROVE  Parts(Strip(text)) = Parts(text)
<1>1. CASE Strip(text) = <<>> /\ \A i \in 1 .. Len(text) : IsWhite(text[i])
  <2>1. Parts(text) = <<>>
    BY <1>1, PartsOfWhite
  <2>2. <<>> \in Seq(T) /\ \A i \in 1 .. Len(<<>>) : IsWhite(<<>>[i])
    OBVIOUS
  <2>3. Parts(<<>>) = <<>>
    BY <2>2, PartsOfWhite
  <2> QED
    BY <1>1, <2>1, <2>3
<1>2. ASSUME NEW first \in 1 .. Len(text), NEW last \in 1 .. Len(text), first <= last,
             Strip(text) = SubSeq(text, first, last),
             \A i \in 1 .. Len(text) : i < first \/ i > last => IsWhite(text[i])
      PROVE  Parts(Strip(text)) = Parts(text)
  <2> DEFINE a == SubSeq(text, 1, first - 1)
             b == SubSeq(text, first, last)
             c == SubSeq(text, last + 1, Len(text))
  <2>1. a \in Seq(T) /\ b \in Seq(T) /\ c \in Seq(T) /\ a \o b \in Seq(T)
    OBVIOUS
  <2>2. text = (a \o b) \o c
    BY <1>2, CutInThree
  <2>3. (\A i \in 1 .. Len(a) : IsWhite(a[i])) /\ (\A i \in 1 .. Len(c) : IsWhite(c[i]))
    BY <1>2
  <2> HIDE DEF a, b, c
  <2>4. Parts(a) = <<>> /\ Parts(c) = <<>>
    BY <2>1, <2>3, PartsOfWhite
  <2>5. Parts((a \o b) \o c) = Parts(a \o b) \o Parts(c) /\ Parts(a \o b) = Parts(a) \o Parts(b)
    BY <2>1, PartsOfBoth
  <2>6. Parts(b) \in Seq(T)
    BY <2>1, PartsTyped
  <2>7. \A p \in Seq(T) : (<<>> \o p) \o <<>> = p
    OBVIOUS
  <2> QED
    BY <1>2, <2>2, <2>4, <2>5, <2>6, <2>7 DEF b
<1> QED
  BY <1>1, <1>2, Stripped

\* Squeezing the white space loses no word.
LEMMA PartsOfSqueeze ==
  ASSUME NEW T, Space \in T, Newline \in T, NEW text \in Seq(T)
  PROVE  Parts(Squeeze(text)) = Parts(text) /\ Squeeze(text) \in Seq(T)
<1> DEFINE n == Len(text)
           from(k) == SubSeq(text, 1, k)
<1>1. /\ n \in Nat /\ DOMAIN text = 1 .. n /\ \A i \in 1 .. n : text[i] \in T
      /\ from(0) = <<>> /\ from(n) = text
      /\ \A k \in 1 .. n : from(k - 1) \in Seq(T) /\ from(k) = Append(from(k - 1), text[k])
  OBVIOUS
<1> HIDE DEF n, from
<1>2. PICK f : SqueezeRun(f, T, text, n)
  BY <1>1, SqueezeRuns
<1> DEFINE G == {k \in 0 .. n : Parts(f[k]) = Parts(from(k))}
<1>3. 0 \in G
  BY <1>1, <1>2 DEF SqueezeRun
<1>4. ASSUME NEW k \in 1 .. n, k - 1 \in G PROVE k \in G
  <2>1. k - 1 \in 0 .. n /\ k \in 0 .. n /\ text[k] \in T /\ IsWhite(Space)
    BY <1>1 DEF IsWhite, White
  <2>2. f[k - 1] \in Seq(T) /\ f[k] = Squeezed(f[k - 1], text[k])
    BY <1>2, <2>1 DEF SqueezeRun
  <2>3. Parts(from(k)) = IF IsWhite(text[k]) THEN Parts(from(k - 1))
                         ELSE Append(Parts(from(k - 1)), text[k])
    BY <1>1, <2>1, PartsWithMore
  <2>4. Parts(Append(f[k - 1], Space)) = Parts(f[k - 1])
    BY <2>1, <2>2, PartsWithMore
  <2>5. ~IsWhite(text[k]) => Parts(Append(f[k - 1], text[k])) = Append(Parts(f[k - 1]), text[k])
    BY <2>1, <2>2, PartsWithMore
  <2>6. Parts(f[k]) = Parts(from(k))
    BY <1>4, <2>2, <2>3, <2>4, <2>5 DEF Squeezed
  <2> QED
    BY <2>1, <2>6
<1>5. 0 .. n \subseteq G
  <2> HIDE DEF G
  <2> QED
    BY <1>1, <1>3, <1>4, IntervalInduction
<1>6. n \in 0 .. n
  BY <1>1
<1> QED
  BY <1>1, <1>2, <1>5, <1>6 DEF SqueezeRun

\* Whether a text is a page number does not depend on its white space.
LEMMA NormalisedPageNumber ==
  ASSUME NEW T, Space \in T, Newline \in T, NEW text \in Seq(T)
  PROVE  IsPageNumber(normalise(text)) <=> IsPageNumber(text)
<1>1. Parts(normalise(text)) = Parts(text)
  BY PartsOfSqueeze, PartsOfStrip DEF normalise
<1> QED
  BY <1>1 DEF IsPageNumber

\* White space that is no line end is one space between two symbols that are
\* none.
Spaced(text) ==
  \A i \in 1 .. Len(text) :
    IsWhite(text[i]) /\ text[i] # Newline =>
      /\ text[i] = Space /\ 1 < i /\ i < Len(text)
      /\ ~IsWhite(text[i - 1]) /\ ~IsWhite(text[i + 1])

\* A text without a line end.
OneLine(text) == \A i \in 1 .. Len(text) : text[i] # Newline

\* White space is spaces, never two of them.
Single(text) ==
  /\ \A i \in 1 .. Len(text) : IsWhite(text[i]) => text[i] = Space
  /\ \A i \in 1 .. Len(text) : i > 1 => ~ (IsWhite(text[i - 1]) /\ IsWhite(text[i]))

\* The four marks of white space are told apart.
LEMMA Marked == IsWhite(Space) /\ IsWhite(Newline) /\ IsWhite(Return) /\ IsWhite(NoBreak)
                /\ Space # Newline /\ Return # Newline /\ NoBreak # Newline
                /\ Return # Space /\ NoBreak # Space
BY DEF IsWhite, White, Space, Newline, Return, NoBreak

\* Squeezing one more symbol in leaves single spaces.
LEMMA SqueezedIsSingle ==
  ASSUME NEW T, Space \in T, NEW done \in Seq(T), Single(done), NEW s \in T
  PROVE  Single(Squeezed(done, s))
<1> DEFINE n == Len(done)
<1>1. n \in Nat /\ \A i \in 1 .. n : done[i] \in T
  OBVIOUS
<1>2. \A x : /\ Len(Append(done, x)) = n + 1 /\ Append(done, x)[n + 1] = x
             /\ \A i \in 1 .. n : Append(done, x)[i] = done[i]
  OBVIOUS
<1>3. \A i \in 1 .. n + 1 : i \in 1 .. n \/ i = n + 1
  BY <1>1
<1>4. \A i \in 1 .. n + 1 : i > 1 => i - 1 \in 1 .. n
  BY <1>1
<1>5. n = 0 \/ n \in 1 .. n
  BY <1>1
<1>6. done # <<>> => Last(done) = done[n] /\ n > 0
  BY DEF Last
<1>7. CASE ~IsWhite(s)
  <2>1. Squeezed(done, s) = Append(done, s)
    BY <1>7 DEF Squeezed
  <2> HIDE DEF n
  <2> QED
    BY <1>2, <1>3, <1>4, <1>7, <2>1 DEF Single, n
<1>8. CASE IsWhite(s)
  <2>1. CASE done # <<>> /\ Last(done) = Space
    BY <1>8, <2>1 DEF Squeezed
  <2>2. CASE ~ (done # <<>> /\ Last(done) = Space)
    <3>1. Squeezed(done, s) = Append(done, Space)
      BY <1>8, <2>2 DEF Squeezed
    <3>2. n > 0 => ~IsWhite(done[n])
      BY <1>1, <1>5, <1>6, <2>2 DEF Single
    <3>3. \A i \in 1 .. n + 1 : IsWhite(Append(done, Space)[i]) => Append(done, Space)[i] = Space
      BY <1>2, <1>3 DEF Single
    <3>4. ASSUME NEW i \in 1 .. n + 1, i > 1
          PROVE  ~ (IsWhite(Append(done, Space)[i - 1]) /\ IsWhite(Append(done, Space)[i]))
      <4>1. CASE i = n + 1
        <5>1. i - 1 = n /\ n > 0 /\ n \in 1 .. n
          BY <1>1, <3>4, <4>1
        <5> QED
          BY <1>2, <3>2, <5>1
      <4>2. CASE i \in 1 .. n
        BY <1>2, <1>4, <3>4, <4>2 DEF Single
      <4> QED
        BY <1>3, <4>1, <4>2
    <3> QED
      BY <1>2, <3>1, <3>3, <3>4 DEF Single
  <2> QED
    BY <2>1, <2>2
<1> QED
  BY <1>7, <1>8

\* A squeezed text has single spaces, and no other white space.
LEMMA SqueezeIsSingle ==
  ASSUME NEW T, Space \in T, Newline \in T, NEW text \in Seq(T)
  PROVE  Single(Squeeze(text))
<1> DEFINE n == Len(text)
<1>1. n \in Nat /\ DOMAIN text = 1 .. n /\ \A i \in 1 .. n : text[i] \in T
  OBVIOUS
<1> HIDE DEF n
<1>2. PICK f : SqueezeRun(f, T, text, n)
  BY <1>1, SqueezeRuns
<1> DEFINE G == {k \in 0 .. n : Single(f[k])}
<1>3. 0 \in G
  <2>1. Single(<<>>)
    BY DEF Single
  <2> QED
    BY <1>1, <1>2, <2>1 DEF SqueezeRun
<1>4. ASSUME NEW k \in 1 .. n, k - 1 \in G PROVE k \in G
  <2>1. k - 1 \in 0 .. n /\ k \in 0 .. n /\ text[k] \in T
    BY <1>1
  <2>2. f[k - 1] \in Seq(T) /\ f[k] = Squeezed(f[k - 1], text[k])
    BY <1>2, <2>1 DEF SqueezeRun
  <2>3. Single(f[k])
    BY <1>4, <2>1, <2>2, SqueezedIsSingle
  <2> QED
    BY <2>1, <2>3
<1>5. 0 .. n \subseteq G
  <2> HIDE DEF G
  <2> QED
    BY <1>1, <1>3, <1>4, IntervalInduction
<1>6. n \in 0 .. n
  BY <1>1
<1> QED
  BY <1>2, <1>5, <1>6 DEF SqueezeRun

\* What normalise makes of a text is one line of words with a space between
\* them, ...
LEMMA NormaliseIsSpaced ==
  ASSUME NEW T, Space \in T, Newline \in T, NEW text \in Seq(T)
  PROVE  Spaced(normalise(text)) /\ OneLine(normalise(text))
<1> DEFINE u == Squeeze(text)
           w == Strip(u)
<1>1. u \in Seq(T) /\ Single(u)
  BY PartsOfSqueeze, SqueezeIsSingle
<1>2. normalise(text) = w
  BY DEF normalise
<1> HIDE DEF u
<1>3. CASE w = <<>>
  BY <1>2, <1>3 DEF Spaced, OneLine
<1>4. ASSUME NEW first \in 1 .. Len(u), NEW last \in 1 .. Len(u), first <= last,
             w = SubSeq(u, first, last), ~IsWhite(u[first]), ~IsWhite(u[last])
      PROVE  Spaced(w) /\ OneLine(w)
  <2> DEFINE n == last - first + 1
  <2>0. /\ first \in Int /\ last \in Int /\ first <= last /\ n \in Nat
        /\ \A i \in first .. last : u[i] \in T
    BY <1>1, <1>4
  <2>1. n \in Nat /\ Len(w) = n /\ \A i \in 1 .. n : w[i] = u[first + i - 1]
    BY <1>4, <2>0, SubSeqProperties
  <2>2. \A i \in 1 .. n : IsWhite(w[i]) => w[i] = Space /\ w[i] # Newline
    <3>1. \A j \in 1 .. Len(u) : IsWhite(u[j]) => u[j] = Space /\ u[j] # Newline
      BY <1>1, Marked DEF Single
    <3>2. \A i \in 1 .. n : first + i - 1 \in 1 .. Len(u)
      BY <1>1, <1>4
    <3> HIDE DEF n, w
    <3> QED
      BY <2>1, <3>1, <3>2
  <2>3. OneLine(w)
    BY <2>1, <2>2, Marked DEF OneLine
  <2>4. ASSUME NEW i \in 1 .. n, IsWhite(w[i])
        PROVE  1 < i /\ i < n /\ ~IsWhite(w[i - 1]) /\ ~IsWhite(w[i + 1])
    <3> HIDE DEF w
    <3>1. first + i - 1 \in 1 .. Len(u) /\ IsWhite(u[first + i - 1])
      BY <1>1, <2>1, <2>4
    <3>2. first + i - 1 # first /\ first + i - 1 # last
      BY <1>4, <3>1
    <3>3. 1 < i /\ i < n /\ first + i \in 1 .. Len(u) /\ (first + i) - 1 = first + i - 1
          /\ i - 1 \in 1 .. n /\ i + 1 \in 1 .. n
          /\ first + (i - 1) - 1 = (first + i - 1) - 1 /\ first + (i + 1) - 1 = first + i
      BY <3>1, <3>2
    <3>4. ~IsWhite(u[(first + i - 1) - 1])
      BY <1>1, <3>1, <3>3 DEF Single
    <3>5. ~IsWhite(u[first + i])
      <4>1. first + i > 1
        BY <3>3
      <4> QED
        BY <1>1, <3>1, <3>3, <4>1 DEF Single
    <3> QED
      BY <2>1, <3>3, <3>4, <3>5
  <2>5. Spaced(w)
    BY <2>1, <2>2, <2>4 DEF Spaced
  <2> QED
    BY <2>3, <2>5
<1> HIDE DEF w
<1>5. \/ w = <<>>
      \/ \E first, last \in 1 .. Len(u) :
           first <= last /\ w = SubSeq(u, first, last) /\ ~IsWhite(u[first]) /\ ~IsWhite(u[last])
  BY <1>1, Stripped DEF w
<1> QED
  BY <1>2, <1>3, <1>4, <1>5

\* ... and of such a text it makes nothing else.
LEMMA SpacedIsNormal ==
  ASSUME NEW T, Space \in T, Newline \in T, NEW line \in Seq(T), Spaced(line), OneLine(line)
  PROVE  normalise(line) = line
<1> DEFINE n == Len(line)
           from(k) == SubSeq(line, 1, k)
<1>1. n \in Nat /\ DOMAIN line = 1 .. n /\ \A i \in 1 .. n : line[i] \in T
  OBVIOUS
<1>2. /\ from(0) = <<>> /\ from(n) = line
      /\ \A k \in 1 .. n : from(k) = Append(from(k - 1), line[k])
      /\ \A k \in 1 .. n : k > 1 => from(k - 1) # <<>> /\ Last(from(k - 1)) = line[k - 1]
  BY DEF Last
<1>3. \A i \in 1 .. n : IsWhite(line[i]) =>
        line[i] = Space /\ 1 < i /\ i < n /\ ~IsWhite(line[i - 1]) /\ ~IsWhite(line[i + 1])
  BY DEF Spaced, OneLine
<1>4. CASE n = 0
  <2>1. Squeeze(line) = line
    <3> HIDE DEF n
    <3>1. PICK f : SqueezeRun(f, T, line, n)
      BY <1>1, SqueezeRuns
    <3> QED
      BY <1>2, <1>4, <3>1 DEF SqueezeRun
  <2>2. \A first, last \in 1 .. Len(line) : FALSE
    BY <1>4
  <2>3. Strip(line) = <<>>
    BY <2>2, Stripped
  <2>4. line = <<>>
    BY <1>4
  <2> QED
    BY <2>1, <2>3, <2>4 DEF normalise
<1>5. CASE n # 0
  <2>1. 1 \in 1 .. n /\ n \in 1 .. n
    BY <1>1, <1>5
  <2>2. line # <<>> /\ ~IsWhite(line[1]) /\ ~IsWhite(line[n])
    BY <1>3, <1>5, <2>1
  <2>3. normalise(line) = Squeeze(line)
    BY <2>2, NormaliseOfInk
  <2> HIDE DEF n, from
  <2>4. PICK f : SqueezeRun(f, T, line, n)
    BY <1>1, SqueezeRuns
  <2> DEFINE G == {k \in 0 .. n : f[k] = from(k)}
  <2>5. 0 \in G
    BY <1>1, <1>2, <2>4 DEF SqueezeRun
  <2>6. ASSUME NEW k \in 1 .. n, k - 1 \in G PROVE k \in G
    <3>1. k - 1 \in 0 .. n /\ k \in 0 .. n /\ (k > 1 => k - 1 \in 1 .. n)
      BY <1>1
    <3>2. f[k] = Squeezed(from(k - 1), line[k])
      BY <2>4, <2>6 DEF SqueezeRun
    <3>3. CASE ~IsWhite(line[k])
      BY <1>2, <3>1, <3>2, <3>3 DEF Squeezed
    <3>4. CASE IsWhite(line[k])
      <4>1. line[k] = Space /\ k > 1 /\ ~IsWhite(line[k - 1])
        BY <1>3, <3>4
      <4>2. Last(from(k - 1)) # Space
        BY <1>2, <4>1, Marked
      <4> QED
        BY <1>2, <3>1, <3>2, <3>4, <4>1, <4>2 DEF Squeezed
    <3> QED
      BY <3>3, <3>4
  <2>7. 0 .. n \subseteq G
    <3> HIDE DEF G
    <3> QED
      BY <1>1, <2>5, <2>6, IntervalInduction
  <2>8. n \in 0 .. n
    BY <1>1
  <2> QED
    BY <1>2, <2>3, <2>4, <2>7, <2>8 DEF SqueezeRun
<1> QED
  BY <1>4, <1>5

-------------------------------------------------------------------------------
(* Page numbers over several lines *)

\* One line joined is the line.
LEMMA JoinedOfOne ==
  ASSUME NEW T, Space \in T, Newline \in T, NEW line \in Seq(T)
  PROVE  Joined(<<line>>) = line
<1> DEFINE lines == <<line>>
           rest == Tail(lines)
<1>1. Head(lines) = line /\ DOMAIN rest = 1 .. 0 /\ rest = Tail(lines)
      /\ \A i \in 1 .. 0 : rest[i] \in Seq(T)
  OBVIOUS
<1> HIDE DEF lines, rest
<1>2. PICK f : JoinedRun(f, T, lines, rest, 0)
  BY <1>1, JoinedRuns
<1> QED
  BY <1>1, <1>2 DEF JoinedRun, lines

\* Lines of symbols are joined into a text of symbols and newlines.
LEMMA JoinedTyped ==
  ASSUME NEW T, Space \in T, Newline \in T, NEW lines \in Seq(Seq(T)), lines # <<>>
  PROVE  Joined(lines) \in Seq(T)
<1> DEFINE rest == Tail(lines)
           n == Len(rest)
<1>1. /\ Head(lines) \in Seq(T) /\ n \in Nat /\ DOMAIN rest = 1 .. n /\ rest = Tail(lines)
      /\ \A i \in 1 .. n : rest[i] \in Seq(T)
  OBVIOUS
<1> HIDE DEF rest, n
<1>2. PICK f : JoinedRun(f, T, lines, rest, n)
  BY <1>1, JoinedRuns
<1>3. n \in 0 .. n
  BY <1>1
<1> QED
  BY <1>2, <1>3 DEF JoinedRun

\* The line joined last stands under the others.
LEMMA JoinedWithMore ==
  ASSUME NEW T, Space \in T, Newline \in T, NEW lines \in Seq(Seq(T)), lines # <<>>, NEW line \in Seq(T)
  PROVE  Joined(Append(lines, line)) = Under(Joined(lines), line)
<1> DEFINE rest == Tail(lines)
           n == Len(rest)
           more == Append(lines, line)
           end == Tail(more)
<1>1. /\ Head(lines) \in Seq(T) /\ n \in Nat /\ DOMAIN rest = 1 .. n /\ rest = Tail(lines)
      /\ \A i \in 1 .. n : rest[i] \in Seq(T)
  OBVIOUS
<1>2. /\ Head(more) = Head(lines) /\ n + 1 \in Nat /\ end = Tail(more)
      /\ DOMAIN end = 1 .. n + 1 /\ end[n + 1] = line /\ \A i \in 1 .. n : end[i] = rest[i]
  <2>1. more \in Seq(Seq(T)) /\ more # <<>> /\ Len(more) = Len(lines) + 1
        /\ more[Len(more)] = line /\ \A i \in 1 .. Len(lines) : more[i] = lines[i]
    <3>1. Len(lines) \in Nat
      OBVIOUS
    <3> HIDE DEF rest, n, end
    <3> QED
      BY <3>1, Appended
  <2>2. Len(lines) \in Nat /\ Len(lines) >= 1 /\ n = Len(lines) - 1
        /\ \A i \in 1 .. n : rest[i] = lines[i + 1]
    OBVIOUS
  <2> HIDE DEF more, rest, n
  <2>3. end \in Seq(Seq(T)) /\ Len(end) = Len(more) - 1 /\ DOMAIN end = 1 .. Len(end)
        /\ \A i \in 1 .. Len(end) : end[i] = more[i + 1]
    BY <2>1
  <2>4. Head(more) = more[1] /\ Head(lines) = lines[1] /\ 1 \in 1 .. Len(lines)
    BY <2>1, <2>2
  <2> HIDE DEF end
  <2>5. Len(end) = n + 1 /\ n + 1 \in 1 .. n + 1 /\ (n + 1) + 1 = Len(more)
    BY <2>1, <2>2, <2>3
  <2>6. \A i \in 1 .. n : i \in 1 .. n + 1 /\ i + 1 \in 1 .. Len(lines)
    BY <2>2
  <2> QED
    BY <2>1, <2>2, <2>3, <2>4, <2>5, <2>6 DEF end
<1>3. \A i \in 1 .. n + 1 : end[i] \in Seq(T)
  <2> HIDE DEF n, rest, more, end
  <2>1. \A i \in 1 .. n + 1 : i \in 1 .. n \/ i = n + 1
    BY <1>1
  <2> QED
    BY <1>1, <1>2, <2>1
<1> HIDE DEF rest, n, more, end
<1>4. PICK f : JoinedRun(f, T, lines, rest, n)
  BY <1>1, JoinedRuns
<1>5. PICK g : JoinedRun(g, T, more, end, n + 1)
  BY <1>1, <1>2, <1>3, JoinedRuns
<1> DEFINE G == {k \in 0 .. n : g[k] = f[k]}
<1>6. 0 \in G
  <2>1. f[0] = Head(lines) /\ g[0] = Head(more)
    BY <1>4, <1>5 DEF JoinedRun
  <2> QED
    BY <1>1, <1>2, <2>1
<1>7. ASSUME NEW k \in 1 .. n, k - 1 \in G PROVE k \in G
  <2>1. k \in 1 .. n + 1 /\ k \in 0 .. n
    BY <1>1
  <2> QED
    BY <1>2, <1>4, <1>5, <1>7, <2>1 DEF JoinedRun
<1>8. g[n] = f[n]
  <2>1. 0 .. n \subseteq G
    <3> HIDE DEF G
    <3> QED
      BY <1>1, <1>6, <1>7, IntervalInduction
  <2>2. n \in 0 .. n
    BY <1>1
  <2> QED
    BY <2>1, <2>2
<1>9. n + 1 \in 1 .. n + 1 /\ (n + 1) - 1 = n
  BY <1>1
<1>10. g[n + 1] = Under(g[n], line)
  BY <1>2, <1>5, <1>9 DEF JoinedRun
<1> QED
  BY <1>4, <1>5, <1>8, <1>10 DEF JoinedRun, more

\* What is no page number, split in two parts that are none, is none.
Unlabelled(parts) == IF parts # <<>> /\ Head(parts) = "page" THEN Tail(parts) ELSE parts

\* "12", or "3 of 12".
Numbered(rest) ==
  /\ Len(rest) \in {1, 3}
  /\ rest[1] \in Numbers
  /\ Len(rest) = 3 => rest[2] = "of" /\ rest[3] \in Numbers

\* The same with "page" before it: what the pattern of a page number takes, as words.
IsPage(parts) == Numbered(Unlabelled(parts))

\* Whether a text is a page number depends on its words alone.
LEMMA PageOfParts == ASSUME NEW text PROVE IsPageNumber(text) <=> IsPage(Parts(text))
BY DEF IsPageNumber, IsPage, Unlabelled, Numbered

\* The ways to write it.
LEMMA PageForms ==
  ASSUME NEW T, NEW parts \in Seq(T)
  PROVE  IsPage(parts) <=>
           \/ Len(parts) = 1 /\ parts[1] \in Numbers
           \/ Len(parts) = 2 /\ parts[1] = "page" /\ parts[2] \in Numbers
           \/ Len(parts) = 3 /\ parts[1] \in Numbers /\ parts[2] = "of" /\ parts[3] \in Numbers
           \/ /\ Len(parts) = 4 /\ parts[1] = "page" /\ parts[2] \in Numbers
              /\ parts[3] = "of" /\ parts[4] \in Numbers
<1> DEFINE n == Len(parts)
           rest == Tail(parts)
<1>1. n \in Nat /\ (parts = <<>> <=> n = 0) /\ (n > 0 => Head(parts) = parts[1])
  OBVIOUS
<1>2. n > 0 => Len(rest) = n - 1 /\ \A i \in 1 .. n - 1 : rest[i] = parts[i + 1]
  OBVIOUS
<1> HIDE DEF n, rest
<1>3. CASE n > 0 /\ parts[1] = "page"
  <2>1. IsPage(parts) <=> /\ n - 1 \in {1, 3} /\ rest[1] \in Numbers
                          /\ n - 1 = 3 => rest[2] = "of" /\ rest[3] \in Numbers
    <3>1. Unlabelled(parts) = rest
      BY <1>1, <1>3 DEF Unlabelled, rest
    <3>2. Len(rest) = n - 1
      BY <1>2, <1>3
    <3> QED
      BY <3>1, <3>2 DEF IsPage, Numbered
  <2>2. n = 2 => rest[1] = parts[2]
    BY <1>2
  <2>3. n = 4 => rest[1] = parts[2] /\ rest[2] = parts[3] /\ rest[3] = parts[4]
    BY <1>2
  <2> QED
    BY <1>1, <1>3, <2>1, <2>2, <2>3, NumbersAssumption DEF n
<1>4. CASE ~ (n > 0 /\ parts[1] = "page")
  <2>1. IsPage(parts) <=> /\ n \in {1, 3} /\ parts[1] \in Numbers
                          /\ n = 3 => parts[2] = "of" /\ parts[3] \in Numbers
    <3>1. Unlabelled(parts) = parts
      BY <1>1, <1>4 DEF Unlabelled
    <3> QED
      BY <3>1 DEF IsPage, Numbered, n
  <2> QED
    BY <1>1, <1>4, <2>1 DEF n
<1> QED
  BY <1>3, <1>4

\* Two texts that make a page number together: one of them is a page number already.
LEMMA PageInOneOfBoth ==
  ASSUME NEW T, NEW p \in Seq(T), NEW q \in Seq(T), IsPage(p \o q)
  PROVE  IsPage(p) \/ IsPage(q)
<1> DEFINE n == Len(p)
           m == Len(q)
           t == p \o q
           c == Len(t)
<1>0. n \in Nat /\ m \in Nat /\ c = n + m /\ t \in Seq(T)
  OBVIOUS
<1>1. /\ n \in Nat /\ m \in Nat
      /\ (\A i \in 1 .. n : t[i] = p[i])
      /\ (\A i \in 1 .. m : t[n + i] = q[i])
  OBVIOUS
<1>2. n = 0 => t = q
  OBVIOUS
<1>3. m = 0 => t = p
  OBVIOUS
<1> HIDE DEF n, m, t, c
<1>4. CASE n = 0 \/ m = 0
  BY <1>2, <1>3, <1>4 DEF t
<1>5. CASE n > 0 /\ m > 0
  <2>1. m >= 1 => t[n + 1] = q[1]
    BY <1>1
  <2>2. m >= 2 => t[n + 2] = q[2]
    BY <1>1
  <2>3. m >= 3 => t[n + 3] = q[3]
    BY <1>1
  <2>4. (n >= 1 => t[1] = p[1]) /\ (n >= 2 => t[2] = p[2])
    BY <1>1
  <2>5. IsPage(t)
    BY DEF t
  <2>6. CASE c = 2 /\ t[1] = "page" /\ t[2] \in Numbers
    <3>1. n = 1 /\ m = 1
      BY <1>0, <1>5, <2>6
    <3>2. Len(q) = 1 /\ q[1] \in Numbers
      BY <2>1, <2>6, <3>1 DEF m
    <3> QED
      BY <3>2, PageForms
  <2>7. CASE c = 3 /\ t[1] \in Numbers /\ t[2] = "of" /\ t[3] \in Numbers
    <3>1. CASE m = 1
      <4>1. Len(q) = 1 /\ q[1] \in Numbers
        BY <1>0, <2>1, <2>7, <3>1 DEF m
      <4> QED
        BY <4>1, PageForms
    <3>2. CASE m = 2
      <4>1. n = 1 /\ p[1] \in Numbers
        BY <1>0, <2>4, <2>7, <3>2
      <4>2. Len(p) = 1
        BY <4>1 DEF n
      <4> QED
        BY <4>1, <4>2, PageForms
    <3> QED
      BY <1>0, <1>5, <2>7, <3>1, <3>2
  <2>8. CASE c = 4 /\ t[1] = "page" /\ t[2] \in Numbers /\ t[3] = "of" /\ t[4] \in Numbers
    <3>1. CASE m = 1
      <4>1. Len(q) = 1 /\ q[1] \in Numbers
        BY <1>0, <2>1, <2>8, <3>1 DEF m
      <4> QED
        BY <4>1, PageForms
    <3>2. CASE m = 2
      <4>1. n = 2 /\ p[1] = "page" /\ p[2] \in Numbers
        BY <1>0, <2>4, <2>8, <3>2
      <4>2. Len(p) = 2
        BY <4>1 DEF n
      <4> QED
        BY <4>1, <4>2, PageForms
    <3>3. CASE m = 3
      <4>1. Len(q) = 3 /\ q[1] \in Numbers /\ q[2] = "of" /\ q[3] \in Numbers
        BY <1>0, <2>1, <2>2, <2>3, <2>8, <3>3 DEF m
      <4> QED
        BY <4>1, PageForms
    <3> QED
      BY <1>0, <1>5, <2>8, <3>1, <3>2, <3>3
  <2>9. c # 1
    BY <1>0, <1>5
  <2> QED
    BY <1>0, <2>5, <2>6, <2>7, <2>8, <2>9, PageForms DEF c
<1> QED
  BY <1>0, <1>4, <1>5

-------------------------------------------------------------------------------
(* What CleanLines leaves, and leaves alone *)

\* A line put under a text adds its words to those of the text.
LEMMA PartsOfUnder ==
  ASSUME NEW T, Space \in T, Newline \in T, NEW text \in Seq(T), NEW line \in Seq(T)
  PROVE  /\ Under(text, line) \in Seq(T)
         /\ Parts(Under(text, line)) = Parts(text) \o Parts(line)
<1> DEFINE ended == Append(text, Newline)
<1>1. ended \in Seq(T) /\ text \o <<Newline>> = ended /\ ended \o line \in Seq(T)
  OBVIOUS
<1>2. Under(text, line) = ended \o line
  BY <1>1 DEF Under
<1>3. Parts(ended) = Parts(text)
  BY PartsWithMore, Marked
<1> HIDE DEF ended
<1>4. Parts(ended \o line) = Parts(ended) \o Parts(line)
  BY <1>1, PartsOfBoth
<1> QED
  BY <1>1, <1>2, <1>3, <1>4

\* A line as CleanLines leaves it, and such lines.
Plain(line) == Spaced(line) /\ OneLine(line) /\ ~IsPageNumber(line)

\* What the loop of _clean_pdf_text keeps: plain lines, and never two empty ones in a row.
Tidy(lines) ==
  /\ \A i \in 1 .. Len(lines) : Plain(lines[i])
  /\ \A i \in 1 .. Len(lines) : i > 1 => ~ (lines[i - 1] = <<>> /\ lines[i] = <<>>)

\* The empty line is plain.
LEMMA EmptyIsPlain == ASSUME NEW T, Space \in T, Newline \in T PROVE Plain(<<>>)
<1>1. <<>> \in Seq(T) /\ Len(<<>>) = 0 /\ \A i \in 1 .. 0 : FALSE
  OBVIOUS
<1>2. Parts(<<>>) = <<>>
  BY <1>1, PartsOfWhite
<1>3. ~IsPage(<<>>)
  <2>1. <<>> = <<>> \o <<>> /\ Len(<<>>) # 1 /\ Len(<<>>) # 2 /\ Len(<<>>) # 3 /\ Len(<<>>) # 4
    OBVIOUS
  <2> QED
    BY <1>1, <2>1, PageForms
<1> QED
  BY <1>1, <1>2, <1>3, PageOfParts DEF Plain, Spaced, OneLine

\* Keeping one more plain line leaves the lines tidy.
LEMMA WithLineIsTidy ==
  ASSUME NEW T, Space \in T, NEW done \in Seq(Seq(T)), Tidy(done), NEW line \in Seq(T), Plain(line)
  PROVE  Tidy(WithLine(done, line)) /\ WithLine(done, line) \in Seq(Seq(T)) /\ WithLine(done, line) # <<>>
<1> DEFINE n == Len(done)
           more == Append(done, line)
<1>1. n \in Nat /\ (n = 0 \/ n \in 1 .. n) /\ (done # <<>> => Last(done) = done[n] /\ n > 0)
  BY DEF Last
<1>2. /\ more \in Seq(Seq(T)) /\ Len(more) = n + 1 /\ more[n + 1] = line
      /\ \A i \in 1 .. n : more[i] = done[i]
  <2>1. n \in Nat
    OBVIOUS
  <2> QED
    BY <2>1, AppendProperties
<1>3. more # <<>>
  BY AppendProperties
<1>0. n > 0 => done # <<>>
  BY <1>1, LongIsNotEmpty
<1> HIDE DEF more, n
<1>4. \A i \in 1 .. n + 1 : i \in 1 .. n \/ i = n + 1
  BY <1>1
<1>5. CASE line = <<>> /\ done # <<>> /\ Last(done) = <<>>
  BY <1>5 DEF WithLine
<1>6. CASE ~ (line = <<>> /\ done # <<>> /\ Last(done) = <<>>)
  <2>1. WithLine(done, line) = more
    BY <1>6 DEF WithLine, more
  <2>2. \A i \in 1 .. n + 1 : Plain(more[i])
    BY <1>2, <1>4 DEF Tidy, n
  <2>3. ASSUME NEW i \in 1 .. n + 1, i > 1, more[i - 1] = <<>>, more[i] = <<>> PROVE FALSE
    <3>1. i - 1 \in 1 .. n
      BY <1>1, <2>3
    <3>2. more[i - 1] = done[i - 1]
      BY <1>2, <3>1
    <3>3. CASE i = n + 1
      <4>1. i - 1 = n /\ n > 0
        BY <1>1, <3>1, <3>3
      <4> QED
        BY <1>0, <1>1, <1>2, <1>6, <2>3, <3>2, <3>3, <4>1
    <3>4. CASE i \in 1 .. n
      BY <1>2, <2>3, <3>2, <3>4 DEF Tidy, n
    <3> QED
      BY <1>4, <3>3, <3>4
  <2> QED
    BY <1>2, <1>3, <2>1, <2>2, <2>3 DEF Tidy
<1> QED
  BY <1>5, <1>6

\* CleanLines leaves tidy lines.
LEMMA CleanLinesAreTidy ==
  ASSUME NEW T, Space \in T, Newline \in T, NEW lines \in Seq(Seq(T)), lines # <<>>
  PROVE  Tidy(CleanLines(lines)) /\ CleanLines(lines) \in Seq(Seq(T)) /\ CleanLines(lines) # <<>>
<1> DEFINE n == Len(lines)
<1>1. n \in Nat /\ n > 0 /\ DOMAIN lines = 1 .. n /\ \A i \in 1 .. n : lines[i] \in Seq(T)
  OBVIOUS
<1>2. \A i \in 1 .. n : SubSeq(lines, i, i) = <<lines[i]>>
  BY SubSeqOfOne
<1>3. PICK f : CleanRun(f, T, lines, n)
  BY CleanRuns
<1>4. \A i \in 1 .. n : i \in i .. Len(lines)
  OBVIOUS
<1> HIDE DEF n
<1> DEFINE A == [kept : Seq(Seq(T)), upto : Nat]
           G == {k \in 0 .. n : Tidy(f[k].kept) /\ (k = 0 => f[k].upto = 0) /\ (k > 0 => f[k].kept # <<>>)}
<1>5. 0 \in G
  <2>1. Tidy(<<>>)
    BY DEF Tidy
  <2>2. 0 \in 0 .. n /\ ~ (0 > 0)
    BY <1>1
  <2>3. f[0].kept = <<>> /\ f[0].upto = 0
    BY <1>3 DEF CleanRun
  <2> QED
    BY <2>1, <2>2, <2>3
<1>6. ASSUME NEW k \in 1 .. n, k - 1 \in G PROVE k \in G
  <2>1. k - 1 \in 0 .. n /\ k \in 0 .. n /\ k > 0 /\ lines[k] \in Seq(T) /\ <<>> \in Seq(T)
    BY <1>1
  <2> DEFINE done == f[k - 1]
  <2>2. f[k] = CleanStep(lines, done, k) /\ done \in A
    BY <1>3, <2>1 DEF CleanRun
  <2>3. done.kept \in Seq(Seq(T)) /\ Tidy(done.kept) /\ (k - 1 = 0 => done.upto = 0)
        /\ (k - 1 > 0 => done.kept # <<>>)
    BY <1>6, <2>2
  <2> HIDE DEF done
  <2>4. CASE k <= done.upto
    <3>1. f[k] = done
      BY <2>2, <2>4 DEF CleanStep
    <3>2. k - 1 > 0
      BY <2>1, <2>3, <2>4
    <3> QED
      BY <2>1, <2>3, <3>1, <3>2
  <2>5. CASE ~ (k <= done.upto) /\ PageEnds(lines, k) # {}
    <3>1. f[k].kept = WithLine(done.kept, <<>>)
      BY <2>2, <2>5 DEF CleanStep
    <3>2. Plain(<<>>)
      BY EmptyIsPlain
    <3>3. Tidy(f[k].kept) /\ f[k].kept # <<>>
      BY <2>1, <2>3, <3>1, <3>2, WithLineIsTidy
    <3> QED
      BY <2>1, <3>3
  <2>6. CASE ~ (k <= done.upto) /\ PageEnds(lines, k) = {}
    <3>1. f[k].kept = WithLine(done.kept, normalise(lines[k]))
      BY <2>2, <2>6 DEF CleanStep
    <3>2. ~IsPageNumber(lines[k])
      <4>1. ~IsPageNumber(Joined(SubSeq(lines, k, k)))
        BY <1>4, <2>6 DEF PageEnds
      <4>2. Joined(<<lines[k]>>) = lines[k]
        BY <2>1, JoinedOfOne
      <4> QED
        BY <1>2, <4>1, <4>2
    <3>3. Plain(normalise(lines[k])) /\ normalise(lines[k]) \in Seq(T)
      BY <2>1, <3>2, NormalisedPageNumber, NormaliseIsSpaced, NormaliseTyped DEF Plain
    <3>4. Tidy(f[k].kept) /\ f[k].kept # <<>>
      BY <2>1, <2>3, <3>1, <3>3, WithLineIsTidy
    <3> QED
      BY <2>1, <3>4
  <2> QED
    BY <2>4, <2>5, <2>6
<1>7. 0 .. n \subseteq G
  <2> HIDE DEF G
  <2> QED
    BY <1>1, <1>5, <1>6, IntervalInduction
<1>8. n \in 0 .. n /\ n \in G
  BY <1>1, <1>7
<1> QED
  BY <1>1, <1>3, <1>8 DEF CleanRun

\* There is no page number in tidy lines, not over several of them either.
LEMMA TidyHasNoPages ==
  ASSUME NEW T, Space \in T, Newline \in T, NEW lines \in Seq(Seq(T)), Tidy(lines),
         NEW i \in 1 .. Len(lines)
  PROVE  PageEnds(lines, i) = {}
<1> DEFINE n == Len(lines)
           m == n - i
           part(d) == SubSeq(lines, i, i + d)
           G == {d \in 0 .. m : ~IsPageNumber(Joined(part(d)))}
<1>1. /\ n \in Nat /\ i \in Nat /\ i <= n /\ m \in Nat
      /\ \A k \in 1 .. n : lines[k] \in Seq(T)
  OBVIOUS
<1>0. /\ \A d \in 0 .. m : part(d) \in Seq(Seq(T)) /\ part(d) # <<>>
      /\ part(0) = <<lines[i]>>
  <2>1. \A d \in 0 .. m : i + d \in i .. n
    OBVIOUS
  <2>2. \A j \in i .. n : SubSeq(lines, i, j) \in Seq(Seq(T)) /\ Len(SubSeq(lines, i, j)) = j - i + 1
    OBVIOUS
  <2>3. \A j \in i .. n : SubSeq(lines, i, j) # <<>>
    <3> SUFFICES ASSUME NEW j \in i .. n, SubSeq(lines, i, j) = <<>> PROVE FALSE
      OBVIOUS
    <3>1. Len(<<>>) = j - i + 1 /\ j - i + 1 > 0
      BY <1>1, <2>2
    <3> QED
      BY <3>1
  <2>4. i + 0 = i /\ SubSeq(lines, i, i) = <<lines[i]>>
    BY <1>1, SubSeqOfOne
  <2> QED
    BY <2>1, <2>2, <2>3, <2>4
<1>2. \A d \in 1 .. m : part(d) = Append(part(d - 1), lines[i + d])
  OBVIOUS
<1>3. \A k \in 1 .. n : ~IsPageNumber(lines[k])
  BY DEF Tidy, Plain
<1>4. i \in 1 .. n
  OBVIOUS
<1> HIDE DEF part
<1>5. 0 \in G
  <2>1. lines[i] \in Seq(T)
    BY <1>1, <1>4
  <2>2. Joined(part(0)) = lines[i]
    BY <1>0, <2>1, JoinedOfOne
  <2> QED
    BY <1>1, <1>3, <2>2
<1>6. ASSUME NEW d \in 1 .. m, d - 1 \in G PROVE d \in G
  <2> DEFINE line == lines[i + d]
             before == Joined(part(d - 1))
  <2> HIDE DEF n, m
  <2>1. i + d \in 1 .. n /\ d - 1 \in 0 .. m /\ d \in 0 .. m
    BY <1>1 DEF m
  <2>2. line \in Seq(T) /\ ~IsPageNumber(line)
    BY <1>1, <1>3, <2>1
  <2>3. part(d - 1) \in Seq(Seq(T)) /\ part(d - 1) # <<>>
    BY <1>0, <2>1
  <2>4. before \in Seq(T)
    BY <2>3, JoinedTyped
  <2>5. Joined(part(d)) = Under(before, line)
    BY <1>2, <2>2, <2>3, JoinedWithMore
  <2> HIDE DEF line, before
  <2>6. Parts(Under(before, line)) = Parts(before) \o Parts(line)
    BY <2>2, <2>4, PartsOfUnder
  <2>7. Parts(before) \in Seq(T) /\ Parts(line) \in Seq(T)
    BY <2>2, <2>4, PartsTyped
  <2>8. ~IsPage(Parts(before)) /\ ~IsPage(Parts(line))
    BY <1>6, <2>2, PageOfParts DEF before
  <2>9. ~IsPage(Parts(before) \o Parts(line))
    BY <2>7, <2>8, PageInOneOfBoth
  <2> QED
    BY <2>1, <2>5, <2>6, <2>9, PageOfParts
<1>7. 0 .. m \subseteq G
  <2> HIDE DEF G, m
  <2> QED
    BY <1>1, <1>5, <1>6, IntervalInduction
<1>8. ASSUME NEW j \in i .. n PROVE ~IsPageNumber(Joined(SubSeq(lines, i, j)))
  <2>1. j - i \in 0 .. m /\ i + (j - i) = j
    BY <1>1
  <2> QED
    BY <1>7, <2>1 DEF part
<1> QED
  BY <1>8 DEF PageEnds

\* So CleanLines leaves tidy lines alone.
LEMMA TidyStays ==
  ASSUME NEW T, Space \in T, Newline \in T, NEW lines \in Seq(Seq(T)), Tidy(lines)
  PROVE  CleanLines(lines) = lines
<1> DEFINE n == Len(lines)
           from(k) == SubSeq(lines, 1, k)
<1>1. n \in Nat /\ DOMAIN lines = 1 .. n /\ \A k \in 1 .. n : lines[k] \in Seq(T)
  OBVIOUS
<1>2. /\ from(0) = <<>> /\ from(n) = lines
      /\ \A k \in 1 .. n : from(k) = Append(from(k - 1), lines[k])
  OBVIOUS
<1>3. \A k \in 1 .. n : from(k - 1) # <<>> => k > 1 /\ Last(from(k - 1)) = lines[k - 1]
  BY DEF Last
<1>4. PICK f : CleanRun(f, T, lines, n)
  BY CleanRuns
<1>5. \A k \in 1 .. n : PageEnds(lines, k) = {}
  BY TidyHasNoPages
<1>6. \A k \in 1 .. n : normalise(lines[k]) = lines[k]
  BY <1>1, SpacedIsNormal DEF Tidy, Plain
<1>7. \A k \in 1 .. n : k > 1 => ~ (lines[k - 1] = <<>> /\ lines[k] = <<>>)
  BY DEF Tidy
<1> HIDE DEF n, from
<1> DEFINE G == {k \in 0 .. n : f[k] = [kept |-> from(k), upto |-> k]}
<1>8. 0 \in G
  BY <1>1, <1>2, <1>4 DEF CleanRun
<1>9. ASSUME NEW k \in 1 .. n, k - 1 \in G PROVE k \in G
  <2>1. k \in 0 .. n /\ ~ (k <= k - 1)
    BY <1>1
  <2>2. f[k] = CleanStep(lines, [kept |-> from(k - 1), upto |-> k - 1], k)
    BY <1>4, <1>9 DEF CleanRun
  <2>3. f[k] = [kept |-> WithLine(from(k - 1), lines[k]), upto |-> k]
    BY <1>5, <1>6, <2>1, <2>2 DEF CleanStep
  <2>4. WithLine(from(k - 1), lines[k]) = from(k)
    BY <1>2, <1>3, <1>7 DEF WithLine
  <2> QED
    BY <2>1, <2>3, <2>4
<1>10. 0 .. n \subseteq G
  <2> HIDE DEF G
  <2> QED
    BY <1>1, <1>8, <1>9, IntervalInduction
<1>11. n \in 0 .. n
  BY <1>1
<1> QED
  BY <1>2, <1>4, <1>10, <1>11 DEF CleanRun

-------------------------------------------------------------------------------
(* Lines takes apart what Joined puts together *)

\* A line under a text, symbol by symbol.
UnderValues(t, n, text, m, line) ==
  /\ Len(t) = n + 1 + m
  /\ \A i \in 1 .. n : t[i] = text[i]
  /\ t[n + 1] = Newline
  /\ \A i \in 1 .. m : t[n + 1 + i] = line[i]

\* A text with a line under it: the values of the text, a newline, the values of the line.
LEMMA UnderIs ==
  ASSUME NEW T, Newline \in T, NEW text \in Seq(T), NEW line \in Seq(T)
  PROVE  /\ Under(text, line) \in Seq(T)
         /\ UnderValues(Under(text, line), Len(text), text, Len(line), line)
<1> DEFINE ended == text \o <<Newline>>
           n == Len(text)
           m == Len(line)
<1>1. /\ n \in Nat /\ m \in Nat /\ ended \in Seq(T) /\ Len(ended) = n + 1
      /\ (\A i \in 1 .. n : ended[i] = text[i]) /\ ended[n + 1] = Newline
  OBVIOUS
<1>2. Under(text, line) = ended \o line
  BY DEF Under
<1> HIDE DEF ended
<1>3. /\ ended \o line \in Seq(T) /\ Len(ended \o line) = n + 1 + m
      /\ (\A i \in 1 .. n + 1 : (ended \o line)[i] = ended[i])
      /\ (\A i \in 1 .. m : (ended \o line)[n + 1 + i] = line[i])
  BY <1>1
<1> DEFINE t == ended \o line
<1> HIDE DEF t, n, m
<1>4. \A i \in 1 .. n : i \in 1 .. n + 1
  BY <1>1
<1>5. n + 1 \in 1 .. n + 1
  BY <1>1
<1>6. UnderValues(t, n, text, m, line)
  BY <1>1, <1>3, <1>4, <1>5 DEF t, UnderValues
<1> QED
  BY <1>2, <1>3, <1>6 DEF t, n, m

\* Lines may be joined from either end.
LEMMA UnderAssociative ==
  ASSUME NEW T, Newline \in T, NEW p \in Seq(T), NEW q \in Seq(T), NEW r \in Seq(T)
  PROVE  Under(Under(p, q), r) = Under(p, Under(q, r))
<1> DEFINE a == Under(p, q)
           b == Under(q, r)
           s == Under(a, r)
           t == Under(p, b)
           i == Len(p)
           j == Len(q)
           k == Len(r)
<1>1. i \in Nat /\ j \in Nat /\ k \in Nat
  OBVIOUS
<1>2. a \in Seq(T) /\ b \in Seq(T) /\ UnderValues(a, i, p, j, q) /\ UnderValues(b, j, q, k, r)
  BY UnderIs
<1>3. s \in Seq(T) /\ t \in Seq(T) /\ UnderValues(s, Len(a), a, k, r) /\ UnderValues(t, i, p, Len(b), b)
  BY <1>2, UnderIs
<1>4. Len(a) = i + 1 + j /\ Len(b) = j + 1 + k
  BY <1>2 DEF UnderValues
<1> HIDE DEF a, b, s, t, i, j, k
<1>5. UnderValues(s, i + 1 + j, a, k, r) /\ UnderValues(t, i, p, j + 1 + k, b)
  BY <1>3, <1>4
<1>6. Len(s) = i + 1 + j + 1 + k /\ Len(t) = Len(s)
  BY <1>1, <1>5 DEF UnderValues
<1>7. ASSUME NEW x \in 1 .. i + 1 + j + 1 + k PROVE s[x] = t[x]
  <2>1. CASE x \in 1 .. i
    <3>1. x \in 1 .. i + 1 + j
      BY <1>1, <2>1
    <3> QED
      BY <1>2, <1>5, <2>1, <3>1 DEF UnderValues
  <2>2. CASE x = i + 1
    <3>1. x \in 1 .. i + 1 + j
      BY <1>1, <2>2
    <3> QED
      BY <1>2, <1>5, <2>2, <3>1 DEF UnderValues
  <2>3. CASE x \in i + 2 .. i + 1 + j
    <3>1. PICK y \in 1 .. j : x = i + 1 + y
      <4>1. x - i - 1 \in 1 .. j /\ x = i + 1 + (x - i - 1)
        BY <1>1, <2>3
      <4> QED
        BY <4>1
    <3>2. x \in 1 .. i + 1 + j /\ y \in 1 .. j + 1 + k
      BY <1>1, <2>3, <3>1
    <3> QED
      BY <1>2, <1>5, <3>1, <3>2 DEF UnderValues
  <2>4. CASE x = i + 1 + j + 1
    <3>1. x = i + 1 + (j + 1) /\ j + 1 \in 1 .. j + 1 + k
      BY <1>1, <2>4
    <3> QED
      BY <1>2, <1>5, <2>4, <3>1 DEF UnderValues
  <2>5. CASE x \in i + 1 + j + 2 .. i + 1 + j + 1 + k
    <3>1. PICK y \in 1 .. k : x = i + 1 + j + 1 + y
      <4>1. x - i - j - 2 \in 1 .. k /\ x = i + 1 + j + 1 + (x - i - j - 2)
        BY <1>1, <2>5
      <4> QED
        BY <4>1
    <3>2. j + 1 + y \in 1 .. j + 1 + k /\ x = i + 1 + (j + 1 + y)
      BY <1>1, <3>1
    <3>3. s[x] = r[y]
      BY <1>5, <3>1 DEF UnderValues
    <3>4. b[j + 1 + y] = r[y]
      BY <1>2, <3>1 DEF UnderValues
    <3>5. t[x] = b[j + 1 + y]
      BY <1>5, <3>2 DEF UnderValues
    <3> QED
      BY <3>3, <3>4, <3>5
  <2>6. \/ x \in 1 .. i \/ x = i + 1 \/ x \in i + 2 .. i + 1 + j \/ x = i + 1 + j + 1
        \/ x \in i + 1 + j + 2 .. i + 1 + j + 1 + k
    BY <1>1
  <2> QED
    BY <2>1, <2>2, <2>3, <2>4, <2>5, <2>6
<1>8. s = t
  BY <1>3, <1>6, <1>7, SeqEqual
<1> QED
  BY <1>8 DEF a, b, s, t

\* Joined, the other way round: the first line and then the others.
LEMMA JoinedWithFirst ==
  ASSUME NEW T, Space \in T, Newline \in T, NEW lines \in Seq(Seq(T)), Len(lines) > 1
  PROVE  Joined(lines) = Under(lines[1], Joined(SubSeq(lines, 2, Len(lines))))
<1> DEFINE n == Len(lines)
           all(k) == SubSeq(lines, 1, k)
           rest(k) == SubSeq(lines, 2, k)
<1>1. n \in Nat /\ 2 \in 2 .. n /\ n \in 2 .. n /\ lines[1] \in Seq(T) /\ lines[2] \in Seq(T)
      /\ \A k \in 2 .. n : lines[k] \in Seq(T)
  OBVIOUS
<1>2. /\ all(n) = lines /\ all(1) = <<lines[1]>> /\ rest(2) = <<lines[2]>>
  BY SubSeqOfOne, SubSeqFull
<1>3. \A k \in 2 .. n : all(k) = Append(all(k - 1), lines[k]) /\ all(k - 1) \in Seq(Seq(T))
                        /\ Len(all(k - 1)) = k - 1
  OBVIOUS
<1>4. \A k \in 3 .. n : rest(k) = Append(rest(k - 1), lines[k])
  OBVIOUS
<1>5. \A k \in 2 .. n : rest(k) \in Seq(Seq(T)) /\ Len(rest(k)) = k - 1
  OBVIOUS
<1>6. \A k \in 2 .. n : all(k - 1) # <<>> /\ rest(k) # <<>>
  <2>1. Len(<<>>) = 0 /\ \A k \in 2 .. n : k - 1 # 0
    BY <1>1
  <2> QED
    BY <1>3, <1>5, <2>1
<1> HIDE DEF n, all, rest
<1> DEFINE m == n - 2
           G == {k \in 0 .. m : Joined(all(k + 2)) = Under(lines[1], Joined(rest(k + 2)))}
<1>7. m \in Nat /\ (\A k \in 0 .. m : k + 2 \in 2 .. n) /\ m + 2 = n /\ m \in 0 .. m
      /\ (\A k \in 1 .. m : k + 2 \in 3 .. n /\ (k + 2) - 1 = (k - 1) + 2 /\ k - 1 \in 0 .. m /\ k \in 0 .. m)
      /\ 0 + 2 = 2 /\ 2 - 1 = 1 /\ 0 \in 0 .. m
  BY <1>1
<1> HIDE DEF m
<1>8. 0 \in G
  <2>1. all(2) = Append(<<lines[1]>>, lines[2]) /\ <<lines[1]>> \in Seq(Seq(T)) /\ <<lines[1]>> # <<>>
    BY <1>1, <1>2, <1>3, <1>6, <1>7
  <2>2. Joined(all(2)) = Under(Joined(<<lines[1]>>), lines[2])
    BY <1>1, <2>1, JoinedWithMore
  <2>3. Joined(<<lines[1]>>) = lines[1] /\ Joined(rest(2)) = lines[2]
    BY <1>1, <1>2, JoinedOfOne
  <2> QED
    BY <1>7, <2>2, <2>3
<1>9. ASSUME NEW k \in 1 .. m, k - 1 \in G PROVE k \in G
  <2> DEFINE j == k + 2
             i == j - 1
  <2>1. j \in 3 .. n /\ j \in 2 .. n /\ i = (k - 1) + 2 /\ k \in 0 .. m /\ i \in 2 .. n
    BY <1>1, <1>7
  <2> HIDE DEF j
  <2>2. lines[j] \in Seq(T) /\ all(j) = Append(all(i), lines[j]) /\ all(i) \in Seq(Seq(T)) /\ all(i) # <<>>
    BY <1>1, <1>3, <1>6, <2>1
  <2>3. rest(j) = Append(rest(i), lines[j]) /\ rest(i) \in Seq(Seq(T)) /\ rest(i) # <<>>
    BY <1>4, <1>5, <1>6, <2>1
  <2> HIDE DEF i
  <2>4. Joined(all(j)) = Under(Joined(all(i)), lines[j])
    BY <2>2, JoinedWithMore
  <2>5. Joined(rest(j)) = Under(Joined(rest(i)), lines[j]) /\ Joined(rest(i)) \in Seq(T)
    BY <2>2, <2>3, JoinedWithMore, JoinedTyped
  <2>6. Joined(all(i)) = Under(lines[1], Joined(rest(i)))
    BY <1>9, <2>1
  <2>7. Joined(all(j)) = Under(lines[1], Joined(rest(j)))
    BY <1>1, <2>2, <2>4, <2>5, <2>6, UnderAssociative
  <2> QED
    BY <2>1, <2>7 DEF j
<1>10. 0 .. m \subseteq G
  <2> HIDE DEF G
  <2> QED
    BY <1>7, <1>8, <1>9, IntervalInduction
<1> QED
  BY <1>2, <1>7, <1>10 DEF n, rest

\* Lines, after the start of a line.
Below(lines, line) == Append(lines, line)

\* A symbol that ends no line goes to the last line.
LEMMA BrokenOf ==
  ASSUME NEW T, NEW lines \in Seq(Seq(T)), NEW line \in Seq(T), NEW s \in T, s # Newline
  PROVE  \A long : long = Append(line, s) => Broken(Below(lines, line), s) = Below(lines, long)
<1> DEFINE n == Len(lines)
           a == Append(lines, line)
           more == Append(line, s)
           b == Append(lines, more)
           c == [a EXCEPT ![Len(a)] = Append(@, s)]
<1>1. n \in Nat /\ more \in Seq(T)
  OBVIOUS
<1>2. /\ a \in Seq(Seq(T)) /\ Len(a) = n + 1 /\ a[n + 1] = line
      /\ \A i \in 1 .. n : a[i] = lines[i]
  BY <1>1, Appended
<1> HIDE DEF more
<1>3. /\ b \in Seq(Seq(T)) /\ Len(b) = n + 1 /\ b[n + 1] = more
      /\ \A i \in 1 .. n : b[i] = lines[i]
  BY <1>1, Appended
<1> HIDE DEF a, b, n
<1>4. c = [a EXCEPT ![n + 1] = more]
  BY <1>2 DEF more
<1>5. c \in Seq(Seq(T)) /\ Len(c) = n + 1
  BY <1>1, <1>2, <1>4
<1>6. n + 1 \in DOMAIN a /\ \A i \in 1 .. n : i \in DOMAIN a /\ i # n + 1
  BY <1>1, <1>2
<1>7. c[n + 1] = more /\ \A i \in 1 .. n : c[i] = lines[i]
  BY <1>2, <1>4, <1>6
<1> HIDE DEF c
<1>8. \A i \in 1 .. n + 1 : i \in 1 .. n \/ i = n + 1
  BY <1>1
<1>9. c = b
  BY <1>3, <1>5, <1>7, <1>8, SeqEqual
<1> QED
  BY <1>9 DEF Broken, Below, a, b, c, more

\* A run of Lines that is at the start of a line, and the line that follows.
Continues(f, T, text, n, a, lines, line, m) ==
  /\ n \in Nat /\ LinesRun(f, T, text, n)
  /\ a \in Nat /\ m \in Nat /\ a + m <= n
  /\ lines \in Seq(Seq(T)) /\ f[a] = Below(lines, <<>>)
  /\ line \in Seq(T) /\ Len(line) = m /\ OneLine(line)
  /\ \A k \in 1 .. m : text[a + k] = line[k]

\* Splitting a text splits the line under it off whole.
LEMMA LinesGrow ==
  ASSUME NEW f, NEW T, NEW text, NEW n, NEW a, NEW lines, NEW line, NEW m,
         Continues(f, T, text, n, a, lines, line, m)
  PROVE  f[a + m] = Below(lines, line)
<1> USE DEF Continues
<1> DEFINE from(k) == SubSeq(line, 1, k)
           G == {k \in 0 .. m : f[a + k] = Below(lines, from(k))}
<1>1. /\ from(0) = <<>> /\ from(m) = line
      /\ \A k \in 1 .. m : from(k) = Append(from(k - 1), line[k]) /\ from(k - 1) \in Seq(T)
  OBVIOUS
<1>2. \A k \in 1 .. m : line[k] \in T /\ line[k] # Newline
  BY DEF OneLine
<1> HIDE DEF from
<1>3. 0 \in G
  <2>1. a + 0 = a /\ 0 \in 0 .. m
    OBVIOUS
  <2> QED
    BY <1>1, <2>1
<1>4. ASSUME NEW k \in 1 .. m, k - 1 \in G PROVE k \in G
  <2>1. a + k \in 1 .. n /\ (a + k) - 1 = a + (k - 1) /\ k \in 0 .. m
    OBVIOUS
  <2>2. f[a + k] = Broken(f[(a + k) - 1], text[a + k]) /\ text[a + k] = line[k]
    BY <2>1 DEF LinesRun
  <2>3. f[a + (k - 1)] = Below(lines, from(k - 1))
    BY <1>4
  <2>4. Broken(Below(lines, from(k - 1)), line[k]) = Below(lines, from(k))
    BY <1>1, <1>2, BrokenOf
  <2> QED
    BY <2>1, <2>2, <2>3, <2>4
<1>5. 0 .. m \subseteq G
  <2> HIDE DEF G
  <2> QED
    BY <1>3, <1>4, IntervalInduction
<1>6. m \in 0 .. m
  OBVIOUS
<1> QED
  BY <1>1, <1>5, <1>6

\* Lines takes apart what Joined puts together.
LEMMA LinesOfLine ==
  ASSUME NEW T, Space \in T, Newline \in T, NEW line \in Seq(T), OneLine(line)
  PROVE  Lines(line) = <<line>>
<1> DEFINE n == Len(line)
<1>1. n \in Nat /\ DOMAIN line = 1 .. n /\ (\A i \in 1 .. n : line[i] \in T) /\ n = Len(line)
      /\ 0 + n = n /\ 0 + n <= n /\ \A k \in 1 .. n : 0 + k = k
  OBVIOUS
<1>2. /\ <<>> \in Seq(Seq(T)) /\ << <<>> >> = Below(<<>>, <<>>)
      /\ Below(<<>>, line) = <<line>>
  BY DEF Below
<1> HIDE DEF n
<1>3. PICK f : LinesRun(f, T, line, n)
  BY <1>1, LinesRuns
<1>4. f[0] = Below(<<>>, <<>>) /\ f[n] = Lines(line)
  BY <1>2, <1>3 DEF LinesRun
<1>5. \A k \in 1 .. n : line[0 + k] = line[k]
  BY <1>1
<1>6. f[0 + n] = Below(<<>>, line)
  <2>1. Continues(f, T, line, n, 0, <<>>, line, n)
    BY <1>1, <1>2, <1>3, <1>4, <1>5 DEF Continues
  <2> QED
    BY <2>1, LinesGrow
<1> QED
  BY <1>1, <1>2, <1>4, <1>6

\* A line put under a text is the last line of the two.
LEMMA LinesOfUnder ==
  ASSUME NEW T, Space \in T, Newline \in T, NEW text \in Seq(T), NEW line \in Seq(T), OneLine(line)
  PROVE  Lines(Under(text, line)) = Append(Lines(text), line) /\ Lines(text) \in Seq(Seq(T))
<1> DEFINE n == Len(text)
           m == Len(line)
           t == Under(text, line)
           l == n + 1 + m
<1>1. /\ n \in Nat /\ DOMAIN text = 1 .. n /\ \A i \in 1 .. n : text[i] \in T
      /\ m \in Nat /\ m = Len(line)
  OBVIOUS
<1>2. t \in Seq(T) /\ UnderValues(t, n, text, m, line)
  BY UnderIs
<1> HIDE DEF t
<1>3. l \in Nat /\ DOMAIN t = 1 .. l /\ \A i \in 1 .. l : t[i] \in T
  BY <1>1, <1>2 DEF UnderValues
<1> HIDE DEF n, m
<1>4. (n + 1) + m = l /\ (n + 1) + m <= l /\ n + 1 \in Nat /\ n + 1 \in 1 .. l /\ (n + 1) - 1 = n
      /\ (\A k \in 1 .. n : k \in 1 .. l) /\ n \in 0 .. n
  BY <1>1
<1> HIDE DEF l
<1>5. PICK f : LinesRun(f, T, text, n)
  BY <1>1, LinesRuns
<1>6. PICK g : LinesRun(g, T, t, l)
  BY <1>3, LinesRuns
<1> DEFINE G == {k \in 0 .. n : g[k] = f[k]}
<1>7. 0 \in G
  <2>1. 0 \in 0 .. n /\ f[0] = << <<>> >> /\ g[0] = << <<>> >>
    BY <1>1, <1>5, <1>6 DEF LinesRun
  <2> QED
    BY <2>1
<1>8. ASSUME NEW k \in 1 .. n, k - 1 \in G PROVE k \in G
  <2>1. k \in 0 .. n /\ k \in 1 .. l /\ t[k] = text[k]
    BY <1>1, <1>2, <1>4 DEF UnderValues
  <2> QED
    BY <1>5, <1>6, <1>8, <2>1 DEF LinesRun
<1>9. g[n] = Lines(text) /\ Lines(text) \in Seq(Seq(T))
  <2>1. 0 .. n \subseteq G
    <3> HIDE DEF G
    <3> QED
      BY <1>1, <1>7, <1>8, IntervalInduction
  <2> QED
    BY <1>4, <1>5, <2>1 DEF LinesRun
<1>10. g[n + 1] = Below(Lines(text), <<>>)
  <2>1. g[n + 1] = Broken(g[n], t[n + 1]) /\ t[n + 1] = Newline
    BY <1>2, <1>4, <1>6 DEF LinesRun, UnderValues
  <2> QED
    BY <1>9, <2>1 DEF Broken, Below
<1>11. \A k \in 1 .. m : t[(n + 1) + k] = line[k]
  BY <1>2 DEF UnderValues
<1>12. g[(n + 1) + m] = Below(Lines(text), line)
  <2>1. Continues(g, T, t, l, n + 1, Lines(text), line, m)
    BY <1>1, <1>3, <1>4, <1>6, <1>9, <1>10, <1>11 DEF Continues
  <2> QED
    BY <2>1, LinesGrow
<1> QED
  BY <1>4, <1>6, <1>9, <1>12 DEF LinesRun, Below, t

\* split("\n") gives back what "\n".join put together.
LEMMA LinesOfJoined ==
  ASSUME NEW T, Space \in T, Newline \in T, NEW lines \in Seq(Seq(T)), lines # <<>>,
         \A i \in 1 .. Len(lines) : OneLine(lines[i])
  PROVE  Lines(Joined(lines)) = lines
<1> DEFINE n == Len(lines)
           from(k) == SubSeq(lines, 1, k)
<1>1. n \in Nat /\ n \in 1 .. n /\ 1 \in 1 .. n
      /\ (\A k \in 1 .. n : lines[k] \in Seq(T) /\ OneLine(lines[k]))
  OBVIOUS
<1>2. from(n) = lines /\ from(1) = <<lines[1]>>
  BY <1>1, SubSeqOfOne, SubSeqFull
<1>3. \A k \in 2 .. n : from(k) = Append(from(k - 1), lines[k]) /\ from(k - 1) \in Seq(Seq(T))
                        /\ Len(from(k - 1)) = k - 1
  OBVIOUS
<1> HIDE DEF n, from
<1> DEFINE m == n - 1
           G == {k \in 0 .. m : Lines(Joined(from(k + 1))) = from(k + 1)}
<1>4. m \in Nat /\ m + 1 = n /\ m \in 0 .. m /\ 0 \in 0 .. m /\ 0 + 1 = 1
  BY <1>1
<1>5. 0 \in G
  <2>1. Joined(<<lines[1]>>) = lines[1] /\ Lines(lines[1]) = <<lines[1]>>
    BY <1>1, JoinedOfOne, LinesOfLine
  <2> QED
    BY <1>2, <1>4, <2>1
<1>6. ASSUME NEW k \in 1 .. m, k - 1 \in G PROVE k \in G
  <2> DEFINE j == k + 1
             before == from(k)
  <2>1. j \in 2 .. n /\ j \in 1 .. n /\ j - 1 = k /\ (k - 1) + 1 = k /\ k \in 0 .. m /\ k # 0
    BY <1>1
  <2>2. before \in Seq(Seq(T)) /\ from(j) = Append(before, lines[j]) /\ Len(before) = k
    BY <1>3, <2>1
  <2>3. before # <<>>
    <3>1. Len(<<>>) = 0
      OBVIOUS
    <3> QED
      BY <2>1, <2>2, <3>1
  <2>4. Lines(Joined(before)) = before
    BY <1>6, <2>1
  <2>5. lines[j] \in Seq(T) /\ OneLine(lines[j])
    BY <1>1, <2>1
  <2> HIDE DEF j, before
  <2>6. Joined(before) \in Seq(T) /\ Joined(from(j)) = Under(Joined(before), lines[j])
    BY <2>2, <2>3, <2>5, JoinedTyped, JoinedWithMore
  <2>7. Lines(Under(Joined(before), lines[j])) = Append(Lines(Joined(before)), lines[j])
    BY <2>5, <2>6, LinesOfUnder
  <2>8. Lines(Joined(from(j))) = from(j)
    BY <2>2, <2>4, <2>6, <2>7
  <2> QED
    BY <2>1, <2>8 DEF j
<1>7. 0 .. m \subseteq G
  <2> HIDE DEF G, m
  <2> QED
    BY <1>4, <1>5, <1>6, IntervalInduction
<1> QED
  BY <1>2, <1>4, <1>7

-------------------------------------------------------------------------------
(* What Cleaned leaves, and leaves alone *)

\* White space around a text that starts and ends with none is what strip()
\* takes.
Framed(u, p, t, q) ==
  /\ Len(u) = p + Len(t) + q
  /\ \A i \in 1 .. Len(t) : u[p + i] = t[i]
  /\ \A i \in 1 .. Len(u) : i <= p \/ i > p + Len(t) => IsWhite(u[i])

\* A text that strip() leaves alone, the empty one excepted.
Edged(t) == t # <<>> /\ ~IsWhite(t[1]) /\ ~IsWhite(t[Len(t)])

\* strip() takes the white space around a text away, and nothing else.
LEMMA StripOfFramed ==
  ASSUME NEW T, NEW u \in Seq(T), NEW t \in Seq(T), NEW p \in Nat, NEW q \in Nat,
         Framed(u, p, t, q), Edged(t)
  PROVE  Strip(u) = t
<1> DEFINE m == Len(t)
           n == Len(u)
<1>1. /\ m \in Nat /\ m > 0 /\ n \in Nat
      /\ n = p + m + q
      /\ (\A i \in 1 .. m : u[p + i] = t[i])
      /\ (\A i \in 1 .. n : i <= p \/ i > p + m => IsWhite(u[i]))
      /\ ~IsWhite(t[1]) /\ ~IsWhite(t[m])
  BY DEF Framed, Edged
<1>2. p + 1 \in 1 .. n /\ p + m \in 1 .. n /\ 1 \in 1 .. m /\ m \in 1 .. m
  BY <1>1
<1>3. ~IsWhite(u[p + 1]) /\ ~IsWhite(u[p + m])
  BY <1>1, <1>2
<1>4. PICK first \in 1 .. n, last \in 1 .. n :
        /\ Strip(u) = SubSeq(u, first, last)
        /\ ~IsWhite(u[first]) /\ ~IsWhite(u[last])
        /\ \A i \in 1 .. n : i < first \/ i > last => IsWhite(u[i])
  BY <1>2, <1>3, Stripped
<1>5. first = p + 1 /\ last = p + m
  <2>1. ~ (first <= p) /\ ~ (first > p + m) /\ ~ (last <= p) /\ ~ (last > p + m)
    BY <1>1, <1>4
  <2>2. ~ (p + 1 < first) /\ ~ (p + m > last)
    BY <1>2, <1>3, <1>4
  <2> HIDE DEF m, n
  <2> QED
    BY <1>1, <1>4, <2>1, <2>2
<1> DEFINE s == SubSeq(u, p + 1, p + m)
<1>6. s \in Seq(T) /\ Len(s) = m /\ \A i \in 1 .. m : s[i] = u[p + i]
  <2>1. \A i \in 1 .. m : (p + 1) + i - 1 = p + i
    BY <1>1
  <2> QED
    BY <1>1, <1>2, <2>1, SubSeqProperties
<1> HIDE DEF s
<1>7. s = t
  BY <1>1, <1>6, SeqEqual
<1> QED
  BY <1>4, <1>5, <1>7 DEF s

\* What tidy lines become when they are joined and stripped: lines of which the
\* first and the last are not empty.
Part(s, T, lines, i, j) ==
  /\ s \in Seq(Seq(T)) /\ Tidy(s) /\ s # <<>>
  /\ s[1] = lines[i] /\ s[Len(s)] = lines[j]

\* Some of the lines kept, in a row: they and the text they make, compared with the whole.
LEMMA TidyPart ==
  ASSUME NEW T, NEW lines \in Seq(Seq(T)), Tidy(lines), NEW i \in 1 .. Len(lines),
         NEW j \in 1 .. Len(lines), i <= j
  PROVE  Part(SubSeq(lines, i, j), T, lines, i, j)
<1> DEFINE s == SubSeq(lines, i, j)
           m == j - i + 1
<1>1. s \in Seq(Seq(T)) /\ Len(s) = m /\ \A k \in 1 .. m : s[k] = lines[i + k - 1]
  BY SubSeqProperties
<1>2. /\ m \in Nat /\ 1 \in 1 .. m /\ m \in 1 .. m /\ i + 1 - 1 = i /\ i + m - 1 = j
      /\ \A k \in 1 .. m : i + k - 1 \in 1 .. Len(lines)
      /\ \A k \in 1 .. m : k > 1 => k - 1 \in 1 .. m /\ i + k - 1 > 1
                                    /\ (i + k - 1) - 1 = i + (k - 1) - 1
  OBVIOUS
<1>3. s # <<>>
  <2>1. m # 0
    BY <1>2
  <2> QED
    BY <1>1, <2>1, LongIsNotEmpty
<1> HIDE DEF s, m
<1>4. Tidy(s)
  <2>1. \A k \in 1 .. m : Plain(s[k])
    BY <1>1, <1>2 DEF Tidy
  <2>2. ASSUME NEW k \in 1 .. m, k > 1, s[k - 1] = <<>>, s[k] = <<>> PROVE FALSE
    <3> DEFINE x == i + k - 1
    <3>1. x \in 1 .. Len(lines) /\ x > 1 /\ k - 1 \in 1 .. m /\ x - 1 = i + (k - 1) - 1
      BY <1>2, <2>2
    <3>2. lines[x] = <<>> /\ lines[i + (k - 1) - 1] = <<>>
      BY <1>1, <2>2, <3>1
    <3> HIDE DEF x
    <3>3. lines[x - 1] = <<>>
      BY <3>1, <3>2
    <3> QED
      BY <3>1, <3>2, <3>3 DEF Tidy
  <2> QED
    BY <1>1, <2>1, <2>2 DEF Tidy
<1> QED
  BY <1>1, <1>2, <1>3, <1>4 DEF Part, s

\* The edges of a line that is not empty.
LEMMA SpacedIsEdged ==
  ASSUME NEW T, NEW line \in Seq(T), Plain(line), line # <<>>
  PROVE  Edged(line)
<1> DEFINE n == Len(line)
<1>1. n \in Nat /\ n > 0
  OBVIOUS
<1>2. 1 \in 1 .. n /\ n \in 1 .. n /\ ~ (1 < 1) /\ ~ (n < n)
  BY <1>1
<1> QED
  BY <1>2 DEF Plain, Spaced, OneLine, Edged

\* Such lines joined have the edges of the first and of the last.
LEMMA JoinedIsEdged ==
  ASSUME NEW T, Space \in T, Newline \in T, NEW lines \in Seq(Seq(T)), lines # <<>>,
         Edged(lines[1]), Edged(lines[Len(lines)])
  PROVE  Edged(Joined(lines))
<1> DEFINE n == Len(lines)
           t == Joined(lines)
<1>1. n \in Nat /\ n > 0 /\ lines[1] \in Seq(T) /\ lines[n] \in Seq(T)
  OBVIOUS
<1>2. CASE n = 1
  <2>1. lines = <<lines[1]>>
    BY <1>2
  <2>2. Joined(<<lines[1]>>) = lines[1]
    BY <1>1, JoinedOfOne
  <2> QED
    BY <2>1, <2>2
<1>3. CASE n > 1
  <2> DEFINE tail == SubSeq(lines, 2, n)
             front == SubSeq(lines, 1, n - 1)
             p == Joined(tail)
             q == Joined(front)
             i == Len(lines[1])
             j == Len(lines[n])
  <2>1. /\ tail \in Seq(Seq(T)) /\ front \in Seq(Seq(T)) /\ lines = Append(front, lines[n])
        /\ Len(tail) = n - 1 /\ Len(front) = n - 1
    BY <1>3
  <2>2. tail # <<>> /\ front # <<>>
    BY <1>3, <2>1
  <2> HIDE DEF tail, front
  <2>3. p \in Seq(T) /\ q \in Seq(T)
    BY <2>1, <2>2, JoinedTyped
  <2>4. t = Under(lines[1], p)
    BY <1>3, JoinedWithFirst DEF tail
  <2>5. t = Under(q, lines[n])
    BY <1>1, <2>1, <2>2, JoinedWithMore
  <2>6. UnderValues(t, i, lines[1], Len(p), p)
    BY <1>1, <2>3, <2>4, UnderIs
  <2>7. UnderValues(t, Len(q), q, j, lines[n]) /\ t \in Seq(T)
    BY <1>1, <2>3, <2>5, UnderIs
  <2>8. i \in Nat /\ i > 0 /\ j \in Nat /\ j > 0 /\ Len(p) \in Nat /\ Len(q) \in Nat
    BY <1>1, <2>3 DEF Edged
  <2> HIDE DEF t, p, q, i, j
  <2>9. 1 \in 1 .. i /\ j \in 1 .. j
    BY <2>8
  <2>10. t[1] = lines[1][1]
    BY <2>6, <2>9 DEF UnderValues
  <2>11. t[Len(q) + 1 + j] = lines[n][j] /\ Len(t) = Len(q) + 1 + j
    BY <2>7, <2>9 DEF UnderValues
  <2>12. t # <<>>
    BY <2>8, <2>11
  <2> QED
    BY <2>10, <2>11, <2>12 DEF Edged, t, j
<1>4. n = 1 \/ n > 1
  <2> HIDE DEF n
  <2> QED
    BY <1>1
<1> QED
  BY <1>2, <1>3, <1>4

\* What a text looks like that was cleaned.
Clean(y, lines, T) ==
  /\ lines \in Seq(Seq(T)) /\ lines # <<>> /\ Tidy(lines)
  /\ y = Joined(lines)
  /\ lines = << <<>> >> \/ (lines[1] # <<>> /\ lines[Len(lines)] # <<>>)

\* The first line, if it is empty, and the last are what strip() takes.
LEMMA StripOfJoined ==
  ASSUME NEW T, Space \in T, Newline \in T, NEW lines \in Seq(Seq(T)), lines # <<>>, Tidy(lines)
  PROVE  \E mid : Clean(Strip(Joined(lines)), mid, T)
<1> DEFINE n == Len(lines)
<1>1. n \in Nat /\ n > 0 /\ 1 \in 1 .. n /\ n \in 1 .. n
      /\ (\A i \in 1 .. n : lines[i] \in Seq(T))
  OBVIOUS
<1>2. \A i \in 1 .. n : i > 1 => ~ (lines[i - 1] = <<>> /\ lines[i] = <<>>)
  BY DEF Tidy
<1>3. CASE n = 1 /\ lines[1] = <<>>
  <2>1. lines = << <<>> >>
    BY <1>3
  <2>2. Joined(<< <<>> >>) = <<>>
    <3>1. <<>> \in Seq(T)
      OBVIOUS
    <3> QED
      BY <3>1, JoinedOfOne
  <2>3. Strip(<<>>) = <<>>
    <3>1. <<>> \in Seq(T) /\ Len(<<>>) = 0 /\ 1 .. 0 = {}
      OBVIOUS
    <3> QED
      BY <3>1, Stripped
  <2> QED
    BY <2>1, <2>2, <2>3 DEF Clean
<1>4. CASE ~ (n = 1 /\ lines[1] = <<>>)
  <2> DEFINE i == IF lines[1] = <<>> THEN 2 ELSE 1
             j == IF lines[n] = <<>> THEN n - 1 ELSE n
             mid == SubSeq(lines, i, j)
             t == Joined(mid)
  <2>1. /\ i \in 1 .. n /\ j \in 1 .. n /\ i <= j
        /\ lines[i] # <<>> /\ lines[j] # <<>>
    <3>1. CASE lines[1] = <<>>
      <4>1. n > 1 /\ 2 \in 1 .. n /\ 2 - 1 = 1 /\ 2 > 1
        <5>1. n # 1
          BY <1>4, <3>1
        <5> HIDE DEF n
        <5> QED
          BY <1>1, <5>1
      <4>2. lines[2] # <<>>
        BY <1>2, <3>1, <4>1
      <4>3. CASE lines[n] = <<>>
        <5>1. n > 2 /\ n - 1 \in 1 .. n
          BY <3>1, <4>1, <4>2, <4>3
        <5>2. lines[n - 1] # <<>>
          BY <1>1, <1>2, <4>1, <4>3
        <5> QED
          BY <3>1, <4>1, <4>2, <4>3, <5>1, <5>2
      <4> QED
        BY <1>1, <3>1, <4>1, <4>2, <4>3
    <3>2. CASE lines[1] # <<>>
      <4>1. CASE lines[n] = <<>>
        <5>1. n > 1 /\ n - 1 \in 1 .. n
          BY <1>1, <3>2, <4>1
        <5>2. lines[n - 1] # <<>>
          BY <1>1, <1>2, <5>1, <4>1
        <5> QED
          BY <3>2, <4>1, <5>1, <5>2
      <4> QED
        BY <1>1, <3>2, <4>1
    <3> QED
      BY <3>1, <3>2
  <2>2. Part(mid, T, lines, i, j)
    <3> HIDE DEF i, j
    <3> QED
      BY <2>1, TidyPart
  <2>3. Edged(t) /\ t \in Seq(T)
    <3> HIDE DEF i, j, mid
    <3>1. lines[i] \in Seq(T) /\ lines[j] \in Seq(T) /\ Plain(lines[i]) /\ Plain(lines[j])
      BY <1>1, <2>1 DEF Tidy
    <3>2. Edged(lines[i]) /\ Edged(lines[j])
      BY <2>1, <3>1, SpacedIsEdged
    <3> QED
      BY <2>2, <3>2, JoinedIsEdged, JoinedTyped DEF Part
  <2>4. Strip(Joined(lines)) = t
    <3> DEFINE rest == SubSeq(lines, i, n)
               r == Joined(rest)
    <3>1. Part(rest, T, lines, i, n)
      <4>1. i <= n
        BY <2>1
      <4> HIDE DEF i
      <4> QED
        BY <1>1, <2>1, <4>1, TidyPart
    <3>2. r \in Seq(T)
      <4> HIDE DEF rest
      <4> QED
        BY <3>1, JoinedTyped DEF Part
    <3>3. \E p \in Nat : /\ Len(Joined(lines)) = p + Len(r)
                         /\ \A k \in 1 .. Len(r) : Joined(lines)[p + k] = r[k]
                         /\ \A k \in 1 .. p : IsWhite(Joined(lines)[k])
      <4>1. CASE lines[1] = <<>>
        <5>1. i = 2 /\ n > 1
          <6>1. n # 1 /\ i = 2
            BY <1>4, <4>1
          <6> HIDE DEF n, i
          <6> QED
            BY <1>1, <6>1
        <5>2. Joined(lines) = Under(<<>>, r)
          BY <4>1, <5>1, JoinedWithFirst
        <5> HIDE DEF r
        <5>3. UnderValues(Joined(lines), 0, <<>>, Len(r), r)
          <6>1. <<>> \in Seq(T) /\ Len(<<>>) = 0
            OBVIOUS
          <6> QED
            BY <3>2, <5>2, <6>1, UnderIs
        <5>4. Len(r) \in Nat /\ 0 + 1 = 1 /\ \A k \in 1 .. 1 : k = 1
          BY <3>2
        <5>5. Len(Joined(lines)) = 1 + Len(r) /\ Joined(lines)[1] = Newline
              /\ \A k \in 1 .. Len(r) : Joined(lines)[1 + k] = r[k]
          BY <5>3, <5>4 DEF UnderValues
        <5> QED
          BY <5>4, <5>5, Marked
      <4>2. CASE lines[1] # <<>>
        <5>1. i = 1
          BY <4>2
        <5>2. rest = lines
          BY <5>1, SubSeqFull
        <5>3. Len(r) \in Nat
          BY <3>2
        <5> HIDE DEF rest
        <5>4. Joined(lines) = r
          BY <5>2
        <5> HIDE DEF r
        <5>5. Len(r) = 0 + Len(r) /\ (\A k \in 1 .. Len(r) : 0 + k = k) /\ \A k \in 1 .. 0 : FALSE
          BY <5>3
        <5> WITNESS 0 \in Nat
        <5> QED
          BY <5>4, <5>5
      <4> QED
        BY <4>1, <4>2
    <3>4. \E q \in Nat : /\ Len(r) = Len(t) + q
                         /\ \A k \in 1 .. Len(t) : r[k] = t[k]
                         /\ \A k \in 1 .. Len(r) : k > Len(t) => IsWhite(r[k])
      <4>1. CASE lines[n] = <<>>
        <5>1. j = n - 1 /\ i <= n - 1
          BY <2>1, <4>1
        <5>2. rest = Append(mid, <<>>)
          <6> HIDE DEF i
          <6>1. rest = Append(SubSeq(lines, i, n - 1), lines[n])
            BY <1>1, <2>1, <5>1
          <6> QED
            BY <4>1, <5>1, <6>1
        <5> HIDE DEF mid, rest
        <5>3. r = Under(t, <<>>)
          <6>1. <<>> \in Seq(T)
            OBVIOUS
          <6> QED
            BY <2>2, <5>2, <6>1, JoinedWithMore DEF Part
        <5> HIDE DEF r, t
        <5>4. UnderValues(r, Len(t), t, 0, <<>>)
          <6>1. <<>> \in Seq(T) /\ Len(<<>>) = 0
            OBVIOUS
          <6> QED
            BY <2>3, <5>3, <6>1, UnderIs
        <5>5. Len(t) \in Nat /\ Len(t) + 1 + 0 = Len(t) + 1
              /\ \A k \in 1 .. Len(t) + 1 : k > Len(t) => k = Len(t) + 1
          BY <2>3
        <5>6. /\ Len(r) = Len(t) + 1 /\ r[Len(t) + 1] = Newline
              /\ \A k \in 1 .. Len(t) : r[k] = t[k]
          BY <5>4, <5>5 DEF UnderValues
        <5> QED
          BY <5>5, <5>6, Marked
      <4>2. CASE lines[n] # <<>>
        <5>1. j = n
          BY <4>2
        <5>2. mid = rest
          <6> HIDE DEF i, j, n
          <6> QED
            BY <5>1
        <5> HIDE DEF mid, rest
        <5>5. t = r
          BY <5>2
        <5> HIDE DEF r, t
        <5>6. Len(t) \in Nat
          BY <2>3
        <5>3. Len(t) = Len(t) + 0
          BY <5>6
        <5>4. \A k \in 1 .. Len(t) : ~ (k > Len(t))
          BY <5>6
        <5> WITNESS 0 \in Nat
        <5> QED
          BY <5>3, <5>4, <5>5
      <4> QED
        BY <4>1, <4>2
    <3> DEFINE u == Joined(lines)
    <3>5. u \in Seq(T)
      BY JoinedTyped
    <3> HIDE DEF u, r, t
    <3>6. PICK p \in Nat : /\ Len(u) = p + Len(r)
                           /\ \A k \in 1 .. Len(r) : u[p + k] = r[k]
                           /\ \A k \in 1 .. p : IsWhite(u[k])
      BY <3>3 DEF u
    <3>7. PICK q \in Nat : /\ Len(r) = Len(t) + q
                           /\ \A k \in 1 .. Len(t) : r[k] = t[k]
                           /\ \A k \in 1 .. Len(r) : k > Len(t) => IsWhite(r[k])
      BY <3>4
    <3>8. Len(t) \in Nat /\ Len(r) \in Nat
      BY <2>3, <3>2
    <3>9. Framed(u, p, t, q)
      <4>1. Len(u) = p + Len(t) + q
        BY <3>6, <3>7, <3>8
      <4>2. \A k \in 1 .. Len(t) : k \in 1 .. Len(r)
        BY <3>7, <3>8
      <4>3. \A k \in 1 .. Len(t) : u[p + k] = t[k]
        BY <3>6, <3>7, <4>2
      <4>4. ASSUME NEW k \in 1 .. Len(u), k <= p PROVE IsWhite(u[k])
        <5>1. k \in 1 .. p
          BY <4>4
        <5> QED
          BY <3>6, <5>1
      <4>5. ASSUME NEW k \in 1 .. Len(u), k > p + Len(t) PROVE IsWhite(u[k])
        <5>1. k - p \in 1 .. Len(r) /\ k - p > Len(t) /\ p + (k - p) = k
          BY <3>6, <3>8, <4>5
        <5> QED
          BY <3>6, <3>7, <5>1
      <4> QED
        BY <4>1, <4>3, <4>4, <4>5 DEF Framed
    <3>10. Strip(u) = t
      BY <2>3, <3>5, <3>9, StripOfFramed
    <3> QED
      BY <3>10 DEF u
  <2>5. mid[1] # <<>> /\ mid[Len(mid)] # <<>>
    <3> HIDE DEF i, j, mid
    <3> QED
      BY <2>1, <2>2 DEF Part
  <2> HIDE DEF mid
  <2>6. Clean(Strip(Joined(lines)), mid, T)
    BY <2>2, <2>4, <2>5 DEF Clean, Part
  <2> QED
    BY <2>6
<1> QED
  BY <1>3, <1>4

\* Joined plain lines have no symbols that UnixLines changes.
Unix(text) == \A i \in 1 .. Len(text) : text[i] # Return /\ text[i] # NoBreak

\* A plain line holds no \r and no \xa0.
LEMMA PlainIsUnix == ASSUME NEW line, Plain(line) PROVE Unix(line)
BY Marked DEF Plain, Spaced, Unix

\* A line put under a text adds no \r and no \xa0.
LEMMA UnderIsUnix ==
  ASSUME NEW T, Newline \in T, NEW text \in Seq(T), NEW line \in Seq(T), Unix(text), Unix(line)
  PROVE  Unix(Under(text, line))
<1> DEFINE n == Len(text)
           m == Len(line)
           t == Under(text, line)
<1>1. n \in Nat /\ m \in Nat
  OBVIOUS
<1>2. t \in Seq(T) /\ UnderValues(t, n, text, m, line)
  BY UnderIs
<1>3. (\A i \in 1 .. n : text[i] # Return /\ text[i] # NoBreak)
      /\ \A i \in 1 .. m : line[i] # Return /\ line[i] # NoBreak
  BY DEF Unix
<1> HIDE DEF n, m, t
<1>4. ASSUME NEW i \in 1 .. n + 1 + m PROVE t[i] # Return /\ t[i] # NoBreak
  <2>1. CASE i \in 1 .. n
    BY <1>2, <1>3, <2>1 DEF UnderValues
  <2>2. CASE i = n + 1
    BY <1>2, <2>2 DEF UnderValues, Newline, Return, NoBreak
  <2>3. CASE i > n + 1
    <3>1. i - n - 1 \in 1 .. m /\ n + 1 + (i - n - 1) = i
      BY <1>1, <2>3
    <3> QED
      BY <1>2, <1>3, <3>1 DEF UnderValues
  <2> QED
    BY <1>1, <2>1, <2>2, <2>3
<1>5. Len(t) = n + 1 + m
  BY <1>2 DEF UnderValues
<1> QED
  BY <1>4, <1>5 DEF Unix, t

\* Tidy lines are joined into a text with no \r and no \xa0.
LEMMA JoinedIsUnix ==
  ASSUME NEW T, Space \in T, Newline \in T, NEW lines \in Seq(Seq(T)), lines # <<>>, Tidy(lines)
  PROVE  Unix(Joined(lines))
<1> DEFINE n == Len(lines)
           from(k) == SubSeq(lines, 1, k)
<1>1. n \in Nat /\ n \in 1 .. n /\ 1 \in 1 .. n /\ \A k \in 1 .. n : lines[k] \in Seq(T)
  OBVIOUS
<1>2. from(n) = lines /\ from(1) = <<lines[1]>>
  BY <1>1, SubSeqOfOne, SubSeqFull
<1>3. \A k \in 2 .. n : from(k) = Append(from(k - 1), lines[k]) /\ from(k - 1) \in Seq(Seq(T))
                        /\ Len(from(k - 1)) = k - 1
  OBVIOUS
<1>4. \A k \in 1 .. n : Unix(lines[k])
  BY PlainIsUnix DEF Tidy
<1> HIDE DEF n, from
<1> DEFINE m == n - 1
           G == {k \in 0 .. m : Unix(Joined(from(k + 1)))}
<1>5. m \in Nat /\ m + 1 = n /\ m \in 0 .. m /\ 0 \in 0 .. m /\ 0 + 1 = 1
  BY <1>1
<1>6. 0 \in G
  <2>1. Joined(<<lines[1]>>) = lines[1]
    BY <1>1, JoinedOfOne
  <2> QED
    BY <1>1, <1>2, <1>4, <1>5, <2>1
<1>7. ASSUME NEW k \in 1 .. m, k - 1 \in G PROVE k \in G
  <2> DEFINE j == k + 1
             before == from(k)
  <2>1. j \in 2 .. n /\ j \in 1 .. n /\ j - 1 = k /\ (k - 1) + 1 = k /\ k \in 0 .. m /\ k # 0
    BY <1>1
  <2>2. before \in Seq(Seq(T)) /\ from(j) = Append(before, lines[j]) /\ Len(before) = k
    BY <1>3, <2>1
  <2>3. before # <<>>
    BY <2>1, <2>2, LongIsNotEmpty
  <2>4. Unix(Joined(before))
    BY <1>7, <2>1
  <2>5. lines[j] \in Seq(T) /\ Unix(lines[j])
    BY <1>1, <1>4, <2>1
  <2> HIDE DEF j, before
  <2>6. Joined(before) \in Seq(T) /\ Joined(from(j)) = Under(Joined(before), lines[j])
    BY <2>2, <2>3, <2>5, JoinedTyped, JoinedWithMore
  <2>7. Unix(Joined(from(j)))
    BY <2>4, <2>5, <2>6, UnderIsUnix
  <2> QED
    BY <2>1, <2>7 DEF j
<1>8. 0 .. m \subseteq G
  <2> HIDE DEF G, m
  <2> QED
    BY <1>5, <1>6, <1>7, IntervalInduction
<1> QED
  BY <1>2, <1>5, <1>8

\* Converting line ends leaves a text with no \r and no \xa0 alone.
LEMMA UnixStays ==
  ASSUME NEW T, Space \in T, Newline \in T, NEW text \in Seq(T), Unix(text)
  PROVE  UnixLines(text) = text
<1> DEFINE n == Len(text)
           from(k) == SubSeq(text, 1, k)
<1>1. n \in Nat /\ DOMAIN text = 1 .. n /\ \A i \in 1 .. n : text[i] \in T
  OBVIOUS
<1>2. from(0) = <<>> /\ from(n) = text /\ \A k \in 1 .. n : from(k) = Append(from(k - 1), text[k])
  OBVIOUS
<1>3. \A k \in 1 .. n : text[k] # Return /\ text[k] # NoBreak
  BY DEF Unix
<1> HIDE DEF n, from
<1>4. PICK f : UnixRun(f, T, text, n)
  BY <1>1, UnixRuns
<1> DEFINE G == {k \in 0 .. n : f[k] = from(k)}
<1>5. 0 \in G
  BY <1>1, <1>2, <1>4 DEF UnixRun
<1>6. ASSUME NEW k \in 1 .. n, k - 1 \in G PROVE k \in G
  <2>1. k \in 0 .. n /\ IsKept(text, k) /\ Converted(text[k]) = text[k]
    BY <1>1, <1>3 DEF IsKept, Converted
  <2>2. f[k] = Append(f[k - 1], text[k])
    BY <1>4, <2>1 DEF UnixRun
  <2>3. f[k - 1] = from(k - 1)
    BY <1>6
  <2> QED
    BY <1>2, <2>1, <2>2, <2>3
<1>7. 0 .. n \subseteq G
  <2> HIDE DEF G
  <2> QED
    BY <1>1, <1>5, <1>6, IntervalInduction
<1>8. n \in 0 .. n
  BY <1>1
<1> QED
  BY <1>2, <1>4, <1>7, <1>8 DEF UnixRun

\* Converting line ends gives symbols.
LEMMA UnixLinesTyped ==
  ASSUME NEW T, Space \in T, Newline \in T, NEW text \in Seq(T)
  PROVE  UnixLines(text) \in Seq(T)
<1> DEFINE n == Len(text)
<1>1. n \in Nat /\ DOMAIN text = 1 .. n /\ \A i \in 1 .. n : text[i] \in T
  OBVIOUS
<1> HIDE DEF n
<1>2. PICK f : UnixRun(f, T, text, n)
  BY <1>1, UnixRuns
<1>3. n \in 0 .. n
  BY <1>1
<1> QED
  BY <1>2, <1>3 DEF UnixRun

\* Joining cut words adds no symbol.
LEMMA DehyphenatedTyped ==
  ASSUME NEW T, Space \in T, Newline \in T, NEW text \in Seq(T)
  PROVE  Dehyphenated(text) \in Seq(T)
<1> DEFINE n == Len(text)
<1>1. n \in Nat /\ DOMAIN text = 1 .. n /\ \A i \in 1 .. n : text[i] \in T
  OBVIOUS
<1> HIDE DEF n
<1>2. PICK f : DehyphenatedRun(f, T, text, n)
  BY <1>1, DehyphenatedRuns
<1>3. n \in 0 .. n
  BY <1>1
<1> QED
  BY <1>2, <1>3 DEF DehyphenatedRun

\* A text has at least one line, and its lines have its symbols.
LEMMA LinesTyped ==
  ASSUME NEW T, Space \in T, Newline \in T, NEW text \in Seq(T)
  PROVE  Lines(text) \in Seq(Seq(T)) /\ Lines(text) # <<>>
<1> DEFINE n == Len(text)
<1>1. n \in Nat /\ DOMAIN text = 1 .. n /\ (\A i \in 1 .. n : text[i] \in T)
  OBVIOUS
<1> HIDE DEF n
<1>2. PICK f : LinesRun(f, T, text, n)
  BY <1>1, LinesRuns
<1>3. n \in 0 .. n
  BY <1>1
<1> QED
  BY <1>2, <1>3 DEF LinesRun

\* What cleaning makes of a text is made of tidy lines.
LEMMA CleanedIsClean ==
  ASSUME NEW T, Space \in T, Newline \in T, NEW text \in Seq(T)
  PROVE  \E lines : Clean(Cleaned(text), lines, T)
<1> DEFINE raw == Lines(Dehyphenated(UnixLines(text)))
           kept == CleanLines(raw)
<1>1. raw \in Seq(Seq(T)) /\ raw # <<>>
  BY UnixLinesTyped, DehyphenatedTyped, LinesTyped
<1>2. Cleaned(text) = Strip(Joined(kept))
  BY DEF Cleaned
<1> HIDE DEF raw
<1>3. Tidy(kept) /\ kept \in Seq(Seq(T)) /\ kept # <<>>
  BY <1>1, CleanLinesAreTidy
<1> HIDE DEF kept
<1> QED
  BY <1>2, <1>3, StripOfJoined

\* A cleaned text is made of the symbols of the text, of spaces and of newlines.
LEMMA CleanedTyped ==
  ASSUME NEW T, Space \in T, Newline \in T, NEW text \in Seq(T)
  PROVE  Cleaned(text) \in Seq(T)
BY CleanedIsClean, JoinedTyped DEF Clean

-------------------------------------------------------------------------------
(* Substitution *)

\* What is left of a text from each position on.
SubstitutedRun(from, T, text, value, token) ==
  /\ from \in [1 .. Len(text) + 1 -> Seq(T)]
  /\ from[Len(text) + 1] = <<>>
  /\ \A i \in 1 .. Len(text) :
       from[i] = IF WholeWordAt(text, value, i) THEN token \o from[i + Len(value)]
                 ELSE <<text[i]>> \o from[i + 1]

\* re.sub is such a run, read from its end.
LEMMA SubstitutedRuns ==
  ASSUME NEW T, NEW text \in Seq(T), NEW value \in Seq(T), value # <<>>, NEW token \in Seq(T)
  PROVE  \E from : /\ SubstitutedRun(from, T, text, value, token)
                   /\ Substituted(text, value, token) = from[1]
<1> DEFINE n == Len(text)
           m == Len(value)
           D == 1 .. n + 1
           At(i) == WholeWordAt(text, value, i)
           Rest(f, i) == IF i > n THEN <<>> ELSE IF At(i) THEN token \o f[i + m]
                         ELSE <<text[i]>> \o f[i + 1]
           Iterates(f) == f = [i \in D |-> Rest(f, i)]
           UpTo(k, f) == f \in [D -> Seq(T)] /\ \A i \in D : i + k > n => f[i] = Rest(f, i)
           G == {k \in Nat : \E f : UpTo(k, f)}
           from == CHOOSE f : Iterates(f)
<1>1. n \in Nat /\ m \in Nat /\ m > 0 /\ \A i \in 1 .. n : text[i] \in T /\ <<text[i]>> \in Seq(T)
  OBVIOUS
<1>2. ASSUME NEW i \in D, At(i) PROVE i + m \in D /\ i <= n
  BY <1>1, <1>2 DEF WholeWordAt, MatchesAt
<1>3. Substituted(text, value, token) = from[1]
  BY DEF Substituted
<1> HIDE DEF n, m, At
<1>4. ASSUME NEW f \in [D -> Seq(T)], NEW i \in D PROVE Rest(f, i) \in Seq(T)
  <2>1. CASE i > n
    BY <2>1
  <2>2. CASE i <= n /\ At(i)
    <3>1. f[i + m] \in Seq(T)
      BY <1>2, <2>2
    <3> QED
      BY <1>1, <2>2, <3>1
  <2>3. CASE i <= n /\ ~At(i)
    <3>1. f[i + 1] \in Seq(T) /\ <<text[i]>> \in Seq(T)
      BY <1>1, <2>3
    <3> QED
      BY <1>1, <2>3, <3>1
  <2> QED
    BY <1>1, <2>1, <2>2, <2>3
<1>5. 0 \in G
  <2>1. UpTo(0, [i \in D |-> <<>>])
    BY <1>1
  <2> QED
    BY <2>1
<1>6. ASSUME NEW k \in Nat, k \in G PROVE k + 1 \in G
  <2>1. PICK f : UpTo(k, f)
    BY <1>6
  <2> DEFINE h == [i \in D |-> Rest(f, i)]
  <2>2. h \in [D -> Seq(T)]
    <3> HIDE DEF Rest
    <3> QED
      BY <1>4, <2>1
  <2>3. \A i \in D : h[i] = Rest(f, i)
    OBVIOUS
  <2> HIDE DEF h
  <2>4. \A i \in D : i + k > n => h[i] = f[i]
    BY <2>1, <2>3
  <2>5. ASSUME NEW i \in D, i + (k + 1) > n PROVE h[i] = Rest(h, i)
    <3>1. CASE i > n
      BY <2>3, <3>1
    <3>2. CASE i <= n /\ At(i)
      <4>1. i + m \in D /\ (i + m) + k > n
        BY <1>1, <1>2, <2>5, <3>2
      <4>2. h[i + m] = f[i + m]
        BY <2>4, <4>1
      <4> QED
        BY <2>3, <3>2, <4>2
    <3>3. CASE i <= n /\ ~At(i)
      <4>1. i + 1 \in D /\ (i + 1) + k > n
        BY <1>1, <2>5, <3>3
      <4>2. h[i + 1] = f[i + 1]
        BY <2>4, <4>1
      <4> QED
        BY <2>3, <3>3, <4>2
    <3> QED
      BY <1>1, <3>1, <3>2, <3>3
  <2>6. UpTo(k + 1, h)
    BY <2>2, <2>5
  <2> HIDE DEF UpTo
  <2> QED
    BY <2>6
<1>7. n + 1 \in G
  <2> HIDE DEF G
  <2> QED
    BY <1>1, <1>5, <1>6, NaturalInduction
<1>8. PICK f : UpTo(n + 1, f)
  BY <1>7
<1>9. Iterates(f)
  <2>1. \A i \in D : i + (n + 1) > n
    BY <1>1
  <2>2. \A i \in D : f[i] = Rest(f, i)
    BY <1>8, <2>1
  <2> HIDE DEF Rest
  <2> QED
    BY <1>8, <2>2
<1>10. Iterates(from)
  <2> HIDE DEF Iterates
  <2> QED
    BY <1>9
<1> HIDE DEF from
<1>11. \A i \in D : from[i] = Rest(from, i)
  BY <1>10
<1>18. \A i \in D : i > n => from[i] = <<>>
  BY <1>11
<1>19. ASSUME NEW i \in D, i <= n PROVE from[i] = IF At(i) THEN token \o from[i + m] ELSE <<text[i]>> \o from[i + 1]
  BY <1>1, <1>11, <1>19
<1>20. <<>> \in Seq(T) /\ \A a, b \in Seq(T) : a \o b \in Seq(T)
  OBVIOUS
<1> HIDE DEF Rest, G, UpTo, Iterates
<1> DEFINE S == Seq(T)
           H == {k \in Nat : \A i \in D : i + k > n => from[i] \in S}
<1>12. 0 \in H
  <2> SUFFICES ASSUME NEW i \in D, i + 0 > n PROVE from[i] \in S
    OBVIOUS
  <2>1. from[i] = <<>>
    BY <1>1, <1>18
  <2> QED
    BY <1>20, <2>1
<1>13. ASSUME NEW k \in Nat, k \in H PROVE k + 1 \in H
  <2> SUFFICES ASSUME NEW i \in D, i + (k + 1) > n PROVE from[i] \in Seq(T)
    OBVIOUS
  <2>1. CASE i > n
    BY <1>18, <1>20, <2>1
  <2>2. CASE i <= n /\ At(i)
    <3>1. i + m \in D /\ (i + m) + k > n
      BY <1>1, <1>2, <2>2
    <3>2. from[i + m] \in Seq(T)
      BY <1>13, <3>1
    <3> QED
      BY <1>1, <1>19, <1>20, <2>2, <3>2
  <2>3. CASE i <= n /\ ~At(i)
    <3>1. i + 1 \in D /\ (i + 1) + k > n
      BY <1>1, <2>3
    <3>2. from[i + 1] \in Seq(T)
      BY <1>13, <3>1
    <3>3. from[i] = <<text[i]>> \o from[i + 1]
      BY <1>19, <2>3
    <3>4. i \in 1 .. n
      BY <1>1, <2>3
    <3>5. <<text[i]>> \in Seq(T)
      BY <1>1, <3>4
    <3> QED
      BY <1>20, <3>2, <3>3, <3>5
  <2> QED
    BY <1>1, <2>1, <2>2, <2>3
<1>14. n + 1 \in H
  <2> HIDE DEF H
  <2> QED
    BY <1>1, <1>12, <1>13, NaturalInduction
<1>15. from \in [D -> Seq(T)]
  <2>1. \A i \in D : i + (n + 1) > n
    BY <1>1
  <2>2. \A i \in D : from[i] \in Seq(T)
    BY <1>14, <2>1
  <2>3. DOMAIN from = D /\ from = [i \in D |-> from[i]]
    BY <1>10 DEF Iterates
  <2> QED
    BY <2>2, <2>3
<1>16. n + 1 \in D /\ n + 1 > n /\ \A i \in 1 .. n : i \in D /\ ~(i > n)
  BY <1>1
<1>17. from[n + 1] = <<>> /\ \A i \in 1 .. n :
         from[i] = IF At(i) THEN token \o from[i + m] ELSE <<text[i]>> \o from[i + 1]
  BY <1>16, <1>18, <1>19
<1> QED
  BY <1>3, <1>15, <1>17 DEF SubstitutedRun, n, m, At

\* Where each symbol of a text comes from in another one that it was made from: its
\* position there, or 0.  No symbol comes from position x.
Lost(o, x) == \A p \in DOMAIN o : o[p] # x

\* Symbols come from positions from a on, in their order, and are what stands there.
Sources(raw, a, cur, o) ==
  /\ o \in [1 .. Len(cur) -> {0} \cup a .. Len(raw)]
  /\ \A p \in 1 .. Len(cur) : o[p] # 0 => cur[p] = raw[o[p]]
  /\ \A p, q \in 1 .. Len(cur) : p < q /\ o[p] # 0 /\ o[q] # 0 => o[p] < o[q]

\* After a symbol stands the one that stood there, or the begin of a token that replaces it.
Onward(raw, cur, o) ==
  \A p \in 1 .. Len(cur) :
    o[p] # 0 => IF p < Len(cur) /\ o[p + 1] # 0 THEN o[p + 1] = o[p] + 1
                ELSE /\ p < Len(cur) => cur[p + 1] = "["
                     /\ o[p] < Len(raw) => Lost(o, o[p] + 1)

\* Before a symbol stands the one that stood there, or the end of a token that replaces it.
Backward(a, cur, o) ==
  \A p \in 1 .. Len(cur) :
    o[p] # 0 => IF p > 1 /\ o[p - 1] # 0 THEN o[p - 1] = o[p] - 1
                ELSE /\ p > 1 => cur[p - 1] = "]"
                     /\ o[p] > a => Lost(o, o[p] - 1)

\* A symbol from nowhere is a bracket, or a kind between brackets.
InTokens(cur, o, kinds) ==
  \A p \in 1 .. Len(cur) :
    o[p] = 0 /\ cur[p] \notin {"[", "]"} =>
      /\ cur[p] \in kinds
      /\ 1 < p /\ p < Len(cur) /\ cur[p - 1] = "[" /\ cur[p + 1] = "]"

\* What is lost is lost with a whole value.
Replaced(raw, a, o, values) ==
  \A x \in a .. Len(raw) :
    Lost(o, x) => \E value \in values, k \in a .. Len(raw) :
                    /\ WholeWordAt(raw, value, k)
                    /\ k <= x /\ x < k + Len(value)
                    /\ \A y \in k .. k + Len(value) - 1 : Lost(o, y)

Traced(raw, a, cur, o, values, kinds) ==
  /\ Sources(raw, a, cur, o) /\ Onward(raw, cur, o) /\ Backward(a, cur, o)
  /\ InTokens(cur, o, kinds) /\ Replaced(raw, a, o, values)

\* No value begins where something is left.
Met(raw, a, o, value) == \A j \in a .. Len(raw) : WholeWordAt(raw, value, j) => Lost(o, j)

\* How the text begins.
Opens(raw, a, cur, o) ==
  IF a > Len(raw) THEN cur = <<>>
  ELSE /\ Len(cur) > 0
       /\ IF o[1] # 0 THEN o[1] = a ELSE cur[1] = "[" /\ Lost(o, a)

TracedFrom(raw, a, cur, o, value, kind) ==
  /\ Traced(raw, a, cur, o, {value}, {kind})
  /\ Met(raw, a, o, value) /\ Opens(raw, a, cur, o)

\* A symbol that is kept.
LEMMA TracedOn ==
  ASSUME NEW T, NEW raw \in Seq(T), NEW a \in 1 .. Len(raw), NEW value, NEW kind,
         ~WholeWordAt(raw, value, a), NEW rest \in Seq(T), NEW o,
         TracedFrom(raw, a + 1, rest, o, value, kind)
  PROVE  \E q : TracedFrom(raw, a, <<raw[a]>> \o rest, q, value, kind)
<1> DEFINE n == Len(raw)
           L == Len(rest)
           s == raw[a]
           cur == <<s>> \o rest
           q == [p \in 1 .. L + 1 |-> IF p = 1 THEN a ELSE o[p - 1]]
           b == a + 1
<1>1. n \in Nat /\ L \in Nat /\ a \in Nat /\ 1 <= a /\ a <= n /\ b = a + 1 /\ b \in Nat
  OBVIOUS
<1>2. Len(cur) = L + 1 /\ cur[1] = s /\ \A p \in 2 .. L + 1 : cur[p] = rest[p - 1] /\ p - 1 \in 1 .. L
  OBVIOUS
<1>3. DOMAIN q = 1 .. L + 1 /\ q[1] = a /\ \A p \in 2 .. L + 1 : q[p] = o[p - 1]
  BY <1>1
<1>4. /\ DOMAIN o = 1 .. L /\ \A p \in 1 .. L : o[p] = 0 \/ (o[p] \in Nat /\ b <= o[p] /\ o[p] <= n)
      /\ \A p \in 1 .. L : o[p] # 0 => rest[p] = raw[o[p]]
      /\ \A p, r \in 1 .. L : p < r /\ o[p] # 0 /\ o[r] # 0 => o[p] < o[r]
  <2>1. Sources(raw, b, rest, o)
    BY DEF TracedFrom, Traced
  <2>2. /\ o \in [1 .. L -> {0} \cup b .. n]
        /\ \A p \in 1 .. L : o[p] # 0 => rest[p] = raw[o[p]]
        /\ \A p, r \in 1 .. L : p < r /\ o[p] # 0 /\ o[r] # 0 => o[p] < o[r]
    BY <2>1 DEF Sources
  <2> HIDE DEF n, L, b
  <2>3. ASSUME NEW p \in 1 .. L PROVE o[p] = 0 \/ (o[p] \in Nat /\ b <= o[p] /\ o[p] <= n)
    <3>1. o[p] \in {0} \cup b .. n
      BY <2>2
    <3> QED
      BY <1>1, <3>1
  <2> QED
    BY <2>2, <2>3
<1>5. Onward(raw, rest, o) /\ Backward(b, rest, o) /\ InTokens(rest, o, {kind})
      /\ Replaced(raw, b, o, {value}) /\ Met(raw, b, o, value) /\ Opens(raw, b, rest, o)
  BY DEF TracedFrom, Traced
<1> HIDE DEF n, L, cur, q, b, s
<1>6. \A p \in 1 .. L : p + 1 \in 2 .. L + 1 /\ cur[p + 1] = rest[p] /\ q[p + 1] = o[p] /\ (p + 1) - 1 = p
  <2> TAKE p \in 1 .. L
  <2>1. p + 1 \in 2 .. L + 1 /\ (p + 1) - 1 = p
    BY <1>1
  <2> QED
    BY <1>2, <1>3, <2>1
<1>7. \A p \in 1 .. L + 1 : p = 1 \/ p \in 2 .. L + 1
  BY <1>1
<1>8. \A x : x # a /\ Lost(o, x) => Lost(q, x)
  <2> SUFFICES ASSUME NEW x, x # a, Lost(o, x), NEW p \in 1 .. L + 1 PROVE q[p] # x
    BY <1>3 DEF Lost
  <2>1. CASE p = 1
    BY <1>3, <2>1
  <2>2. CASE p \in 2 .. L + 1
    BY <1>2, <1>3, <1>4, <2>2 DEF Lost
  <2> QED
    BY <1>7, <2>1, <2>2
<1>9. ASSUME NEW x, Lost(q, x) PROVE x # a /\ Lost(o, x)
  <2>1. 1 \in 1 .. L + 1
    BY <1>1
  <2>2. ASSUME NEW r \in 1 .. L PROVE o[r] # x
    <3>1. r + 1 \in 1 .. L + 1 /\ q[r + 1] = o[r]
      BY <1>1, <1>6
    <3> QED
      BY <1>3, <1>9, <3>1 DEF Lost
  <2> QED
    BY <1>3, <1>4, <1>9, <2>1, <2>2 DEF Lost
<1>10. \A p \in 2 .. L + 1 : q[p] = 0 \/ (q[p] \in Nat /\ b <= q[p] /\ q[p] <= n)
  BY <1>2, <1>3, <1>4
<1>11. Sources(raw, a, cur, q)
  <2>1. \A p \in 1 .. L + 1 : q[p] \in {0} \cup a .. n
    BY <1>1, <1>3, <1>7, <1>10
  <2>2. q \in [1 .. Len(cur) -> {0} \cup a .. Len(raw)]
    BY <1>2, <2>1 DEF n, q
  <2>3. \A p \in 1 .. L + 1 : q[p] # 0 => cur[p] = raw[q[p]]
    BY <1>2, <1>3, <1>4, <1>7 DEF s
  <2>4. ASSUME NEW p \in 1 .. L + 1, NEW r \in 1 .. L + 1, p < r, q[p] # 0, q[r] # 0 PROVE q[p] < q[r]
    <3>1. r \in 2 .. L + 1
      BY <1>1, <2>4
    <3>2. CASE p = 1
      BY <1>1, <1>3, <1>10, <2>4, <3>1, <3>2
    <3>3. CASE p \in 2 .. L + 1
      <4>1. p - 1 \in 1 .. L /\ r - 1 \in 1 .. L /\ p - 1 < r - 1
        BY <1>1, <2>4, <3>1, <3>3
      <4> QED
        BY <1>3, <1>4, <2>4, <3>1, <3>3, <4>1
    <3> QED
      BY <1>7, <3>2, <3>3
  <2> QED
    BY <1>2, <2>2, <2>3, <2>4 DEF Sources
<1>12. Onward(raw, cur, q)
  <2> SUFFICES ASSUME NEW p \in 1 .. L + 1, q[p] # 0
               PROVE  IF p < L + 1 /\ q[p + 1] # 0 THEN q[p + 1] = q[p] + 1
                      ELSE /\ p < L + 1 => cur[p + 1] = "["
                           /\ q[p] < n => Lost(q, q[p] + 1)
    BY <1>2 DEF Onward, n
  <2>1. CASE p = 1
    <3>1. CASE b > n
      <4>1. rest = <<>> /\ L = 0
        BY <1>5, <3>1 DEF Opens, n, L
      <4> QED
        BY <1>1, <1>3, <2>1, <3>1, <4>1
    <3>2. CASE b <= n
      <4>1. L > 0 /\ IF o[1] # 0 THEN o[1] = b ELSE rest[1] = "[" /\ Lost(o, b)
        BY <1>1, <1>5, <3>2 DEF Opens, n, L
      <4>2. 1 \in 1 .. L /\ 1 + 1 = 2 /\ q[2] = o[1] /\ cur[2] = rest[1] /\ p + 1 = 2
        BY <1>1, <1>6, <2>1, <4>1
      <4>3. Lost(o, b) => Lost(q, b)
        BY <1>1, <1>8
      <4> QED
        BY <1>1, <1>3, <2>1, <4>1, <4>2, <4>3
    <3> QED
      BY <1>1, <3>1, <3>2
  <2>2. CASE p \in 2 .. L + 1
    <3>1. PICK r \in 1 .. L : r = p - 1 /\ p = r + 1
      BY <1>1, <2>2
    <3>2. q[p] = o[r] /\ o[r] # 0
      BY <1>6, <3>1
    <3>3. IF r < L /\ o[r + 1] # 0 THEN o[r + 1] = o[r] + 1
          ELSE /\ r < L => rest[r + 1] = "["
               /\ o[r] < n => Lost(o, o[r] + 1)
      BY <1>5, <3>2 DEF Onward, n, L
    <3>4. p < L + 1 => r < L /\ q[p + 1] = o[r + 1] /\ cur[p + 1] = rest[r + 1]
      <4>1. p < L + 1 => r < L /\ r + 1 \in 1 .. L /\ p + 1 = (r + 1) + 1
        BY <1>1, <3>1
      <4> QED
        BY <1>6, <4>1
    <3>5. r < L => p < L + 1
      BY <1>1, <3>1
    <3>6. Lost(o, o[r] + 1) => Lost(q, o[r] + 1)
      BY <1>1, <1>4, <1>8, <3>2
    <3> QED
      BY <3>2, <3>3, <3>4, <3>5, <3>6
  <2> QED
    BY <1>7, <2>1, <2>2
<1>13. Backward(a, cur, q)
  <2> SUFFICES ASSUME NEW p \in 1 .. L + 1, q[p] # 0
               PROVE  IF p > 1 /\ q[p - 1] # 0 THEN q[p - 1] = q[p] - 1
                      ELSE /\ p > 1 => cur[p - 1] = "]"
                           /\ q[p] > a => Lost(q, q[p] - 1)
    BY <1>2 DEF Backward
  <2>1. CASE p = 1
    BY <1>1, <1>3, <2>1
  <2>2. CASE p = 2
    <3>4. 1 \in 1 .. L /\ 1 + 1 = 2 /\ 1 <= L
      BY <1>1, <2>2
    <3>1. 1 \in 1 .. L /\ q[2] = o[1] /\ 1 <= L /\ o[1] # 0
      BY <1>6, <2>2, <3>4
    <3>2. o[1] = b
      <4>1. b <= n
        BY <1>1, <1>4, <3>1
      <4> QED
        BY <1>1, <1>5, <3>1, <4>1 DEF Opens, n
    <3> QED
      BY <1>1, <1>3, <2>2, <3>1, <3>2
  <2>3. CASE p \in 3 .. L + 1
    <3>1. PICK r \in 1 .. L : r = p - 1 /\ p = r + 1 /\ r > 1 /\ r - 1 \in 1 .. L /\ p - 1 = (r - 1) + 1
      BY <1>1, <2>3
    <3>2. q[p] = o[r] /\ o[r] # 0 /\ q[p - 1] = o[r - 1] /\ cur[p - 1] = rest[r - 1]
      BY <1>6, <3>1
    <3>3. IF r > 1 /\ o[r - 1] # 0 THEN o[r - 1] = o[r] - 1
          ELSE /\ r > 1 => rest[r - 1] = "]"
               /\ o[r] > b => Lost(o, o[r] - 1)
      BY <1>5, <3>2 DEF Backward, L
    <3>4. o[r] > b /\ p > 1
      <4>1. CASE o[r - 1] = 0
        <5>1. 1 \in 1 .. L /\ b <= n /\ IF o[1] # 0 THEN o[1] = b ELSE Lost(o, b)
          BY <1>1, <1>4, <1>5, <3>1, <3>2 DEF Opens, n
        <5>2. o[1] # 0 => o[1] < o[r]
          BY <1>4, <3>1, <3>2, <5>1
        <5>3. Lost(o, b) => o[r] # b
          BY <1>4 DEF Lost
        <5> QED
          BY <1>1, <1>4, <3>1, <3>2, <5>1, <5>2, <5>3
      <4>2. CASE o[r - 1] # 0
        BY <1>1, <1>4, <3>1, <3>2, <4>2
      <4> QED
        BY <4>1, <4>2
    <3>5. Lost(o, o[r] - 1) => Lost(q, o[r] - 1)
      BY <1>1, <1>4, <1>8, <3>2, <3>4
    <3> QED
      BY <3>1, <3>2, <3>3, <3>4, <3>5
  <2> QED
    BY <1>1, <2>1, <2>2, <2>3
<1>14. InTokens(cur, q, {kind})
  <2> SUFFICES ASSUME NEW p \in 1 .. L + 1, q[p] = 0, cur[p] \notin {"[", "]"}
               PROVE  /\ cur[p] = kind
                      /\ 1 < p /\ p < L + 1 /\ cur[p - 1] = "[" /\ cur[p + 1] = "]"
    BY <1>2 DEF InTokens
  <2>1. p \in 2 .. L + 1
    BY <1>1, <1>3, <1>7
  <2>2. PICK r \in 1 .. L : p = r + 1 /\ r = p - 1
    BY <1>1, <2>1
  <2>3. q[p] = o[r] /\ cur[p] = rest[r]
    BY <1>6, <2>2
  <2>4. rest[r] = kind /\ 1 < r /\ r < L /\ rest[r - 1] = "[" /\ rest[r + 1] = "]"
    BY <1>5, <2>3 DEF InTokens, L
  <2>5. r - 1 \in 1 .. L /\ r + 1 \in 1 .. L /\ p - 1 = (r - 1) + 1 /\ p + 1 = (r + 1) + 1
    BY <1>1, <2>2, <2>4
  <2> QED
    BY <1>1, <1>6, <2>2, <2>3, <2>4, <2>5
<1>15. Replaced(raw, a, q, {value})
  <2> SUFFICES ASSUME NEW x \in a .. n, Lost(q, x)
               PROVE  \E k \in a .. n : /\ WholeWordAt(raw, value, k)
                                        /\ k <= x /\ x < k + Len(value)
                                        /\ \A y \in k .. k + Len(value) - 1 : Lost(q, y)
    BY DEF Replaced, n
  <2>1. x \in b .. n /\ Lost(o, x)
    BY <1>1, <1>9
  <2>2. PICK k \in b .. n : /\ WholeWordAt(raw, value, k)
                            /\ k <= x /\ x < k + Len(value)
                            /\ \A y \in k .. k + Len(value) - 1 : Lost(o, y)
    BY <1>5, <2>1 DEF Replaced, n
  <2>3. ASSUME NEW y \in k .. k + Len(value) - 1 PROVE Lost(q, y)
    BY <1>1, <1>8, <2>2, <2>3
  <2>4. k \in a .. n
    BY <1>1
  <2> QED
    BY <2>2, <2>3, <2>4
<1>16. Met(raw, a, q, value)
  <2> SUFFICES ASSUME NEW j \in a .. n, WholeWordAt(raw, value, j) PROVE Lost(q, j)
    BY DEF Met, n
  <2>1. j \in b .. n /\ j # a
    BY <1>1
  <2> QED
    BY <1>5, <1>8, <2>1 DEF Met, n
<1>17. Opens(raw, a, cur, q)
  BY <1>1, <1>2, <1>3 DEF Opens, n
<1> QED
  BY <1>11, <1>12, <1>13, <1>14, <1>15, <1>16, <1>17 DEF TracedFrom, Traced, cur, s

\* A value that is replaced by its token.
LEMMA TracedOver ==
  ASSUME NEW T, NEW raw \in Seq(T), NEW a \in 1 .. Len(raw), NEW kind \in T,
         {"[", "]"} \subseteq T, NEW value \in Seq(T), value # <<>>,
         WholeWordAt(raw, value, a), NEW rest \in Seq(T), NEW o,
         TracedFrom(raw, a + Len(value), rest, o, value, kind)
  PROVE  \E q : TracedFrom(raw, a, Token(kind) \o rest, q, value, kind)
<1> DEFINE n == Len(raw)
           L == Len(rest)
           m == Len(value)
           cur == Token(kind) \o rest
           q == [p \in 1 .. L + 3 |-> IF p <= 3 THEN 0 ELSE o[p - 3]]
           b == a + m
<1>1. /\ n \in Nat /\ L \in Nat /\ m \in Nat /\ m > 0 /\ a \in Nat /\ 1 <= a /\ a <= n
      /\ b = a + m /\ b \in Nat /\ b <= n + 1
  BY DEF WholeWordAt, MatchesAt
<1>2. /\ Len(cur) = L + 3 /\ cur[1] = "[" /\ cur[2] = kind /\ cur[3] = "]"
      /\ \A p \in 1 .. L : cur[p + 3] = rest[p]
  <2> DEFINE t == Token(kind)
  <2>1. t \in Seq(T) /\ Len(t) = 3 /\ t[1] = "[" /\ t[2] = kind /\ t[3] = "]"
    BY DEF Token
  <2> HIDE DEF t
  <2>2. cur = t \o rest /\ rest \in Seq(T)
    BY DEF t
  <2> HIDE DEF cur
  <2>3. Len(cur) = L + 3 /\ \A i \in 1 .. L + 3 : cur[i] = IF i <= 3 THEN t[i] ELSE rest[i - 3]
    <3>1. /\ Len(t \o rest) = Len(t) + Len(rest)
          /\ \A i \in 1 .. Len(t) + Len(rest) :
               (t \o rest)[i] = IF i <= Len(t) THEN t[i] ELSE rest[i - Len(t)]
      BY <2>1, <2>2, ConcatProperties
    <3>2. Len(t) + Len(rest) = L + 3
      BY <1>1, <2>1
    <3> QED
      BY <2>1, <2>2, <3>1, <3>2
  <2>4. \A p \in 1 .. L : p + 3 \in 1 .. L + 3 /\ ~(p + 3 <= 3) /\ (p + 3) - 3 = p
    BY <1>1
  <2>5. 1 \in 1 .. L + 3 /\ 2 \in 1 .. L + 3 /\ 3 \in 1 .. L + 3
    BY <1>1
  <2> QED
    BY <2>1, <2>3, <2>4, <2>5
<1>3. DOMAIN q = 1 .. L + 3 /\ q[1] = 0 /\ q[2] = 0 /\ q[3] = 0 /\ \A p \in 1 .. L : q[p + 3] = o[p]
  <2>1. \A p \in 1 .. L : p + 3 \in 1 .. L + 3 /\ ~(p + 3 <= 3) /\ (p + 3) - 3 = p
    BY <1>1
  <2>2. 1 \in 1 .. L + 3 /\ 2 \in 1 .. L + 3 /\ 3 \in 1 .. L + 3
    BY <1>1
  <2> QED
    BY <2>1, <2>2
<1>4. /\ DOMAIN o = 1 .. L /\ \A p \in 1 .. L : o[p] = 0 \/ (o[p] \in Nat /\ b <= o[p] /\ o[p] <= n)
      /\ \A p \in 1 .. L : o[p] # 0 => rest[p] = raw[o[p]]
      /\ \A p, r \in 1 .. L : p < r /\ o[p] # 0 /\ o[r] # 0 => o[p] < o[r]
  <2>1. Sources(raw, b, rest, o)
    BY DEF TracedFrom, Traced
  <2> HIDE DEF b, n, L
  <2>2. o \in [1 .. L -> {0} \cup b .. n]
    BY <2>1 DEF Sources, L, n
  <2>3. ASSUME NEW p \in 1 .. L PROVE o[p] = 0 \/ (o[p] \in Nat /\ b <= o[p] /\ o[p] <= n)
    <3>1. o[p] \in {0} \cup b .. n
      BY <2>2
    <3> QED
      BY <1>1, <3>1
  <2> QED
    BY <2>1, <2>2, <2>3 DEF Sources, L, n
<1>5. Onward(raw, rest, o) /\ Backward(b, rest, o) /\ InTokens(rest, o, {kind})
      /\ Replaced(raw, b, o, {value}) /\ Met(raw, b, o, value) /\ Opens(raw, b, rest, o)
  BY DEF TracedFrom, Traced
<1> HIDE DEF n, L, m, cur, q, b
<1>6. \A p \in 1 .. L + 3 : p \in {1, 2, 3} \/ \E r \in 1 .. L : p = r + 3
  <2> TAKE p \in 1 .. L + 3
  <2>1. p > 3 => p - 3 \in 1 .. L /\ p = (p - 3) + 3
    BY <1>1
  <2> QED
    BY <1>1, <2>1
<1>7. \A p \in 1 .. L + 3 : q[p] = 0 \/ (\E r \in 1 .. L : p = r + 3 /\ q[p] = o[r] /\ cur[p] = rest[r])
  BY <1>2, <1>3, <1>6
<1>8. ASSUME NEW x, x # 0, Lost(o, x) PROVE Lost(q, x)
  <2> SUFFICES ASSUME NEW p \in 1 .. L + 3 PROVE q[p] # x
    BY <1>3 DEF Lost
  <2> QED
    BY <1>4, <1>7, <1>8 DEF Lost
<1>9. ASSUME NEW x, Lost(q, x) PROVE Lost(o, x)
  <2> SUFFICES ASSUME NEW r \in 1 .. L PROVE o[r] # x
    BY <1>4 DEF Lost
  <2>1. r + 3 \in 1 .. L + 3 /\ q[r + 3] = o[r]
    BY <1>1, <1>3
  <2> QED
    BY <1>3, <1>9, <2>1 DEF Lost
<1>10. \A x \in a .. b - 1 : Lost(q, x)
  <2> SUFFICES ASSUME NEW x \in a .. b - 1 PROVE Lost(q, x)
    OBVIOUS
  <2>1. x # 0 /\ \A r \in 1 .. L : o[r] # x
    BY <1>1, <1>4
  <2>2. Lost(o, x)
    BY <1>4, <2>1 DEF Lost
  <2> QED
    BY <1>8, <2>1, <2>2
<1>11. Sources(raw, a, cur, q)
  <2>1. \A p \in 1 .. L + 3 : q[p] \in {0} \cup a .. n
    BY <1>1, <1>4, <1>7
  <2>2. q \in [1 .. Len(cur) -> {0} \cup a .. Len(raw)]
    BY <1>2, <2>1 DEF n, q
  <2>3. \A p \in 1 .. L + 3 : q[p] # 0 => cur[p] = raw[q[p]]
    BY <1>4, <1>7
  <2>4. ASSUME NEW p \in 1 .. L + 3, NEW r \in 1 .. L + 3, p < r, q[p] # 0, q[r] # 0 PROVE q[p] < q[r]
    <3>1. PICK s \in 1 .. L : p = s + 3 /\ q[p] = o[s]
      BY <1>7, <2>4
    <3>2. PICK t \in 1 .. L : r = t + 3 /\ q[r] = o[t]
      BY <1>7, <2>4
    <3>3. s < t
      BY <2>4, <3>1, <3>2
    <3> QED
      BY <1>4, <2>4, <3>1, <3>2, <3>3
  <2> QED
    BY <1>2, <2>2, <2>3, <2>4 DEF Sources
<1>12. Onward(raw, cur, q)
  <2> SUFFICES ASSUME NEW p \in 1 .. L + 3, q[p] # 0
               PROVE  IF p < L + 3 /\ q[p + 1] # 0 THEN q[p + 1] = q[p] + 1
                      ELSE /\ p < L + 3 => cur[p + 1] = "["
                           /\ q[p] < n => Lost(q, q[p] + 1)
    BY <1>2 DEF Onward, n
  <2>1. PICK r \in 1 .. L : p = r + 3 /\ q[p] = o[r]
    BY <1>7
  <2>3. IF r < L /\ o[r + 1] # 0 THEN o[r + 1] = o[r] + 1
        ELSE /\ r < L => rest[r + 1] = "["
             /\ o[r] < n => Lost(o, o[r] + 1)
    BY <1>5, <2>1 DEF Onward, n, L
  <2>4. p < L + 3 => r < L /\ q[p + 1] = o[r + 1] /\ cur[p + 1] = rest[r + 1]
    <3>1. p < L + 3 => r < L /\ r + 1 \in 1 .. L /\ p + 1 = (r + 1) + 3
      BY <1>1, <2>1
    <3> QED
      BY <1>2, <1>3, <3>1
  <2>5. r < L => p < L + 3
    BY <1>1, <2>1
  <2>6. Lost(o, o[r] + 1) => Lost(q, o[r] + 1)
    BY <1>1, <1>4, <1>8, <2>1
  <2> QED
    BY <2>1, <2>3, <2>4, <2>5, <2>6
<1>13. Backward(a, cur, q)
  <2> SUFFICES ASSUME NEW p \in 1 .. L + 3, q[p] # 0
               PROVE  IF p > 1 /\ q[p - 1] # 0 THEN q[p - 1] = q[p] - 1
                      ELSE /\ p > 1 => cur[p - 1] = "]"
                           /\ q[p] > a => Lost(q, q[p] - 1)
    BY <1>2 DEF Backward
  <2>1. PICK r \in 1 .. L : p = r + 3 /\ q[p] = o[r]
    BY <1>7
  <2>2. CASE r = 1
    <3>1. o[1] = b
      <4>1. b <= n /\ o[1] # 0
        BY <1>1, <1>4, <2>1, <2>2
      <4> QED
        BY <1>1, <1>5, <4>1 DEF Opens, n
    <3>2. p - 1 = 3
      BY <2>1, <2>2
    <3>3. b - 1 \in a .. b - 1
      BY <1>1
    <3> QED
      BY <1>2, <1>3, <1>10, <2>1, <2>2, <3>1, <3>2, <3>3
  <2>3. CASE r # 1
    <3>1. r - 1 \in 1 .. L /\ p - 1 = (r - 1) + 3 /\ r > 1 /\ p > 1
      BY <1>1, <2>1, <2>3
    <3>2. q[p - 1] = o[r - 1] /\ cur[p - 1] = rest[r - 1]
      BY <1>2, <1>3, <3>1
    <3>3. IF r > 1 /\ o[r - 1] # 0 THEN o[r - 1] = o[r] - 1
          ELSE /\ r > 1 => rest[r - 1] = "]"
               /\ o[r] > b => Lost(o, o[r] - 1)
      BY <1>5, <2>1 DEF Backward, L
    <3>4. o[r] > b
      <4>1. CASE o[r - 1] = 0
        <5>1. 1 \in 1 .. L /\ b <= n /\ IF o[1] # 0 THEN o[1] = b ELSE Lost(o, b)
          BY <1>1, <1>4, <1>5, <2>1, <3>1 DEF Opens, n
        <5>2. o[1] # 0 => o[1] < o[r]
          BY <1>4, <2>1, <3>1, <5>1
        <5>3. Lost(o, b) => o[r] # b
          BY <1>4 DEF Lost
        <5>4. o[r] # b /\ b <= o[r] /\ o[r] \in Nat
          BY <1>1, <1>4, <2>1, <5>1, <5>2, <5>3
        <5>5. b \in Nat
          BY <1>1
        <5> QED
          BY <5>4, <5>5
      <4>2. CASE o[r - 1] # 0
        BY <1>1, <1>4, <2>1, <3>1, <4>2
      <4> QED
        BY <4>1, <4>2
    <3>5. Lost(o, o[r] - 1) => Lost(q, o[r] - 1)
      BY <1>1, <1>4, <1>8, <2>1, <3>4
    <3> QED
      BY <2>1, <3>1, <3>2, <3>3, <3>4, <3>5
  <2> QED
    BY <2>2, <2>3
<1>14. InTokens(cur, q, {kind})
  <2> SUFFICES ASSUME NEW p \in 1 .. L + 3, q[p] = 0, cur[p] \notin {"[", "]"}
               PROVE  /\ cur[p] = kind
                      /\ 1 < p /\ p < L + 3 /\ cur[p - 1] = "[" /\ cur[p + 1] = "]"
    BY <1>2 DEF InTokens
  <2>1. CASE p \in {1, 2, 3}
    <3>1. p = 2
      BY <1>2, <2>1
    <3>2. p - 1 = 1 /\ p + 1 = 3
      BY <3>1
    <3> QED
      BY <1>1, <1>2, <3>1, <3>2
  <2>2. CASE p \notin {1, 2, 3}
    <3>1. PICK r \in 1 .. L : p = r + 3
      BY <1>6, <2>2
    <3>2. q[p] = o[r] /\ cur[p] = rest[r]
      BY <1>2, <1>3, <3>1
    <3>3. rest[r] = kind /\ 1 < r /\ r < L /\ rest[r - 1] = "[" /\ rest[r + 1] = "]"
      BY <1>5, <3>2 DEF InTokens, L
    <3>4. r - 1 \in 1 .. L /\ r + 1 \in 1 .. L /\ p - 1 = (r - 1) + 3 /\ p + 1 = (r + 1) + 3
      BY <1>1, <3>1, <3>3
    <3>5. cur[p - 1] = rest[r - 1] /\ cur[p + 1] = rest[r + 1]
      BY <1>2, <3>4
    <3> QED
      BY <1>1, <3>1, <3>2, <3>3, <3>5
  <2> QED
    BY <2>1, <2>2
<1>15. Replaced(raw, a, q, {value})
  <2> SUFFICES ASSUME NEW x \in a .. n, Lost(q, x)
               PROVE  \E k \in a .. n : /\ WholeWordAt(raw, value, k)
                                        /\ k <= x /\ x < k + m
                                        /\ \A y \in k .. k + m - 1 : Lost(q, y)
    BY DEF Replaced, n, m
  <2>1. CASE x < b
    BY <1>1, <1>10, <2>1
  <2>2. CASE x >= b
    <3>1. x \in b .. n /\ Lost(o, x)
      BY <1>1, <1>9, <2>2
    <3>2. PICK k \in b .. n : /\ WholeWordAt(raw, value, k)
                              /\ k <= x /\ x < k + m
                              /\ \A y \in k .. k + m - 1 : Lost(o, y)
      BY <1>5, <3>1 DEF Replaced, n, m
    <3>3. ASSUME NEW y \in k .. k + m - 1 PROVE Lost(q, y)
      BY <1>1, <1>8, <3>2, <3>3
    <3>4. k \in a .. n
      BY <1>1
    <3> QED
      BY <3>2, <3>3, <3>4
  <2> QED
    BY <1>1, <2>1, <2>2
<1>16. Met(raw, a, q, value)
  <2> SUFFICES ASSUME NEW j \in a .. n, WholeWordAt(raw, value, j) PROVE Lost(q, j)
    BY DEF Met, n
  <2>1. CASE j < b
    BY <1>1, <1>10, <2>1
  <2>2. CASE j >= b
    <3>1. j \in b .. n /\ j # 0
      BY <1>1, <2>2
    <3> QED
      BY <1>5, <1>8, <3>1 DEF Met, n
  <2> QED
    BY <1>1, <2>1, <2>2
<1>17. Opens(raw, a, cur, q)
  BY <1>1, <1>2, <1>3, <1>10 DEF Opens, n
<1> QED
  BY <1>11, <1>12, <1>13, <1>14, <1>15, <1>16, <1>17 DEF TracedFrom, Traced, cur

\* What is left of a text is traced to it.
LEMMA SubstitutedIsTraced ==
  ASSUME NEW T, NEW raw \in Seq(T), NEW kind \in T, {"[", "]"} \subseteq T,
         NEW value \in Seq(T), value # <<>>
  PROVE  /\ Substituted(raw, value, Token(kind)) \in Seq(T)
         /\ \E o : /\ Traced(raw, 1, Substituted(raw, value, Token(kind)), o, {value}, {kind})
                   /\ Met(raw, 1, o, value)
<1> DEFINE n == Len(raw)
           token == Token(kind)
<1>1. token \in Seq(T) /\ n \in Nat /\ Len(value) \in Nat /\ Len(value) > 0
  BY DEF Token
<1>2. PICK from : SubstitutedRun(from, T, raw, value, token)
                  /\ Substituted(raw, value, token) = from[1]
  <2> HIDE DEF token
  <2> QED
    BY <1>1, SubstitutedRuns
<1> DEFINE Found(a) == \E o : TracedFrom(raw, a, from[a], o, value, kind)
           G == {k \in Nat : \A a \in 1 .. n + 1 : a + k > n => Found(a)}
<1>3. from \in [1 .. n + 1 -> Seq(T)] /\ from[n + 1] = <<>>
      /\ \A i \in 1 .. n : from[i] = IF WholeWordAt(raw, value, i) THEN token \o from[i + Len(value)]
                                     ELSE <<raw[i]>> \o from[i + 1]
  BY <1>2 DEF SubstitutedRun
<1>4. Found(n + 1)
  <2> DEFINE o == <<>>
  <2>1. o \in [1 .. Len(<<>>) -> {0} \cup (n + 1) .. n] /\ Len(<<>>) = 0
    OBVIOUS
  <2>2. TracedFrom(raw, n + 1, <<>>, o, value, kind)
    <3> HIDE DEF o
    <3> QED
      BY <1>1, <2>1 DEF TracedFrom, Traced, Sources, Onward, Backward, InTokens, Replaced, Met, Opens
  <2> QED
    BY <1>3, <2>2
<1>5. 0 \in G
  <2> SUFFICES ASSUME NEW a \in 1 .. n + 1, a + 0 > n PROVE Found(a)
    OBVIOUS
  <2>1. a = n + 1
    BY <1>1
  <2> HIDE DEF Found
  <2> QED
    BY <1>4, <2>1
<1>6. ASSUME NEW k \in Nat, k \in G PROVE k + 1 \in G
  <2> SUFFICES ASSUME NEW a \in 1 .. n + 1, a + (k + 1) > n PROVE Found(a)
    OBVIOUS
  <2>1. CASE a = n + 1
    <3> HIDE DEF Found
    <3> QED
      BY <1>4, <2>1
  <2>2. CASE a \in 1 .. n /\ WholeWordAt(raw, value, a)
    <3>1. a + Len(value) \in 1 .. n + 1 /\ (a + Len(value)) + k > n
      BY <1>1, <2>2 DEF WholeWordAt, MatchesAt
    <3>2. Found(a + Len(value)) /\ from[a + Len(value)] \in Seq(T)
      <4> HIDE DEF Found
      <4> QED
        BY <1>3, <1>6, <3>1
    <3>3. from[a] = Token(kind) \o from[a + Len(value)]
      BY <1>3, <2>2
    <3> QED
      BY <2>2, <3>2, <3>3, TracedOver
  <2>3. CASE a \in 1 .. n /\ ~WholeWordAt(raw, value, a)
    <3>1. a + 1 \in 1 .. n + 1 /\ (a + 1) + k > n
      BY <1>1, <2>3
    <3>2. Found(a + 1) /\ from[a + 1] \in Seq(T)
      <4> HIDE DEF Found
      <4> QED
        BY <1>3, <1>6, <3>1
    <3>3. from[a] = <<raw[a]>> \o from[a + 1]
      BY <1>3, <2>3
    <3> QED
      BY <2>3, <3>2, <3>3, TracedOn
  <2> QED
    BY <1>1, <2>1, <2>2, <2>3
<1>7. n \in G
  <2> HIDE DEF G
  <2> QED
    BY <1>1, <1>5, <1>6, NaturalInduction
<1>8. 1 \in 1 .. n + 1 /\ 1 + n > n
  BY <1>1
<1>9. Found(1) /\ from[1] \in Seq(T)
  <2> HIDE DEF Found
  <2> QED
    BY <1>3, <1>7, <1>8
<1> QED
  BY <1>2, <1>9 DEF TracedFrom

\* An occurrence, symbol by symbol.
LEMMA MatchesBySymbol ==
  ASSUME NEW T, NEW text \in Seq(T), NEW value \in Seq(T), NEW i \in 1 .. Len(text)
  PROVE  MatchesAt(text, value, i) <=>
           /\ i + Len(value) - 1 <= Len(text)
           /\ \A t \in 1 .. Len(value) : text[i + t - 1] = value[t]
<1> DEFINE m == Len(value)
           n == Len(text)
           part == SubSeq(text, i, i + m - 1)
<1>1. m \in Nat /\ n \in Nat /\ i \in Nat /\ 1 <= i /\ i <= n
  OBVIOUS
<1>2. ASSUME i + m - 1 <= n
      PROVE  part \in Seq(T) /\ Len(part) = m /\ \A t \in 1 .. m : part[t] = text[i + t - 1]
  <2>1. CASE m = 0
    BY <1>1, <2>1
  <2>2. CASE m > 0
    BY <1>1, <1>2, <2>2
  <2> QED
    BY <1>1, <2>1, <2>2
<1>3. value \in Seq(T) /\ Len(value) = m
  OBVIOUS
<1> HIDE DEF m, n, part
<1>4. ASSUME i + m - 1 <= n PROVE part = value <=> \A t \in 1 .. m : part[t] = value[t]
  <2>1. part \in Seq(T) /\ Len(part) = m
    BY <1>2, <1>4
  <2> QED
    BY <1>3, <2>1
<1>5. MatchesAt(text, value, i) <=> i + m - 1 <= n /\ part = value
  BY DEF MatchesAt, m, n, part
<1> QED
  BY <1>2, <1>4, <1>5 DEF m, n

\* The symbols of m positions from j on stand side by side from p on, between what
\* stood there and tokens.
KeptAt(raw, cur, o, j, m, p) ==
  /\ p + m - 1 <= Len(cur)
  /\ \A t \in 1 .. m : o[p + t - 1] = j + t - 1 /\ cur[p + t - 1] = raw[j + t - 1]
  /\ p > 1 => cur[p - 1] = "]" \/ (j > 1 /\ cur[p - 1] = raw[j - 1])
  /\ p + m <= Len(cur) => cur[p + m] = "[" \/ (j + m <= Len(raw) /\ cur[p + m] = raw[j + m])

\* Positions that are all kept are kept side by side.
LEMMA KeptTogether ==
  ASSUME NEW T, NEW raw \in Seq(T), NEW cur \in Seq(T), NEW o, NEW values, NEW kinds,
         Traced(raw, 1, cur, o, values, kinds),
         NEW j \in 1 .. Len(raw), NEW m \in Nat, m > 0, j + m - 1 <= Len(raw),
         \A x \in j .. j + m - 1 : ~Lost(o, x)
  PROVE  \E p \in 1 .. Len(cur) : KeptAt(raw, cur, o, j, m, p)
<1> DEFINE n == Len(raw)
           L == Len(cur)
<1>1. n \in Nat /\ L \in Nat /\ j \in Nat /\ 1 <= j
  OBVIOUS
<1>2. /\ DOMAIN o = 1 .. L /\ \A p \in 1 .. L : o[p] = 0 \/ (o[p] \in Nat /\ 1 <= o[p] /\ o[p] <= n)
      /\ \A p \in 1 .. L : o[p] # 0 => cur[p] = raw[o[p]]
  <2>1. o \in [1 .. L -> {0} \cup 1 .. n]
    BY DEF Traced, Sources
  <2> HIDE DEF n, L
  <2>2. ASSUME NEW p \in 1 .. L PROVE o[p] = 0 \/ (o[p] \in Nat /\ 1 <= o[p] /\ o[p] <= n)
    <3>1. o[p] \in {0} \cup 1 .. n
      BY <2>1
    <3> QED
      BY <1>1, <3>1
  <2> QED
    BY <2>1, <2>2 DEF Traced, Sources, L
<1>3. Onward(raw, cur, o) /\ Backward(1, cur, o)
  BY DEF Traced
<1> HIDE DEF n, L
<1>4. PICK p \in 1 .. L : o[p] = j
  <2>1. ~Lost(o, j)
    BY <1>1
  <2> QED
    BY <1>2, <2>1 DEF Lost
<1> DEFINE G == {t \in 0 .. m - 1 : p + t <= L /\ o[p + t] = j + t}
<1>5. 0 \in G
  BY <1>1, <1>4
<1>6. ASSUME NEW t \in 1 .. m - 1, t - 1 \in G PROVE t \in G
  <2> DEFINE r == p + (t - 1)
  <2>1. r \in 1 .. L /\ r + 1 = p + t /\ o[r] = j + (t - 1) /\ o[r] # 0 /\ o[r] + 1 = j + t
        /\ j + t \in j .. j + m - 1 /\ o[r] < n /\ t \in 0 .. m - 1
    BY <1>1, <1>4, <1>6 DEF n
  <2> HIDE DEF r
  <2>2. IF r < L /\ o[r + 1] # 0 THEN o[r + 1] = o[r] + 1
        ELSE o[r] < n => Lost(o, o[r] + 1)
    BY <1>3, <2>1 DEF Onward, n, L
  <2>3. r < L /\ o[r + 1] = o[r] + 1
    BY <2>1, <2>2
  <2>4. r + 1 <= L
    BY <1>1, <2>1, <2>3
  <2> QED
    BY <2>1, <2>3, <2>4
<1>7. m - 1 \in Nat /\ 0 .. m - 1 \subseteq G
  <2> HIDE DEF G
  <2> QED
    BY <1>5, <1>6, IntervalInduction
<1>8. ASSUME NEW t \in 1 .. m
      PROVE  p + t - 1 \in 1 .. L /\ o[p + t - 1] = j + t - 1 /\ cur[p + t - 1] = raw[j + t - 1]
  <2>1. t - 1 \in 0 .. m - 1 /\ p + (t - 1) = p + t - 1 /\ j + (t - 1) = j + t - 1
    BY <1>1, <1>4
  <2>2. p + t - 1 <= L /\ o[p + t - 1] = j + t - 1
    BY <1>7, <2>1
  <2>3. p + t - 1 \in 1 .. L /\ j + t - 1 # 0
    BY <1>1, <1>4, <2>2
  <2> QED
    BY <1>2, <2>2, <2>3
<1>9. ASSUME p > 1 PROVE cur[p - 1] = "]" \/ (j > 1 /\ cur[p - 1] = raw[j - 1])
  <2>1. p - 1 \in 1 .. L /\ o[p] # 0
    BY <1>1, <1>4, <1>9
  <2>2. IF p > 1 /\ o[p - 1] # 0 THEN o[p - 1] = j - 1 ELSE p > 1 => cur[p - 1] = "]"
    BY <1>3, <1>4, <2>1 DEF Backward, L
  <2>3. CASE o[p - 1] = 0
    BY <1>9, <2>2, <2>3
  <2>4. CASE o[p - 1] # 0
    <3>1. o[p - 1] = j - 1 /\ o[p - 1] >= 1 /\ cur[p - 1] = raw[j - 1]
      BY <1>2, <1>9, <2>1, <2>2, <2>4
    <3> QED
      BY <1>1, <3>1
  <2> QED
    BY <2>3, <2>4
<1>10. ASSUME p + m <= L PROVE cur[p + m] = "[" \/ (j + m <= n /\ cur[p + m] = raw[j + m])
  <2> DEFINE r == p + m - 1
  <2>1. m \in 1 .. m /\ r + 1 = p + m /\ r \in 1 .. L /\ r < L /\ r + 1 \in 1 .. L
    <3>1. p \in Nat /\ 1 <= p /\ p + m <= L
      BY <1>4, <1>10
    <3> QED
      BY <1>1, <3>1
  <2>2. o[r] = j + m - 1 /\ o[r] # 0 /\ o[r] + 1 = j + m
    <3>1. o[p + m - 1] = j + m - 1
      BY <1>8, <2>1
    <3>2. j + m - 1 # 0 /\ (j + m - 1) + 1 = j + m
      BY <1>1
    <3> QED
      BY <3>1, <3>2
  <2> HIDE DEF r
  <2>3. IF r < L /\ o[r + 1] # 0 THEN o[r + 1] = o[r] + 1 ELSE r < L => cur[r + 1] = "["
    BY <1>3, <2>1, <2>2 DEF Onward, L
  <2>4. CASE o[r + 1] = 0
    BY <2>1, <2>3, <2>4
  <2>5. CASE o[r + 1] # 0
    BY <1>2, <2>1, <2>2, <2>3, <2>5
  <2> QED
    BY <2>4, <2>5
<1>11. p + m - 1 <= L
  <2>1. m \in 1 .. m
    OBVIOUS
  <2> QED
    BY <1>1, <1>4, <1>8, <2>1
<1> QED
  BY <1>4, <1>8, <1>9, <1>10, <1>11 DEF n, L, KeptAt
===============================================================================
