---------------------------- MODULE Assessment_proofs ----------------------------
(***************************************************************************)
(* Proofs about Assessment, for any answers of the models, any explicit    *)
(* dates of a CV and any weights.                                          *)
(*                                                                         *)
(* The argument: a score is a rounded quotient, and rounding keeps order;  *)
(* its numerator grows with the years, and the years are a sum of          *)
(* naturals over the counted roles.  So two scorecards are compared by     *)
(* matching the counted roles of one with those of the other, one to one.  *)
(* What is judged is compared with the task through the criteria that were *)
(* resolved, which no later step touches.                                  *)
(***************************************************************************)
EXTENDS Assessment, FiniteSetTheorems, WellFoundedInduction, TLAPS

USE NowAssumption

-------------------------------------------------------------------------------
(* Least elements, and induction *)

\* A set of naturals that is not empty has a least element.
LEMMA LeastNatural ==
  ASSUME NEW T \in SUBSET Nat, T # {}
  PROVE  \E m \in T : \A n \in T : m <= n
<1> DEFINE R == OpToRel(<, Nat)
<1>1. IsWellFoundedOn(R, Nat)
  BY NatLessThanWellFounded
<1>2. PICK m \in T : \A n \in T : ~ (<<n, m>> \in R)
  BY <1>1, WFMin, Zenon
<1>3. \A i, j \in Nat : <<i, j>> \in R <=> i < j
  BY DEF OpToRel
<1> HIDE DEF R
<1>4. \A n \in T : ~ (n < m)
  BY <1>2, <1>3
<1> QED
  BY <1>4

\* Every subset of a finite set is in G, if one is whenever all that lack just
\* one of its elements are.  The library's rules take a predicate instead.
LEMMA SubsetInduction ==
  ASSUME NEW S, IsFiniteSet(S), NEW G,
         \A T \in SUBSET S : (\A x \in T : T \ {x} \in G) => T \in G
  PROVE  \A T \in SUBSET S : T \in G
<1> SUFFICES ASSUME \E T \in SUBSET S : T \notin G
             PROVE  FALSE
  OBVIOUS
<1> DEFINE Sizes == {Cardinality(T) : T \in {U \in SUBSET S : U \notin G}}
<1>1. \A T \in SUBSET S : IsFiniteSet(T) /\ Cardinality(T) \in Nat
  BY FS_Subset, FS_CardinalityType
<1>2. PICK n \in Sizes : \A k \in Sizes : n <= k
  <2>1. Sizes \in SUBSET Nat /\ Sizes # {}
    BY <1>1
  <2> HIDE DEF Sizes
  <2> QED
    BY <2>1, LeastNatural
<1>3. PICK T \in SUBSET S : T \notin G /\ Cardinality(T) = n
  BY <1>2
<1>4. \A x \in T : T \ {x} \in G
  <2> SUFFICES ASSUME NEW x \in T, T \ {x} \notin G
               PROVE  FALSE
    OBVIOUS
  <2>1. Cardinality(T \ {x}) = Cardinality(T) - 1
    BY <1>1, FS_RemoveElement
  <2>2. Cardinality(T \ {x}) \in Sizes
    OBVIOUS
  <2>3. Cardinality(T) \in Nat
    BY <1>1
  <2>4. Cardinality(T) <= Cardinality(T \ {x})
    BY <1>2, <1>3, <2>2
  <2> QED
    BY <2>1, <2>3, <2>4
<1> QED
  BY <1>3, <1>4

\* Induction over the naturals.
LEMMA NaturalInduction ==
  ASSUME NEW G, 0 \in G, \A n \in Nat : n \in G => n + 1 \in G
  PROVE  Nat \subseteq G
<1> DEFINE Bad == Nat \ G
<1> SUFFICES ASSUME Bad # {}
             PROVE  FALSE
  OBVIOUS
<1>1. PICK n \in Bad : \A k \in Bad : n <= k
  <2>1. Bad \in SUBSET Nat
    OBVIOUS
  <2> HIDE DEF Bad
  <2> QED
    BY <2>1, LeastNatural
<1>2. n - 1 \in Nat /\ n - 1 \in G
  BY <1>1
<1> QED
  BY <1>1, <1>2

-------------------------------------------------------------------------------
(* Sums *)

\* g sums f over each subset of S, in the order in which CHOOSE names elements:
\* the recursive function that SumFunctionOnSet is made of.
Partial(f, S, g) ==
  g = [s \in SUBSET S |->
         IF s = {} THEN 0
         ELSE f[CHOOSE x \in s : TRUE] + g[s \ {CHOOSE x \in s : TRUE}]]

\* A sum is what such a function, if there is one, gives for the whole set.
LEMMA SumIsPartial ==
  ASSUME NEW f, NEW S, NEW h, Partial(f, S, h)
  PROVE  \E g : Partial(f, S, g) /\ SumFunctionOnSet(f, S) = g[S]
<1> DEFINE g == CHOOSE g : g = [s \in SUBSET S |->
         IF s = {} THEN 0
         ELSE f[CHOOSE x \in s : TRUE] + g[s \ {CHOOSE x \in s : TRUE}]]
<1>1. Partial(f, S, g)
  BY DEF Partial
<1>2. SumFunctionOnSet(f, S) = g[S]
  BY DEF SumFunctionOnSet, FoldFunctionOnSet, MapThenFoldSet
<1> QED
  BY <1>1, <1>2

\* There is one: the equation has a solution on the sets of any size.
LEMMA PartialExists ==
  ASSUME NEW f, NEW S, IsFiniteSet(S)
  PROVE  \E g : Partial(f, S, g)
<1> DEFINE UpTo(n, g) ==
             g = [s \in SUBSET S |->
                    IF s = {} \/ Cardinality(s) > n THEN 0
                    ELSE f[CHOOSE x \in s : TRUE] + g[s \ {CHOOSE x \in s : TRUE}]]
           G == {n \in Nat : \E g : UpTo(n, g)}
<1>1. \A s \in SUBSET S : IsFiniteSet(s) /\ Cardinality(s) \in Nat /\ Cardinality(s) <= Cardinality(S)
  BY FS_Subset, FS_CardinalityType
<1>2. ASSUME NEW s \in SUBSET S, s # {}
      PROVE  LET c == CHOOSE x \in s : TRUE
             IN  c \in s /\ s \ {c} \in SUBSET S /\ Cardinality(s \ {c}) = Cardinality(s) - 1
  BY <1>1, <1>2, FS_RemoveElement
<1>3. 0 \in G
  <2> DEFINE g == [s \in SUBSET S |-> 0]
  <2>1. \A s \in SUBSET S : s # {} => Cardinality(s) > 0
    BY <1>1, FS_EmptySet
  <2>2. UpTo(0, g)
    BY <2>1
  <2> QED
    BY <2>2
<1>4. ASSUME NEW n \in Nat, n \in G PROVE n + 1 \in G
  <2>1. PICK g : UpTo(n, g)
    BY <1>4
  <2> DEFINE h == [s \in SUBSET S |->
                     IF s = {} \/ Cardinality(s) > n + 1 THEN 0
                     ELSE f[CHOOSE x \in s : TRUE] + g[s \ {CHOOSE x \in s : TRUE}]]
  <2>2. ASSUME NEW s \in SUBSET S, Cardinality(s) <= n PROVE h[s] = g[s]
    BY <1>1, <2>1, <2>2
  <2>3. ASSUME NEW s \in SUBSET S, s # {}, Cardinality(s) <= n + 1
        PROVE  h[s \ {CHOOSE x \in s : TRUE}] = g[s \ {CHOOSE x \in s : TRUE}]
    <3> DEFINE r == s \ {CHOOSE x \in s : TRUE}
    <3>1. r \in SUBSET S /\ Cardinality(r) = Cardinality(s) - 1
      BY <1>2, <2>3
    <3>2. Cardinality(s) \in Nat
      BY <1>1
    <3> HIDE DEF h, r
    <3>3. Cardinality(r) <= n
      BY <2>3, <3>1, <3>2
    <3>4. h[r] = g[r]
      BY <2>2, <3>1, <3>3
    <3> QED
      BY <3>4 DEF r
  <2> DEFINE k == [s \in SUBSET S |->
                     IF s = {} \/ Cardinality(s) > n + 1 THEN 0
                     ELSE f[CHOOSE x \in s : TRUE] + h[s \ {CHOOSE x \in s : TRUE}]]
  <2>4. ASSUME NEW s \in SUBSET S PROVE h[s] = k[s]
    <3> HIDE DEF h
    <3>1. h[s] = IF s = {} \/ Cardinality(s) > n + 1 THEN 0
                     ELSE f[CHOOSE x \in s : TRUE] + g[s \ {CHOOSE x \in s : TRUE}]
      BY DEF h
    <3> QED
      BY <1>1, <2>3, <3>1
  <2>5. h = k
    BY <2>4
  <2>6. UpTo(n + 1, h)
    <3> HIDE DEF h
    <3> QED
      BY <2>5
  <2> HIDE DEF h, k, UpTo
  <2> QED
    BY <2>6
<1>5. Cardinality(S) \in G
  <2> HIDE DEF G
  <2> QED
    BY <1>3, <1>4, NaturalInduction, FS_CardinalityType
<1>6. PICK g : UpTo(Cardinality(S), g)
  BY <1>5
<1>7. Partial(f, S, g)
  BY <1>1, <1>6 DEF Partial
<1> QED
  BY <1>7

\* It does not matter for which larger set it was defined.
LEMMA PartialUnique ==
  ASSUME NEW f, NEW S, NEW T \in SUBSET S, IsFiniteSet(T), NEW g, NEW h,
         Partial(f, S, g), Partial(f, T, h)
  PROVE  g[T] = h[T]
<1> DEFINE G == {U \in SUBSET T : g[U] = h[U]}
<1>1. ASSUME NEW U \in SUBSET T, \A x \in U : U \ {x} \in G PROVE U \in G
  <2>1. CASE U = {}
    BY <2>1 DEF Partial
  <2>2. CASE U # {}
    <3> DEFINE c == CHOOSE x \in U : TRUE
    <3>1. c \in U
      BY <2>2
    <3>2. g[U \ {c}] = h[U \ {c}]
      BY <1>1, <3>1
    <3> QED
      BY <2>2, <3>1, <3>2 DEF Partial
  <2> QED
    BY <2>1, <2>2
<1>2. \A U \in SUBSET T : U \in G
  <2> HIDE DEF G
  <2> QED
    BY <1>1, SubsetInduction
<1> QED
  BY <1>2

\* Nothing adds up to nothing.
LEMMA SumEmpty ==
  ASSUME NEW f PROVE SumFunctionOnSet(f, {}) = 0
<1>1. PICK h : Partial(f, {}, h)
  BY PartialExists, FS_EmptySet
<1>2. PICK g : Partial(f, {}, g) /\ SumFunctionOnSet(f, {}) = g[{}]
  BY <1>1, SumIsPartial
<1> QED
  BY <1>2 DEF Partial

\* A sum is some term and the sum of the others.
LEMMA SumUnfold ==
  ASSUME NEW f, NEW S, IsFiniteSet(S), S # {}
  PROVE  \E x \in S : SumFunctionOnSet(f, S) = f[x] + SumFunctionOnSet(f, S \ {x})
<1> DEFINE c == CHOOSE x \in S : TRUE
<1>1. c \in S /\ IsFiniteSet(S \ {c}) /\ S \ {c} \in SUBSET S
  BY FS_RemoveElement
<1>2. PICK g : Partial(f, S, g) /\ SumFunctionOnSet(f, S) = g[S]
  BY PartialExists, SumIsPartial
<1>3. PICK h : Partial(f, S \ {c}, h) /\ SumFunctionOnSet(f, S \ {c}) = h[S \ {c}]
  BY <1>1, PartialExists, SumIsPartial
<1>4. g[S \ {c}] = h[S \ {c}]
  BY <1>1, <1>2, <1>3, PartialUnique
<1>5. g[S] = f[c] + g[S \ {c}]
  BY <1>2 DEF Partial
<1> QED
  BY <1>1, <1>2, <1>3, <1>4, <1>5

\* A sum of integers is one.
LEMMA SumInt ==
  ASSUME NEW f, NEW S, IsFiniteSet(S), \A s \in S : f[s] \in Int
  PROVE  SumFunctionOnSet(f, S) \in Int
<1> DEFINE G == {T \in SUBSET S : SumFunctionOnSet(f, T) \in Int}
<1>1. ASSUME NEW T \in SUBSET S, \A x \in T : T \ {x} \in G PROVE T \in G
  <2>1. CASE T = {}
    BY <2>1, SumEmpty
  <2>2. CASE T # {}
    <3>1. PICK c \in T : SumFunctionOnSet(f, T) = f[c] + SumFunctionOnSet(f, T \ {c})
      BY <2>2, SumUnfold, FS_Subset
    <3> QED
      BY <1>1, <3>1
  <2> QED
    BY <2>1, <2>2
<1>2. \A T \in SUBSET S : T \in G
  <2> HIDE DEF G
  <2> QED
    BY <1>1, SubsetInduction
<1> QED
  BY <1>2

\* Any term can be the one that is taken out first.
LEMMA SumRemove ==
  ASSUME NEW f, NEW S, IsFiniteSet(S), \A s \in S : f[s] \in Int, NEW x \in S
  PROVE  SumFunctionOnSet(f, S) = f[x] + SumFunctionOnSet(f, S \ {x})
<1> DEFINE G == {T \in SUBSET S :
                   \A y \in T : SumFunctionOnSet(f, T) = f[y] + SumFunctionOnSet(f, T \ {y})}
<1>0. \A T \in SUBSET S : SumFunctionOnSet(f, T) \in Int
  BY SumInt, FS_Subset
<1>1. ASSUME NEW T \in SUBSET S, \A y \in T : T \ {y} \in G PROVE T \in G
  <2> SUFFICES ASSUME NEW y \in T
               PROVE  SumFunctionOnSet(f, T) = f[y] + SumFunctionOnSet(f, T \ {y})
    OBVIOUS
  <2>1. PICK c \in T : SumFunctionOnSet(f, T) = f[c] + SumFunctionOnSet(f, T \ {c})
    BY SumUnfold, FS_Subset
  <2>2. CASE y = c
    BY <2>1, <2>2
  <2>3. CASE y # c
    <3> DEFINE rest == SumFunctionOnSet(f, (T \ {c}) \ {y})
    <3>1. (T \ {c}) \ {y} = (T \ {y}) \ {c}
      OBVIOUS
    <3>2. SumFunctionOnSet(f, T \ {c}) = f[y] + rest
      BY <1>1, <2>3
    <3>3. SumFunctionOnSet(f, T \ {y}) = f[c] + rest
      BY <1>1, <2>3, <3>1
    <3>4. f[y] \in Int /\ f[c] \in Int /\ rest \in Int
      BY <1>0
    <3> QED
      BY <2>1, <3>2, <3>3, <3>4
  <2> QED
    BY <2>2, <2>3
<1>2. \A T \in SUBSET S : T \in G
  <2> HIDE DEF G
  <2> QED
    BY <1>1, SubsetInduction
<1>3. S \in SUBSET S /\ S \in G
  BY <1>2
<1> QED
  BY <1>3

\* One more term adds itself.
LEMMA SumAdd ==
  ASSUME NEW f, NEW S, IsFiniteSet(S), NEW x, x \notin S,
         \A s \in S \cup {x} : f[s] \in Int
  PROVE  SumFunctionOnSet(f, S \cup {x}) = f[x] + SumFunctionOnSet(f, S)
<1>1. IsFiniteSet(S \cup {x}) /\ (S \cup {x}) \ {x} = S /\ x \in S \cup {x}
  BY FS_AddElement
<1> QED
  BY <1>1, SumRemove

\* A sum of naturals is one.
LEMMA SumNat ==
  ASSUME NEW f, NEW S, IsFiniteSet(S), \A s \in S : f[s] \in Nat
  PROVE  SumFunctionOnSet(f, S) \in Nat
<1> DEFINE G == {T \in SUBSET S : SumFunctionOnSet(f, T) \in Nat}
<1>1. ASSUME NEW T \in SUBSET S, \A x \in T : T \ {x} \in G PROVE T \in G
  <2>1. CASE T = {}
    BY <2>1, SumEmpty
  <2>2. CASE T # {}
    <3>1. PICK c \in T : SumFunctionOnSet(f, T) = f[c] + SumFunctionOnSet(f, T \ {c})
      BY <2>2, SumUnfold, FS_Subset
    <3> QED
      BY <1>1, <3>1
  <2> QED
    BY <2>1, <2>2
<1>2. \A T \in SUBSET S : T \in G
  <2> HIDE DEF G
  <2> QED
    BY <1>1, SubsetInduction
<1> QED
  BY <1>2

\* Leaving out naturals does not make a sum larger.
LEMMA SumSubset ==
  ASSUME NEW f, NEW S, IsFiniteSet(S), \A s \in S : f[s] \in Nat, NEW A \in SUBSET S
  PROVE  SumFunctionOnSet(f, A) <= SumFunctionOnSet(f, S)
<1> DEFINE G == {T \in SUBSET S :
                   SumFunctionOnSet(f, A \cap T) <= SumFunctionOnSet(f, T)}
<1>0. \A T \in SUBSET S : IsFiniteSet(T) /\ SumFunctionOnSet(f, T) \in Nat
  BY SumNat, FS_Subset
<1>1. ASSUME NEW T \in SUBSET S, \A y \in T : T \ {y} \in G PROVE T \in G
  <2>1. CASE T = {}
    BY <2>1, SumEmpty
  <2>2. CASE T # {}
    <3>1. PICK c \in T : TRUE
      BY <2>2
    <3> DEFINE rest == T \ {c}
    <3>2. SumFunctionOnSet(f, T) = f[c] + SumFunctionOnSet(f, rest)
      BY <1>0, SumRemove
    <3>3. SumFunctionOnSet(f, A \cap rest) <= SumFunctionOnSet(f, rest)
      BY <1>1
    <3>4. CASE c \notin A
      <4>1. A \cap T = A \cap rest
        BY <3>4
      <4> HIDE DEF rest
      <4>2. f[c] \in Nat /\ SumFunctionOnSet(f, A \cap rest) \in Nat
            /\ SumFunctionOnSet(f, rest) \in Nat
        BY <1>0 DEF rest
      <4>3. SumFunctionOnSet(f, A \cap T) = SumFunctionOnSet(f, A \cap rest)
        BY <4>1, Zenon
      <4>4. SumFunctionOnSet(f, A \cap T) <= SumFunctionOnSet(f, T)
        BY <3>2, <3>3, <4>2, <4>3
      <4> QED
        BY <4>4
    <3>5. CASE c \in A
      <4>1. A \cap rest = (A \cap T) \ {c} /\ c \in A \cap T /\ A \cap T \in SUBSET S
        BY <3>5
      <4>2. SumFunctionOnSet(f, A \cap T) = f[c] + SumFunctionOnSet(f, A \cap rest)
        BY <1>0, <4>1, SumRemove
      <4> HIDE DEF rest
      <4>3. f[c] \in Nat /\ SumFunctionOnSet(f, A \cap rest) \in Nat
            /\ SumFunctionOnSet(f, rest) \in Nat
        BY <1>0 DEF rest
      <4>4. SumFunctionOnSet(f, A \cap T) <= SumFunctionOnSet(f, T)
        BY <3>2, <3>3, <4>2, <4>3
      <4> QED
        BY <4>4
    <3> QED
      BY <3>4, <3>5
  <2> QED
    BY <2>1, <2>2
<1>2. \A T \in SUBSET S : T \in G
  <2> HIDE DEF G
  <2> QED
    BY <1>1, SubsetInduction
<1>3. S \in SUBSET S /\ S \in G /\ A \cap S = A
  BY <1>2
<1> QED
  BY <1>3

\* A sum is not larger than another if each of its terms that is not zero has
\* one of its own there that is as large.
LEMMA SumInjection ==
  ASSUME NEW f, NEW S, IsFiniteSet(S), \A s \in S : f[s] \in Nat,
         NEW g, NEW T, IsFiniteSet(T), \A t \in T : g[t] \in Nat,
         NEW phi, \A s \in S : f[s] # 0 => phi[s] \in T /\ f[s] <= g[phi[s]],
         \A r, s \in S : f[r] # 0 /\ f[s] # 0 /\ phi[r] = phi[s] => r = s
  PROVE  SumFunctionOnSet(f, S) <= SumFunctionOnSet(g, T)
<1> DEFINE Image(U) == {phi[s] : s \in {r \in U : f[r] # 0}}
           G == {U \in SUBSET S :
                   SumFunctionOnSet(f, U) <= SumFunctionOnSet(g, Image(U))}
<1>0. \A U \in SUBSET S : /\ IsFiniteSet(U) /\ SumFunctionOnSet(f, U) \in Nat
                          /\ Image(U) \in SUBSET T
  BY SumNat, FS_Subset
<1>00. \A U \in SUBSET T : IsFiniteSet(U) /\ SumFunctionOnSet(g, U) \in Nat
  BY SumNat, FS_Subset
<1>1. ASSUME NEW U \in SUBSET S, \A y \in U : U \ {y} \in G PROVE U \in G
  <2>1. CASE U = {}
    <3>1. Image(U) = {}
      BY <2>1
    <3> HIDE DEF Image
    <3>2. SumFunctionOnSet(f, U) <= SumFunctionOnSet(g, Image(U))
      BY <2>1, <3>1, SumEmpty
    <3> QED
      BY <3>2
  <2>2. CASE U # {}
    <3>1. PICK c \in U : TRUE
      BY <2>2
    <3> DEFINE rest == U \ {c}
    <3>2. SumFunctionOnSet(f, U) = f[c] + SumFunctionOnSet(f, rest)
      BY <1>0, SumRemove
    <3>3. SumFunctionOnSet(f, rest) <= SumFunctionOnSet(g, Image(rest))
      BY <1>1
    <3>4. rest \in SUBSET S /\ f[c] \in Nat
      OBVIOUS
    <3>5. CASE f[c] = 0
      <4>1. Image(U) = Image(rest)
        BY <3>5
      <4> HIDE DEF Image, rest
      <4>2. SumFunctionOnSet(f, U) <= SumFunctionOnSet(g, Image(U))
        BY <1>0, <1>00, <3>2, <3>3, <3>4, <3>5, <4>1
      <4> QED
        BY <4>2
    <3>6. CASE f[c] # 0
      <4>1. /\ Image(rest) = Image(U) \ {phi[c]}
            /\ phi[c] \in Image(U)
        BY <3>6
      <4>2. /\ Image(U) \in SUBSET T /\ Image(rest) \in SUBSET T
            /\ SumFunctionOnSet(f, rest) \in Nat
        BY <1>0, <3>4
      <4>3. f[c] <= g[phi[c]] /\ g[phi[c]] \in Nat
        BY <3>6
      <4> HIDE DEF Image, rest
      <4>4. IsFiniteSet(Image(U)) /\ \A t \in Image(U) : g[t] \in Int
        BY <1>00, <4>2
      <4>5. SumFunctionOnSet(g, Image(U)) = g[phi[c]] + SumFunctionOnSet(g, Image(rest))
        BY <4>1, <4>4, SumRemove
      <4>6. SumFunctionOnSet(g, Image(rest)) \in Nat
        BY <1>00, <4>2
      <4>7. SumFunctionOnSet(f, U) <= SumFunctionOnSet(g, Image(U))
        BY <3>2, <3>3, <3>4, <4>2, <4>3, <4>5, <4>6
      <4> QED
        BY <4>7
    <3> QED
      BY <3>5, <3>6
  <2> QED
    BY <2>1, <2>2
<1>2. \A U \in SUBSET S : U \in G
  <2> HIDE DEF G
  <2> QED
    BY <1>1, SubsetInduction
<1>3. SumFunctionOnSet(f, S) <= SumFunctionOnSet(g, Image(S))
  <2>1. S \in SUBSET S
    OBVIOUS
  <2> QED
    BY <1>2, <2>1
<1>4. SumFunctionOnSet(g, Image(S)) <= SumFunctionOnSet(g, T)
  <2>1. Image(S) \in SUBSET T
    OBVIOUS
  <2> HIDE DEF Image
  <2> QED
    BY <2>1, SumSubset
<1>5. Image(S) \in SUBSET T /\ S \in SUBSET S /\ T \in SUBSET T
  BY <1>0
<1> HIDE DEF Image
<1>6. /\ SumFunctionOnSet(f, S) \in Nat /\ SumFunctionOnSet(g, Image(S)) \in Nat
      /\ SumFunctionOnSet(g, T) \in Nat
  BY <1>0, <1>00, <1>5
<1> QED
  BY <1>3, <1>4, <1>6

-------------------------------------------------------------------------------
(* Rounding *)

\* Multiplication by a natural keeps an order.
LEMMA Scale ==
  ASSUME NEW a \in Int, NEW b \in Int, NEW c \in Nat, a <= b
  PROVE  a * c <= b * c /\ c * a <= c * b
OBVIOUS

\* A rounded quotient is the integer next to it.
LEMMA RoundDivBounds ==
  ASSUME NEW a \in Int, NEW b \in Nat \ {0}
  PROVE  /\ RoundDiv(a, b) \in Int
         /\ (2 * b) * RoundDiv(a, b) <= 2 * a + b
         /\ 2 * a + b < (2 * b) * (RoundDiv(a, b) + 1)
<1> DEFINE n == 2 * a + b
           d == 2 * b
           q == n \div d
<1>1. n \in Int /\ d \in Nat /\ d > 0
  OBVIOUS
<1> HIDE DEF n, d
<1>2. q \in Int /\ d * q <= n /\ n < d * q + d
  BY <1>1
<1>3. d * (q + 1) = d * q + d
  BY <1>1, <1>2
<1> QED
  BY <1>2, <1>3 DEF RoundDiv, n, d

\* Rounding keeps the order of two quotients.
LEMMA RoundDivMonotone ==
  ASSUME NEW a \in Int, NEW b \in Nat \ {0}, NEW c \in Int, NEW d \in Nat \ {0},
         a * d <= c * b
  PROVE  RoundDiv(a, b) <= RoundDiv(c, d)
<1> DEFINE p == RoundDiv(a, b)
           q == RoundDiv(c, d)
<1>1. p \in Int /\ q \in Int
  BY RoundDivBounds
<1>2. (2 * b) * p <= 2 * a + b /\ 2 * c + d < (2 * d) * (q + 1)
  BY RoundDivBounds
<1> HIDE DEF p, q
<1> SUFFICES ASSUME q + 1 <= p
             PROVE  FALSE
  BY <1>1 DEF p, q
<1>3. d * ((2 * b) * p) <= d * (2 * a + b)
  BY <1>1, <1>2, Scale
<1>4. b * (2 * c + d) < b * ((2 * d) * (q + 1))
  BY <1>1, <1>2
<1>5. (2 * b * d) * (q + 1) <= (2 * b * d) * p
  <2>1. 2 * b * d \in Nat /\ q + 1 \in Int
    BY <1>1
  <2> QED
    BY <1>1, <2>1, Scale
<1>6. d * ((2 * b) * p) = (2 * b * d) * p /\ b * ((2 * d) * (q + 1)) = (2 * b * d) * (q + 1)
  BY <1>1
<1>7. d * (2 * a + b) = 2 * (a * d) + b * d /\ b * (2 * c + d) = 2 * (c * b) + b * d
  OBVIOUS
<1>8. /\ a * d \in Int /\ c * b \in Int /\ b * d \in Int
      /\ (2 * b * d) * p \in Int /\ (2 * b * d) * (q + 1) \in Int
  BY <1>1
<1> QED
  BY <1>3, <1>4, <1>5, <1>6, <1>7, <1>8

-------------------------------------------------------------------------------
(* Roles and their years *)

\* Only the two dates of a role say how long it was: a natural.
LEMMA DurationIsNatural ==
  ASSUME NEW role \in Role
  PROVE  Duration(role) \in Nat
<1> DEFINE dates == Dates(role)
<1>1. role.start \in Seq(Moments) /\ role.end \in Seq(Moments)
  BY DEF Role, DateTexts
<1>2. dates \in Seq(Moments)
  <2>1. CASE <<>> \in {role.start, role.end}
    BY <1>1, <2>1 DEF Dates, Front
  <2>2. CASE <<>> \notin {role.start, role.end}
    <3>1. Last(role.start) \in Moments /\ Last(role.end) \in Moments
      BY <1>1, <2>2 DEF Last
    <3> QED
      BY <2>2, <3>1 DEF Dates
  <2> QED
    BY <2>1, <2>2
<1>3. CASE Len(dates) # 2 \/ Garbled \in {dates[1], dates[2]}
  BY <1>3 DEF Duration
<1>4. CASE ~ (Len(dates) # 2 \/ Garbled \in {dates[1], dates[2]})
  <2> DEFINE from == Month(dates[1])
             to == Month(dates[2])
             years == RoundDiv(100 * (to - from), 12)
  <2>1. dates[1] \in {Present} \cup Int /\ dates[2] \in {Present} \cup Int
    BY <1>2, <1>4 DEF Moments
  <2>2. from \in Int /\ to \in Int
    BY <2>1 DEF Month
  <2> HIDE DEF from, to
  <2>3. years \in Int
    BY <2>2, RoundDivBounds
  <2>4. Duration(role) = AtLeast(0, years)
    BY <1>4 DEF Duration, from, to
  <2> HIDE DEF years
  <2> QED
    BY <2>3, <2>4 DEF AtLeast
<1> QED
  BY <1>3, <1>4

\* Roles that are the same to calculate_scorecard were held equally long.
LEMMA SameKeySameDuration ==
  ASSUME NEW q, NEW r, DedupKey(q) = DedupKey(r)
  PROVE  Duration(q) = Duration(r)
BY DEF DedupKey, Duration, Dates

\* What CareerYears sums.
Durations(roles) == [i \in DOMAIN roles |-> Duration(roles[i])]

\* The counted roles are finitely many, and each has years to add.
LEMMA CountedType ==
  ASSUME NEW roles \in Seq(Role)
  PROVE  /\ Counted(roles) \in SUBSET DOMAIN roles
         /\ IsFiniteSet(Counted(roles))
         /\ \A i \in Counted(roles) : Durations(roles)[i] \in Nat
<1>1. DOMAIN roles = 1 .. Len(roles) /\ Len(roles) \in Nat
  OBVIOUS
<1>2. IsFiniteSet(DOMAIN roles)
  BY <1>1, FS_Interval
<1>3. Counted(roles) \in SUBSET DOMAIN roles
  BY DEF Counted
<1>4. \A i \in Counted(roles) : Durations(roles)[i] \in Nat
  BY <1>3, DurationIsNatural DEF Durations
<1> QED
  BY <1>2, <1>3, <1>4, FS_Subset

\* No two counted roles have one key.
LEMMA CountedOnce ==
  ASSUME NEW roles \in Seq(Role), NEW i \in Counted(roles), NEW j \in Counted(roles),
         DedupKey(roles[i]) = DedupKey(roles[j])
  PROVE  i = j
<1>1. i \in Nat /\ j \in Nat /\ i >= 1 /\ j >= 1
  BY DEF Counted
<1>2. ~ (i < j) /\ ~ (j < i)
  BY <1>1 DEF Counted
<1> QED
  BY <1>1, <1>2

\* A relevant role is counted, or an earlier one with its key is.
LEMMA FirstIsCounted ==
  ASSUME NEW roles \in Seq(Role), NEW i \in DOMAIN roles, roles[i].relevant
  PROVE  \E k \in Counted(roles) : DedupKey(roles[k]) = DedupKey(roles[i])
<1> DEFINE same == {k \in DOMAIN roles : roles[k].relevant /\ DedupKey(roles[k]) = DedupKey(roles[i])}
<1>1. same \in SUBSET Nat /\ i \in same
  OBVIOUS
<1>2. PICK k \in same : \A j \in same : k <= j
  <2> HIDE DEF same
  <2> QED
    BY <1>1, LeastNatural
<1>3. k \in Nat /\ k \in DOMAIN roles
  OBVIOUS
<1>4. ASSUME NEW j \in 1 .. k - 1, roles[j].relevant
      PROVE  DedupKey(roles[j]) # DedupKey(roles[k])
  <2>1. j \in DOMAIN roles /\ j < k
    BY <1>3
  <2> QED
    BY <1>2, <1>4, <2>1
<1> QED
  BY <1>2, <1>3, <1>4 DEF Counted

\* The years only grow if every role that has any is among the others.
LEMMA YearsGrow ==
  ASSUME NEW q \in Seq(Role), NEW r \in Seq(Role),
         \A i \in DOMAIN q : q[i].relevant /\ Duration(q[i]) # 0 =>
           \E j \in DOMAIN r : r[j].relevant /\ DedupKey(r[j]) = DedupKey(q[i])
  PROVE  CareerYears(q) <= CareerYears(r)
<1> DEFINE phi == [i \in Counted(q) |->
                     CHOOSE k \in Counted(r) : DedupKey(r[k]) = DedupKey(q[i])]
<1>1. /\ IsFiniteSet(Counted(q)) /\ IsFiniteSet(Counted(r))
      /\ \A i \in Counted(q) : Durations(q)[i] \in Nat
      /\ \A i \in Counted(r) : Durations(r)[i] \in Nat
      /\ \A i \in Counted(q) : Durations(q)[i] = Duration(q[i]) /\ i \in DOMAIN q
      /\ \A i \in Counted(r) : Durations(r)[i] = Duration(r[i])
  BY CountedType DEF Durations
<1>2. ASSUME NEW i \in Counted(q), Durations(q)[i] # 0
      PROVE  /\ phi[i] \in Counted(r)
             /\ DedupKey(r[phi[i]]) = DedupKey(q[i])
  <2>1. PICK j \in DOMAIN r : r[j].relevant /\ DedupKey(r[j]) = DedupKey(q[i])
    BY <1>1, <1>2 DEF Counted
  <2>2. \E k \in Counted(r) : DedupKey(r[k]) = DedupKey(q[i])
    BY <2>1, FirstIsCounted
  <2> QED
    BY <2>2
<1> HIDE DEF phi
<1>3. ASSUME NEW i \in Counted(q), Durations(q)[i] # 0
      PROVE  phi[i] \in Counted(r) /\ Durations(q)[i] <= Durations(r)[phi[i]]
  <2>1. Durations(q)[i] = Durations(r)[phi[i]]
    BY <1>1, <1>2, <1>3, SameKeySameDuration
  <2> QED
    BY <1>1, <1>2, <1>3, <2>1
<1>4. ASSUME NEW i \in Counted(q), NEW j \in Counted(q),
             Durations(q)[i] # 0, Durations(q)[j] # 0, phi[i] = phi[j]
      PROVE  i = j
  <2>1. DedupKey(q[i]) = DedupKey(q[j])
    BY <1>2, <1>4
  <2> QED
    BY <2>1, CountedOnce
<1>5. SumFunctionOnSet(Durations(q), Counted(q)) <= SumFunctionOnSet(Durations(r), Counted(r))
  BY <1>1, <1>3, <1>4, SumInjection
<1> QED
  BY <1>5 DEF CareerYears, Durations

\* Nor are there more of them, if every relevant role is among the others.
LEMMA CountGrows ==
  ASSUME NEW q \in Seq(Role), NEW r \in Seq(Role),
         \A i \in DOMAIN q : q[i].relevant =>
           \E j \in DOMAIN r : r[j].relevant /\ DedupKey(r[j]) = DedupKey(q[i])
  PROVE  Cardinality(Counted(q)) <= Cardinality(Counted(r))
<1> DEFINE phi == [i \in Counted(q) |->
                     CHOOSE k \in Counted(r) : DedupKey(r[k]) = DedupKey(q[i])]
<1>1. ASSUME NEW i \in Counted(q)
      PROVE  /\ phi[i] \in Counted(r)
             /\ DedupKey(r[phi[i]]) = DedupKey(q[i])
  <2>1. PICK j \in DOMAIN r : r[j].relevant /\ DedupKey(r[j]) = DedupKey(q[i])
    BY DEF Counted
  <2>2. \E k \in Counted(r) : DedupKey(r[k]) = DedupKey(q[i])
    BY <2>1, FirstIsCounted
  <2> QED
    BY <2>2
<1>2. phi \in [Counted(q) -> Counted(r)]
  BY <1>1
<1> HIDE DEF phi
<1>3. \A i, j \in Counted(q) : phi[i] = phi[j] => i = j
  <2> SUFFICES ASSUME NEW i \in Counted(q), NEW j \in Counted(q), phi[i] = phi[j]
               PROVE  i = j
    OBVIOUS
  <2>1. DedupKey(q[i]) = DedupKey(q[j])
    BY <1>1
  <2> QED
    BY <2>1, CountedOnce
<1>4. phi \in Injection(Counted(q), Counted(r))
  BY <1>2, <1>3 DEF Injection, IsInjective
<1> QED
  BY <1>4, CountedType, FS_Injection

-------------------------------------------------------------------------------
(* Weights and scores *)

\* What the models may extract.
Answer == [skills : SkillCounts, roles : Seq(Role), target : {Null} \cup Nat]

\* The sums of the weights that apply.
LEMMA WeightSums ==
  ASSUME NEW w, w["skills_match"] \in Int
  PROVE  /\ SumFunctionOnSet(w, {"skills_match"}) = w["skills_match"]
         /\ w["work_experience"] \in Int =>
              SumFunctionOnSet(w, Pillars) = w["skills_match"] + w["work_experience"]
<1>1. IsFiniteSet({}) /\ IsFiniteSet({"skills_match"})
  BY FS_EmptySet, FS_Singleton
<1>2. SumFunctionOnSet(w, {}) = 0
  BY SumEmpty
<1>3. SumFunctionOnSet(w, {"skills_match"}) = w["skills_match"]
  <2>1. {"skills_match"} \ {"skills_match"} = {}
    OBVIOUS
  <2> QED
    BY <1>1, <1>2, <2>1, SumRemove
<1>4. ASSUME w["work_experience"] \in Int
      PROVE  SumFunctionOnSet(w, Pillars) = w["skills_match"] + w["work_experience"]
  <2>1. Pillars = {"skills_match"} \cup {"work_experience"} /\ "work_experience" \notin {"skills_match"}
    BY DEF Pillars
  <2>2. SumFunctionOnSet(w, {"skills_match"} \cup {"work_experience"}) =
          w["work_experience"] + SumFunctionOnSet(w, {"skills_match"})
    BY <1>1, <1>4, <2>1, SumAdd
  <2> QED
    BY <1>3, <1>4, <2>1, <2>2
<1> QED
  BY <1>3, <1>4

\* A share of the requirements, between nothing and everything.
LEMMA MatchIsShare ==
  ASSUME NEW skills \in SkillCounts
  PROVE  MatchPercentage(skills) \in 0 .. 10000
<1>1. skills.matched \in Nat /\ skills.total \in Nat /\ skills.matched <= skills.total
  BY DEF SkillCounts
<1>2. CASE skills.total = 0
  BY <1>2 DEF MatchPercentage
<1>3. CASE skills.total # 0
  <2> DEFINE a == 10000 * skills.matched
             b == skills.total
             p == RoundDiv(a, b)
  <2>1. a \in Int /\ b \in Nat \ {0} /\ 0 <= a /\ a <= 10000 * b
    BY <1>1, <1>3
  <2> HIDE DEF a, b
  <2>2. p \in Int
    BY <2>1, RoundDivBounds
  <2>3. RoundDiv(0, 1) = 0 /\ RoundDiv(10000, 1) = 10000
    BY DEF RoundDiv
  <2>4. RoundDiv(0, 1) <= p
    BY <2>1, RoundDivMonotone
  <2>5. p <= RoundDiv(10000, 1)
    BY <2>1, RoundDivMonotone
  <2> HIDE DEF p
  <2>6. p \in 0 .. 10000
    BY <2>2, <2>3, <2>4, <2>5
  <2>7. p = RoundDiv(10000 * skills.matched, skills.total)
    BY DEF p, a, b
  <2>8. MatchPercentage(skills) = p
    BY <1>3, <2>7 DEF MatchPercentage
  <2> QED
    BY <2>6, <2>8
<1> QED
  BY <1>2, <1>3

\* The years that are scored, and the years they are scored against.
LEMMA YearsType ==
  ASSUME NEW a \in Answer, a.target # Null
  PROVE  /\ CareerYears(a.roles) \in Nat
         /\ TargetYears(a.target) \in Nat \ {0}
         /\ ScaledExperience(a) \in Nat
<1>1. a.roles \in Seq(Role) /\ a.target \in Nat
  BY DEF Answer
<1>2. CareerYears(a.roles) \in Nat
  BY <1>1, CountedType, SumNat DEF CareerYears, Durations
<1>3. TargetYears(a.target) \in Nat \ {0}
  BY <1>1 DEF TargetYears, AtLeast
<1> QED
  BY <1>2, <1>3 DEF ScaledExperience, AtMost

\* The two weights that FinalRelevance uses.
Weighed(w, a) ==
  /\ w["skills_match"] \in Nat
  /\ a.target # Null => w["work_experience"] \in Nat
  /\ ActiveWeight(w, a) \in Nat \ {0}

\* What InRange and ~CannotScore say of the weights.
LEMMA ScorableIsWeighed ==
  ASSUME NEW w, NEW a \in Answer, InRange(w), ~ CannotScore(w, a)
  PROVE  Weighed(w, a)
<1>1. Applicable(a) \subseteq DOMAIN w /\ ActiveWeight(w, a) # 0
  BY DEF CannotScore
<1>2. CASE a.target = Null
  <2>1. w["skills_match"] \in Nat
    BY <1>1, <1>2 DEF Applicable, InRange
  <2>2. ActiveWeight(w, a) = w["skills_match"]
    BY <1>2, <2>1, WeightSums DEF ActiveWeight, Applicable
  <2> QED
    BY <1>1, <1>2, <2>1, <2>2 DEF Weighed
<1>3. CASE a.target # Null
  <2>1. w["skills_match"] \in Nat /\ w["work_experience"] \in Nat
    BY <1>1, <1>3 DEF Applicable, InRange, Pillars
  <2>2. ActiveWeight(w, a) = w["skills_match"] + w["work_experience"]
    BY <1>3, <2>1, WeightSums DEF ActiveWeight, Applicable
  <2> QED
    BY <1>1, <1>3, <2>1, <2>2 DEF Weighed
<1> QED
  BY <1>2, <1>3

\* More years never lower the final score.
LEMMA FinalGrows ==
  ASSUME NEW w, NEW a \in Answer, NEW b \in Answer,
         a.skills = b.skills, a.target = b.target, Weighed(w, a),
         CareerYears(a.roles) <= CareerYears(b.roles)
  PROVE  FinalRelevance(w, a) <= FinalRelevance(w, b)
<1> DEFINE p == MatchPercentage(a.skills)
           active == ActiveWeight(w, a)
<1>1. ActiveWeight(w, b) = active
  BY DEF ActiveWeight, Applicable
<1>2. p \in Nat
  <2>1. a.skills \in SkillCounts
    BY DEF Answer
  <2>2. p \in 0 .. 10000
    BY <2>1, MatchIsShare
  <2> HIDE DEF p
  <2> QED
    BY <2>2
<1>3. CASE a.target = Null
  <2>1. FinalRelevance(w, a) = RoundDiv(w["skills_match"] * p, 10 * active)
    BY <1>3 DEF FinalRelevance
  <2>2. FinalRelevance(w, b) = RoundDiv(w["skills_match"] * p, 10 * active)
    BY <1>1, <1>3 DEF FinalRelevance
  <2>3. w["skills_match"] * p \in Int /\ 10 * active \in Nat \ {0}
    BY <1>2 DEF Weighed
  <2> HIDE DEF active, p
  <2>4. RoundDiv(w["skills_match"] * p, 10 * active) \in Int
    BY <2>3, RoundDivBounds
  <2> QED
    BY <2>1, <2>2, <2>4
<1>4. CASE a.target # Null
  <2> DEFINE y == TargetYears(a.target)
             x == ScaledExperience(a)
             z == ScaledExperience(b)
             s == w["skills_match"]
             e == w["work_experience"]
             n == s * p * y
             d == 10 * active * y
  <2>1. y \in Nat \ {0} /\ x \in Nat /\ z \in Nat
    BY <1>4, YearsType
  <2>2. x <= z
    <3>1. CareerYears(a.roles) \in Nat /\ CareerYears(b.roles) \in Nat
      BY <1>4, YearsType
    <3> QED
      BY <2>1, <3>1 DEF ScaledExperience, AtMost
  <2>3. s \in Nat /\ e \in Nat /\ active \in Nat \ {0}
    BY <1>4 DEF Weighed
  <2>4. /\ FinalRelevance(w, a) = RoundDiv(n + e * x, d)
        /\ FinalRelevance(w, b) = RoundDiv(n + e * z, d)
    BY <1>1, <1>4 DEF FinalRelevance
  <2> HIDE DEF y, x, z, s, e, active, p
  <2>5. e * x <= e * z /\ e * x \in Nat /\ e * z \in Nat
    BY <2>1, <2>2, <2>3, Scale
  <2>6. n \in Nat /\ d \in Nat \ {0}
    <3>1. s * p \in Nat
      BY <1>2, <2>3
    <3>2. 10 * active \in Nat \ {0}
      BY <2>3
    <3> QED
      BY <2>1, <3>1, <3>2
  <2> HIDE DEF n, d
  <2>7. n + e * x \in Int /\ n + e * z \in Int /\ n + e * x <= n + e * z
    BY <2>5, <2>6
  <2>8. (n + e * x) * d <= (n + e * z) * d
    BY <2>6, <2>7, Scale
  <2> QED
    BY <2>4, <2>6, <2>7, <2>8, RoundDivMonotone
<1> QED
  BY <1>3, <1>4

\* The final score lies between those of the pillars that apply.
LEMMA FinalBetween ==
  ASSUME NEW w, NEW a \in Answer, Weighed(w, a)
  PROVE  /\ FinalRelevance(w, a) \in Int /\ PillarA(a) \in Int /\ PillarB(a) \in Int
         /\ a.target = Null => FinalRelevance(w, a) = PillarA(a)
         /\ a.target # Null =>
              \/ PillarA(a) <= FinalRelevance(w, a) /\ FinalRelevance(w, a) <= PillarB(a)
              \/ PillarB(a) <= FinalRelevance(w, a) /\ FinalRelevance(w, a) <= PillarA(a)
<1> DEFINE p == MatchPercentage(a.skills)
           active == ActiveWeight(w, a)
           s == w["skills_match"]
           A == RoundDiv(p, 10)
           F == FinalRelevance(w, a)
<1>1. p \in Nat
  <2>1. a.skills \in SkillCounts
    BY DEF Answer
  <2>2. p \in 0 .. 10000
    BY <2>1, MatchIsShare
  <2> HIDE DEF p
  <2> QED
    BY <2>2
<1>2. s \in Nat /\ active \in Nat \ {0}
  BY DEF Weighed
<1>3. PillarA(a) = A
  BY DEF PillarA
<1>4. CASE a.target = Null
  <2>1. active = s
    BY <1>2, <1>4, WeightSums DEF ActiveWeight, Applicable
  <2>2. F = RoundDiv(s * p, 10 * s)
    BY <1>4, <2>1 DEF FinalRelevance
  <2> HIDE DEF active, s, p, A, F
  <2>3. s * p \in Int /\ 10 * s \in Nat \ {0} /\ (s * p) * 10 = p * (10 * s)
    BY <1>1, <1>2, <2>1
  <2>4. A \in Int /\ F \in Int
    BY <1>1, <2>2, <2>3, RoundDivBounds DEF A
  <2>5. A <= F
    BY <1>1, <2>2, <2>3, RoundDivMonotone DEF A
  <2>6. F <= A
    BY <1>1, <2>2, <2>3, RoundDivMonotone DEF A
  <2>7. F = A /\ PillarB(a) \in Int
    BY <1>4, <2>4, <2>5, <2>6 DEF PillarB
  <2> QED
    BY <1>3, <1>4, <2>4, <2>7 DEF F
<1>5. CASE a.target # Null
  <2> DEFINE y == TargetYears(a.target)
             x == ScaledExperience(a)
             e == w["work_experience"]
             m == p * y
             n == s * p * y + e * x
             d == 10 * active * y
             B == RoundDiv(x, 10 * y)
  <2>1. y \in Nat \ {0} /\ x \in Nat
    BY <1>5, YearsType
  <2>2. e \in Nat /\ active = s + e
    <3>1. e \in Nat
      BY <1>5 DEF Weighed
    <3> QED
      BY <1>2, <1>5, <3>1, WeightSums DEF ActiveWeight, Applicable
  <2>3. F = RoundDiv(n, d) /\ PillarB(a) = B
    BY <1>5 DEF FinalRelevance, PillarB
  <2> HIDE DEF y, x, s, e, active, p, A, F
  <2>4. m \in Nat
    BY <1>1, <2>1
  <2>5. s * m \in Nat /\ e * m \in Nat /\ s * x \in Nat /\ e * x \in Nat
    BY <1>2, <2>1, <2>2, <2>4
  <2>6. n = s * m + e * x
    BY <1>1, <1>2, <2>1, <2>2
  <2>7. n \in Nat
    BY <2>5, <2>6
  <2>8. 10 * y \in Nat \ {0} /\ d \in Nat \ {0}
    <3>1. 10 * y \in Nat \ {0} /\ 10 * active \in Nat \ {0}
      BY <1>2, <2>1
    <3> QED
      BY <2>1, <3>1
  <2>9. p * d = 10 * (s * m + e * m)
    <3>1. d = 10 * (s + e) * y
      BY <2>2
    <3> QED
      BY <1>1, <1>2, <2>1, <2>2, <3>1
  <2>10. x * d = (10 * y) * (s * x + e * x)
    <3>1. d = 10 * (s + e) * y
      BY <2>2
    <3> QED
      BY <1>1, <1>2, <2>1, <2>2, <3>1
  <2> HIDE DEF m, n, d
  <2>11. A \in Int /\ B \in Int /\ F \in Int
    BY <1>1, <2>1, <2>3, <2>7, <2>8, RoundDivBounds DEF A
  <2>12. CASE m <= x
    <3>1. s * m <= s * x /\ e * m <= e * x
      BY <1>2, <2>1, <2>2, <2>4, <2>12, Scale
    <3>2. p * d <= n * 10
      BY <2>5, <2>6, <2>9, <3>1
    <3>3. A <= F
      BY <1>1, <2>3, <2>7, <2>8, <3>2, RoundDivMonotone DEF A
    <3>4. n * (10 * y) <= x * d
      <4>1. n <= s * x + e * x /\ s * x + e * x \in Int
        BY <2>5, <2>6, <3>1
      <4>2. n * (10 * y) <= (s * x + e * x) * (10 * y)
        BY <2>7, <2>8, <4>1, Scale
      <4>3. (s * x + e * x) * (10 * y) = (10 * y) * (s * x + e * x)
        BY <2>5, <2>8
      <4> QED
        BY <2>10, <4>2, <4>3
    <3>5. F <= B
      BY <2>1, <2>3, <2>7, <2>8, <3>4, RoundDivMonotone
    <3> QED
      BY <1>3, <1>5, <2>3, <2>11, <3>3, <3>5 DEF F
  <2>13. CASE x <= m
    <3>1. s * x <= s * m /\ e * x <= e * m
      BY <1>2, <2>1, <2>2, <2>4, <2>13, Scale
    <3>2. n * 10 <= p * d
      BY <2>5, <2>6, <2>9, <3>1
    <3>3. F <= A
      BY <1>1, <2>3, <2>7, <2>8, <3>2, RoundDivMonotone DEF A
    <3>4. x * d <= n * (10 * y)
      <4>1. s * x + e * x <= n /\ s * x + e * x \in Int
        BY <2>5, <2>6, <3>1
      <4>2. (s * x + e * x) * (10 * y) <= n * (10 * y)
        BY <2>7, <2>8, <4>1, Scale
      <4>3. (s * x + e * x) * (10 * y) = (10 * y) * (s * x + e * x)
        BY <2>5, <2>8
      <4> QED
        BY <2>10, <4>2, <4>3
    <3>5. B <= F
      BY <2>1, <2>3, <2>7, <2>8, <3>4, RoundDivMonotone
    <3> QED
      BY <1>3, <1>5, <2>3, <2>11, <3>3, <3>5 DEF F
  <2> QED
    BY <2>1, <2>4, <2>12, <2>13
<1> QED
  BY <1>4, <1>5

-------------------------------------------------------------------------------
(* Completed dates *)

\* A completed role is a role, with the title it had.
LEMMA CompletedType ==
  ASSUME NEW role \in Role, NEW block \in Block
  PROVE  /\ Completed(role, block) \in Role
         /\ Completed(role, block).title = role.title
<1>1. block.start \in DateTexts({0, 1, 3}) /\ block.end \in DateTexts({0, 1, 3})
  BY DEF Block, DateTexts
<1>2. role.start \in DateTexts({0, 1, 3}) /\ role.end \in DateTexts({0, 1, 3})
  BY DEF Role
<1> QED
  BY <1>1, <1>2 DEF Completed, Role

\* What a role becomes.
LEMMA BackfilledRole ==
  ASSUME NEW roles \in Seq(Role), NEW blks \in Seq(Block), NEW i \in DOMAIN roles
  PROVE  \/ Backfilled(roles, blks)[i] = roles[i]
         \/ \E k \in DOMAIN blks : Backfilled(roles, blks)[i] = Completed(roles[i], blks[k])
<1> DEFINE same == {k \in DOMAIN blks : TitlesOverlap(roles[i].title, blks[k].title)}
<1>1. CASE same = {}
  BY <1>1 DEF Backfilled
<1>2. CASE same # {}
  <2>1. same \in SUBSET Nat
    OBVIOUS
  <2>2. \E x \in same : \A y \in same : x <= y
    <3> HIDE DEF same
    <3> QED
      BY <1>2, <2>1, LeastNatural
  <2>3. Min(same) \in same
    BY <2>2 DEF Min
  <2>4. Backfilled(roles, blks)[i] = Completed(roles[i], blks[Min(same)])
    BY <1>2 DEF Backfilled
  <2> QED
    BY <2>3, <2>4
<1> QED
  BY <1>1, <1>2

\* It depends on nothing but the role itself.
LEMMA BackfilledAlike ==
  ASSUME NEW q, NEW r, NEW blks, NEW i \in DOMAIN q, NEW j \in DOMAIN r, q[i] = r[j]
  PROVE  Backfilled(q, blks)[i] = Backfilled(r, blks)[j]
BY DEF Backfilled

\* Completing dates keeps the roles, and their order.
LEMMA BackfilledType ==
  ASSUME NEW roles \in Seq(Role), NEW blks \in Seq(Block)
  PROVE  /\ Backfilled(roles, blks) \in Seq(Role)
         /\ DOMAIN Backfilled(roles, blks) = DOMAIN roles
<1>1. DOMAIN Backfilled(roles, blks) = 1 .. Len(roles) /\ Len(roles) \in Nat
  BY DEF Backfilled
<1>2. ASSUME NEW i \in 1 .. Len(roles) PROVE Backfilled(roles, blks)[i] \in Role
  <2>1. CASE Backfilled(roles, blks)[i] = roles[i]
    BY <2>1
  <2>2. ASSUME NEW k \in DOMAIN blks, Backfilled(roles, blks)[i] = Completed(roles[i], blks[k])
        PROVE  Backfilled(roles, blks)[i] \in Role
    BY <2>2, CompletedType
  <2> QED
    BY <2>1, <2>2, BackfilledRole
<1>3. Backfilled(roles, blks) = [i \in 1 .. Len(roles) |-> Backfilled(roles, blks)[i]]
  BY DEF Backfilled
<1> HIDE DEF Backfilled
<1> QED
  BY <1>1, <1>2, <1>3

\* Only the roles of an answer are completed.
LEMMA ScoredType ==
  ASSUME NEW a \in Answer, NEW b \in Seq(Block)
  PROVE  /\ Scored(a, b) \in Answer
         /\ Scored(a, b).skills = a.skills
         /\ Scored(a, b).target = a.target
         /\ Scored(a, b).roles = Backfilled(a.roles, b)
<1>1. a.roles \in Seq(Role)
  BY DEF Answer
<1>2. Backfilled(a.roles, b) \in Seq(Role)
  BY <1>1, BackfilledType
<1> QED
  BY <1>2 DEF Answer, Scored

\* A date was missing where something was completed: there were no years,
\* except where the start held a whole range.
LEMMA CompletedHadNoYears ==
  ASSUME NEW role \in Role, NEW block \in Block, Completed(role, block) # role,
         Len(role.start) # 3
  PROVE  Duration(role) = 0
<1>1. /\ role.start \in Seq(Moments) /\ Len(role.start) \in {0, 1}
      /\ role.end \in Seq(Moments)
  BY DEF Role, DateTexts
<1>2. role.start = <<>> \/ role.end = <<>>
  <2>1. SUFFICES ASSUME role.start # <<>>, role.end # <<>>
                 PROVE  Completed(role, block) = role
    OBVIOUS
  <2> QED
    BY <2>1 DEF Completed, Role
<1>3. Dates(role) = SubSeq(role.start, 1, Len(role.start) - 1)
  BY <1>2 DEF Dates, Front
<1>4. Len(Dates(role)) # 2
  BY <1>1, <1>3
<1> QED
  BY <1>4 DEF Duration

-------------------------------------------------------------------------------
(* What a score was calculated from *)

\* The API's engine is built from shares only.
EngineInv == stage = "engine" /\ entry = "api" => InRange(weights)

\* A scorecard is the one of the answers and blocks that are kept.
CardInv ==
  scorecard # Null =>
    /\ stage \notin {"begun", "engine"}
    /\ answers \in Answers /\ blocks \in Blocks
    /\ Scores(weights, Scored(answers, blocks))
    /\ scorecard = Scorecard(weights, Scored(answers, blocks))
    /\ entry = "api" => InRange(weights)

CInv == EngineInv /\ CardInv

\* No step scores anything else, or touches what was scored.
LEMMA CInvStep == CInv /\ [Next]_vars => CInv'
<1> SUFFICES ASSUME CInv, [Next]_vars
             PROVE  CInv'
  OBVIOUS
<1> USE DEF CInv, Goto
<1>1. CASE BuildEngine \/ RefuseWeights
  BY <1>1 DEF BuildEngine, RefuseWeights, Accepted, EngineInv, CardInv, InRange
<1>2. CASE Calculate
  <2>1. PICK a \in Answers, b \in Blocks :
          /\ Scores(weights, Scored(a, b))
          /\ answers' = a /\ blocks' = b
          /\ scorecard' = Scorecard(weights, Scored(a, b))
    BY <1>2 DEF Calculate
  <2>2. stage = "engine" /\ stage' = "scored" /\ UNCHANGED <<entry, weights>>
    BY <1>2 DEF Calculate
  <2>3. entry = "api" => InRange(weights)
    BY <2>2 DEF EngineInv
  <2> QED
    BY <2>1, <2>2, <2>3 DEF EngineInv, CardInv, InRange
<1>3. CASE CalculateRaises
  BY <1>3 DEF CalculateRaises, EngineInv, CardInv
<1>4. CASE Ingest \/ Resolve \/ ResolveRaises \/ Judge \/ JudgeRaises
  BY <1>4 DEF Ingest, Resolve, ResolveRaises, Judge, JudgeRaises, EngineInv, CardInv, InRange
<1>5. CASE UNCHANGED vars
  BY <1>5 DEF vars, EngineInv, CardInv, InRange
<1> QED
  BY <1>1, <1>2, <1>3, <1>4, <1>5 DEF Next, Ended

\* So it is in every state.
LEMMA CInvAlways == Spec => []CInv
<1>1. Init => CInv
  BY DEF Init, CInv, EngineInv, CardInv
<1> QED
  BY <1>1, CInvStep, PTL DEF Spec

\* The card of a run, and what is known of the weights it was calculated with.
LEMMA CardFacts ==
  ASSUME CInv, scorecard # Null
  PROVE  /\ answers \in Answer /\ blocks \in Seq(Block)
         /\ Scored(answers, blocks) \in Answer
         /\ scorecard = Scorecard(weights, Scored(answers, blocks))
         /\ entry = "api" => InRange(weights)
         /\ InRange(weights) => Weighed(weights, Scored(answers, blocks))
<1>1. answers \in Answer /\ blocks \in Seq(Block)
  BY AnswersAssumption, BlocksAssumption DEF CInv, CardInv, Answer
<1>2. Scored(answers, blocks) \in Answer
  BY <1>1, ScoredType
<1>3. ~ CannotScore(weights, Scored(answers, blocks))
  BY DEF CInv, CardInv, Scores
<1> QED
  BY <1>1, <1>2, <1>3, ScorableIsWeighed DEF CInv, CardInv

\* The smallest and the largest of two.
LEMMA ExtremesOfTwo ==
  ASSUME NEW a \in Int, NEW b \in Int
  PROVE  /\ a <= b => Min({a} \cup {b}) = a /\ Max({a} \cup {b}) = b
         /\ b <= a => Min({a} \cup {b}) = b /\ Max({a} \cup {b}) = a
<1> DEFINE S == {a} \cup {b}
<1>1. \E x \in S : \A y \in S : x <= y
  OBVIOUS
<1>2. \E x \in S : \A y \in S : x >= y
  OBVIOUS
<1>3. PICK m : m = Min(S)
  OBVIOUS
<1>4. m \in S /\ \A y \in S : m <= y
  BY <1>1, <1>3 DEF Min
<1>5. PICK n : n = Max(S)
  OBVIOUS
<1>6. n \in S /\ \A y \in S : n >= y
  BY <1>2, <1>5 DEF Max
<1>7. /\ a <= b => m = a /\ n = b
      /\ b <= a => m = b /\ n = a
  BY <1>4, <1>6
<1> QED
  BY <1>3, <1>5, <1>7

\* The same, if there is only one.
LEMMA ExtremesOfOne ==
  ASSUME NEW a \in Int
  PROVE  Min({a} \cup {}) = a /\ Max({a} \cup {}) = a
<1>1. {a} \cup {} = {a} \cup {a}
  OBVIOUS
<1> QED
  BY <1>1, ExtremesOfTwo

\* The final score of RelevanceScoringEngine lies between those of the pillars
\* that apply, if the weights are shares, as _scoring_engine makes them.
THEOREM ScoresLieBetween == Spec => []ScoreLiesBetweenPillars
<1>1. CInv => ScoreLiesBetweenPillars
  <2> SUFFICES ASSUME CInv, scorecard # Null, InRange(weights)
               PROVE  LET scores == {scorecard.pillarA} \cup
                            (IF answers.target = Null THEN {} ELSE {scorecard.pillarB})
                      IN  /\ Min(scores) <= scorecard.finalRelevance
                          /\ scorecard.finalRelevance <= Max(scores)
    BY CardFacts DEF ScoreLiesBetweenPillars
  <2> DEFINE a == Scored(answers, blocks)
             A == PillarA(a)
             B == PillarB(a)
             F == FinalRelevance(weights, a)
  <2>1. scorecard.pillarA = A /\ scorecard.pillarB = B /\ scorecard.finalRelevance = F
    BY CardFacts DEF Scorecard
  <2>2. a.target = answers.target
    BY CardFacts, ScoredType
  <2>3. /\ F \in Int /\ A \in Int /\ B \in Int
        /\ answers.target = Null => F = A
        /\ answers.target # Null => (A <= F /\ F <= B) \/ (B <= F /\ F <= A)
    BY <2>2, CardFacts, FinalBetween
  <2> HIDE DEF a, A, B, F
  <2>4. CASE answers.target = Null
    <3>1. Min({A} \cup {}) = A /\ Max({A} \cup {}) = A
      BY <2>3, ExtremesOfOne
    <3>2. F = A /\ A <= A
      BY <2>3, <2>4
    <3> QED
      BY <2>1, <2>4, <3>1, <3>2
  <2>5. CASE answers.target # Null
    <3>1. /\ A <= B => Min({A} \cup {B}) = A /\ Max({A} \cup {B}) = B
          /\ B <= A => Min({A} \cup {B}) = B /\ Max({A} \cup {B}) = A
      BY <2>3, ExtremesOfTwo
    <3>2. Min({A} \cup {B}) <= F /\ F <= Max({A} \cup {B})
      BY <2>3, <2>5, <3>1
    <3> QED
      BY <2>1, <2>5, <3>2
  <2> QED
    BY <2>4, <2>5
<1> QED
  BY <1>1, CInvAlways, PTL

\* An answer with other roles.
LEMMA OtherRoles ==
  ASSUME NEW a \in Answer, NEW roles \in Seq(Role)
  PROVE  /\ [a EXCEPT !.roles = roles] \in Answer
         /\ [a EXCEPT !.roles = roles].roles = roles
         /\ [a EXCEPT !.roles = roles].skills = a.skills
         /\ [a EXCEPT !.roles = roles].target = a.target
BY DEF Answer

\* Where the relevant roles of two answers are the same, apart from their
\* number and order, so are the cards.
LEMMA SameRolesSameCard ==
  ASSUME NEW w, NEW a \in Answer, NEW b \in Answer,
         a.skills = b.skills, a.target = b.target,
         \A i \in DOMAIN a.roles : a.roles[i].relevant =>
           \E j \in DOMAIN b.roles : b.roles[j] = a.roles[i],
         \A j \in DOMAIN b.roles : b.roles[j].relevant =>
           \E i \in DOMAIN a.roles : a.roles[i] = b.roles[j]
  PROVE  Scorecard(w, a) = Scorecard(w, b)
<1>1. a.roles \in Seq(Role) /\ b.roles \in Seq(Role)
  BY DEF Answer
<1>2. /\ \A i \in DOMAIN a.roles : a.roles[i].relevant =>
           \E j \in DOMAIN b.roles :
             b.roles[j].relevant /\ DedupKey(b.roles[j]) = DedupKey(a.roles[i])
      /\ \A j \in DOMAIN b.roles : b.roles[j].relevant =>
           \E i \in DOMAIN a.roles :
             a.roles[i].relevant /\ DedupKey(a.roles[i]) = DedupKey(b.roles[j])
  OBVIOUS
<1>3. CareerYears(a.roles) = CareerYears(b.roles)
  <2>1. CareerYears(a.roles) <= CareerYears(b.roles) /\ CareerYears(b.roles) <= CareerYears(a.roles)
    BY <1>1, <1>2, YearsGrow
  <2>2. CareerYears(a.roles) \in Nat /\ CareerYears(b.roles) \in Nat
    BY <1>1, CountedType, SumNat DEF CareerYears, Durations
  <2> QED
    BY <2>1, <2>2
<1>4. Cardinality(Counted(a.roles)) = Cardinality(Counted(b.roles))
  <2>1. /\ Cardinality(Counted(a.roles)) <= Cardinality(Counted(b.roles))
        /\ Cardinality(Counted(b.roles)) <= Cardinality(Counted(a.roles))
    BY <1>1, <1>2, CountGrows
  <2>2. Cardinality(Counted(a.roles)) \in Nat /\ Cardinality(Counted(b.roles)) \in Nat
    BY <1>1, CountedType, FS_CardinalityType
  <2> QED
    BY <2>1, <2>2
<1> QED
  BY <1>3, <1>4
     DEF Scorecard, FinalRelevance, PillarA, PillarB, ScaledExperience, ActiveWeight, Applicable

\* A role added at either end is the only new one.
LEMMA AddedRole ==
  ASSUME NEW roles \in Seq(Role), NEW copy \in Role,
         NEW more \in {Append(roles, copy), <<copy>> \o roles}
  PROVE  /\ more \in Seq(Role)
         /\ \A i \in DOMAIN roles : \E j \in DOMAIN more : more[j] = roles[i]
         /\ \A j \in DOMAIN more : more[j] = copy \/ \E i \in DOMAIN roles : roles[i] = more[j]
<1>1. CASE more = Append(roles, copy)
  BY <1>1
<1>2. CASE more = <<copy>> \o roles
  <2>1. /\ more \in Seq(Role) /\ Len(more) = Len(roles) + 1
        /\ \A j \in 1 .. Len(roles) + 1 : more[j] = IF j = 1 THEN copy ELSE roles[j - 1]
    BY <1>2
  <2>2. ASSUME NEW i \in DOMAIN roles PROVE i + 1 \in DOMAIN more /\ more[i + 1] = roles[i]
    BY <2>1
  <2>3. ASSUME NEW j \in DOMAIN more, j # 1 PROVE j - 1 \in DOMAIN roles /\ roles[j - 1] = more[j]
    BY <2>1, <2>3
  <2>4. ASSUME NEW i \in DOMAIN roles PROVE \E j \in DOMAIN more : more[j] = roles[i]
    BY <2>2
  <2>5. ASSUME NEW j \in DOMAIN more
        PROVE  more[j] = copy \/ \E i \in DOMAIN roles : roles[i] = more[j]
    <3>1. CASE j = 1
      BY <2>1, <3>1
    <3>2. CASE j # 1
      BY <2>3, <3>2
    <3> QED
      BY <3>1, <3>2
  <2> QED
    BY <2>1, <2>4, <2>5
<1> QED
  BY <1>1, <1>2

\* calculate_scorecard gives the same card if the model lists a role again,
\* first or last, as relevant as it is or not relevant, whatever the roles and
\* the CV's blocks are.
THEOREM RepetitionsCountOnce == Spec => []RepeatedRolesCountOnce
<1>1. CInv => RepeatedRolesCountOnce
  <2> SUFFICES ASSUME CInv, scorecard # Null, NEW i \in DOMAIN answers.roles,
                      NEW relevant \in BOOLEAN,
                      NEW copy, copy = [answers.roles[i] EXCEPT !.relevant = @ /\ relevant],
                      NEW roles \in {Append(answers.roles, copy), <<copy>> \o answers.roles}
               PROVE  Scorecard(weights, Scored([answers EXCEPT !.roles = roles], blocks))
                      = scorecard
    BY DEF RepeatedRolesCountOnce
  <2> DEFINE more == [answers EXCEPT !.roles = roles]
             q == Backfilled(answers.roles, blocks)
             r == Backfilled(roles, blocks)
  <2>1. answers \in Answer /\ blocks \in Seq(Block) /\ answers.roles \in Seq(Role)
    BY CardFacts DEF Answer
  <2>2. /\ copy \in Role
        /\ copy.relevant => copy = answers.roles[i]
    <3>1. answers.roles[i] \in Role
      BY <2>1
    <3> QED
      BY <3>1 DEF Role
  <2>3. /\ roles \in Seq(Role)
        /\ \A j \in DOMAIN answers.roles : \E k \in DOMAIN roles : roles[k] = answers.roles[j]
        /\ \A k \in DOMAIN roles :
             roles[k] = copy \/ \E j \in DOMAIN answers.roles : answers.roles[j] = roles[k]
    <3> DEFINE listed == answers.roles
    <3>1. listed \in Seq(Role) /\ copy \in Role /\ roles \in {Append(listed, copy), <<copy>> \o listed}
      BY <2>1, <2>2
    <3> HIDE DEF listed
    <3>2. /\ roles \in Seq(Role)
          /\ \A j \in DOMAIN listed : \E k \in DOMAIN roles : roles[k] = listed[j]
          /\ \A k \in DOMAIN roles : roles[k] = copy \/ \E j \in DOMAIN listed : listed[j] = roles[k]
      BY ONLY <3>1, AddedRole
    <3> QED
      BY <3>2 DEF listed
  <2>4. /\ more \in Answer /\ more.roles = roles
        /\ more.skills = answers.skills /\ more.target = answers.target
    BY <2>1, <2>3, OtherRoles
  <2>5. q \in Seq(Role) /\ r \in Seq(Role)
        /\ DOMAIN q = DOMAIN answers.roles /\ DOMAIN r = DOMAIN roles
    BY <2>1, <2>3, BackfilledType
  <2>6. ASSUME NEW j \in DOMAIN q PROVE \E k \in DOMAIN r : r[k] = q[j]
    <3>1. PICK k \in DOMAIN roles : roles[k] = answers.roles[j]
      BY <2>3, <2>5
    <3> QED
      BY <2>5, <3>1, BackfilledAlike
  <2>7. ASSUME NEW k \in DOMAIN r, r[k].relevant PROVE \E j \in DOMAIN q : q[j] = r[k]
    <3>1. k \in DOMAIN roles
      BY <2>5
    <3>2. roles[k].relevant
      <4>1. CASE r[k] = roles[k]
        BY <2>7, <4>1
      <4>2. ASSUME NEW b \in DOMAIN blocks, r[k] = Completed(roles[k], blocks[b])
            PROVE  roles[k].relevant
        <5>1. roles[k] \in Role /\ blocks[b] \in Block
          BY <2>1, <2>3, <3>1
        <5> QED
          BY <2>7, <4>2, <5>1 DEF Completed, Role
      <4> QED
        BY <2>1, <2>3, <3>1, <4>1, <4>2, BackfilledRole
    <3>3. PICK j \in DOMAIN answers.roles : answers.roles[j] = roles[k]
      BY <2>2, <2>3, <3>1, <3>2
    <3> QED
      BY <2>5, <3>1, <3>3, BackfilledAlike
  <2> HIDE DEF more, q, r
  <2>8. /\ Scored(answers, blocks) \in Answer /\ Scored(more, blocks) \in Answer
        /\ Scored(answers, blocks).roles = q /\ Scored(more, blocks).roles = r
        /\ Scored(answers, blocks).skills = Scored(more, blocks).skills
        /\ Scored(answers, blocks).target = Scored(more, blocks).target
    BY <2>1, <2>4, ScoredType DEF q, r
  <2>9. Scorecard(weights, Scored(more, blocks)) = Scorecard(weights, Scored(answers, blocks))
    BY <2>6, <2>7, <2>8, SameRolesSameCard
  <2> QED
    BY <2>9, CardFacts DEF more
<1> QED
  BY <1>1, CInvAlways, PTL

\* A sequence without one of its entries holds no other entries.
LEMMA RemovedFrom ==
  ASSUME NEW S, NEW s \in Seq(S), NEW i \in DOMAIN s
  PROVE  /\ RemoveAt(s, i) \in Seq(S)
         /\ \A k \in DOMAIN RemoveAt(s, i) : \E j \in DOMAIN s : RemoveAt(s, i)[k] = s[j]
<1> DEFINE front == SubSeq(s, 1, i - 1)
           back == SubSeq(s, i + 1, Len(s))
<1>1. i \in 1 .. Len(s) /\ Len(s) \in Nat
  OBVIOUS
<1>2. /\ front \in Seq(S) /\ Len(front) = i - 1
      /\ \A k \in 1 .. i - 1 : front[k] = s[k]
  BY <1>1
<1>3. /\ back \in Seq(S) /\ Len(back) = Len(s) - i
      /\ \A k \in 1 .. Len(s) - i : back[k] = s[i + k]
  BY <1>1
<1> HIDE DEF front, back
<1>4. RemoveAt(s, i) = front \o back
  BY DEF RemoveAt, front, back
<1>5. ASSUME NEW k \in DOMAIN RemoveAt(s, i)
      PROVE  \E j \in DOMAIN s : RemoveAt(s, i)[k] = s[j]
  <2>1. k \in 1 .. Len(s) - 1
    BY <1>1, <1>2, <1>3, <1>4
  <2>2. CASE k <= i - 1
    <3>1. RemoveAt(s, i)[k] = s[k] /\ k \in DOMAIN s
      BY <1>1, <1>2, <1>3, <1>4, <2>1, <2>2
    <3> QED
      BY <3>1
  <2>3. CASE k > i - 1
    <3>1. (front \o back)[k] = back[k - (i - 1)]
      BY <1>1, <1>2, <1>3, <2>1, <2>3
    <3>2. k - (i - 1) \in 1 .. Len(s) - i /\ i + (k - (i - 1)) = k + 1
      BY <1>1, <2>1, <2>3
    <3>3. back[k - (i - 1)] = s[k + 1]
      BY <1>3, <3>2
    <3>4. k + 1 \in DOMAIN s
      BY <1>1, <2>1
    <3> QED
      BY <1>4, <3>1, <3>3, <3>4
  <2> QED
    BY <1>1, <2>1, <2>2, <2>3
<1> QED
  BY <1>2, <1>3, <1>4, <1>5

\* The weights of an answer depend on whether it has a target.
LEMMA SameTargetSameWeights ==
  ASSUME NEW w, NEW a, NEW b, a.target = b.target, Weighed(w, a)
  PROVE  Weighed(w, b)
BY DEF Weighed, ActiveWeight, Applicable

\* calculate_scorecard never gives a higher score for an answer that lacks one
\* of the roles.
THEOREM RolesCostNothing == Spec => []RolesNeverCostPoints
<1>1. CInv => RolesNeverCostPoints
  <2> SUFFICES ASSUME CInv, scorecard # Null, InRange(weights), NEW i \in DOMAIN answers.roles
               PROVE  FinalRelevance(weights,
                        Scored([answers EXCEPT !.roles = RemoveAt(@, i)], blocks))
                      <= scorecard.finalRelevance
    BY DEF RolesNeverCostPoints
  <2> DEFINE fewer == RemoveAt(answers.roles, i)
             less == [answers EXCEPT !.roles = fewer]
             q == Backfilled(fewer, blocks)
             r == Backfilled(answers.roles, blocks)
  <2>1. answers \in Answer /\ blocks \in Seq(Block) /\ answers.roles \in Seq(Role)
    BY CardFacts DEF Answer
  <2>2. /\ fewer \in Seq(Role)
        /\ \A k \in DOMAIN fewer : \E j \in DOMAIN answers.roles : fewer[k] = answers.roles[j]
    BY <2>1, RemovedFrom
  <2> HIDE DEF fewer
  <2>3. less \in Answer /\ less.roles = fewer
        /\ less.skills = answers.skills /\ less.target = answers.target
    BY <2>1, <2>2, OtherRoles
  <2>4. less = [answers EXCEPT !.roles = RemoveAt(@, i)]
    BY DEF fewer
  <2> HIDE DEF less
  <2>5. q \in Seq(Role) /\ r \in Seq(Role)
        /\ DOMAIN q = DOMAIN fewer /\ DOMAIN r = DOMAIN answers.roles
    BY <2>1, <2>2, BackfilledType
  <2>6. ASSUME NEW k \in DOMAIN q PROVE \E j \in DOMAIN r : r[j] = q[k]
    <3>1. PICK j \in DOMAIN answers.roles : fewer[k] = answers.roles[j]
      BY <2>2, <2>5
    <3>2. q[k] = r[j]
      BY <2>5, <3>1, BackfilledAlike
    <3> QED
      BY <2>5, <3>2
  <2> HIDE DEF q, r
  <2>7. CareerYears(q) <= CareerYears(r)
    BY <2>5, <2>6, YearsGrow
  <2>8. /\ Scored(less, blocks) \in Answer /\ Scored(answers, blocks) \in Answer
        /\ Scored(less, blocks).roles = q /\ Scored(answers, blocks).roles = r
        /\ Scored(less, blocks).skills = Scored(answers, blocks).skills
        /\ Scored(less, blocks).target = Scored(answers, blocks).target
    BY <2>1, <2>3, ScoredType DEF q, r
  <2>9. Weighed(weights, Scored(less, blocks))
    BY <2>8, CardFacts, SameTargetSameWeights
  <2>10. FinalRelevance(weights, Scored(less, blocks))
           <= FinalRelevance(weights, Scored(answers, blocks))
    BY <2>7, <2>8, <2>9, FinalGrows
  <2>11. scorecard.finalRelevance = FinalRelevance(weights, Scored(answers, blocks))
    BY CardFacts DEF Scorecard
  <2> QED
    BY <2>4, <2>10, <2>11
<1> QED
  BY <1>1, CInvAlways, PTL

\* _backfill_overall_experience_dates lowers a score only where it gives an end to a
\* role whose start holds a whole range.
THEOREM BackfillCosts == Spec => []BackfillCostsOnlyRanges
<1>1. CInv => BackfillCostsOnlyRanges
  <2> DEFINE q == answers.roles
             r == Backfilled(q, blocks)
  <2> SUFFICES ASSUME CInv, scorecard # Null, InRange(weights),
                      \A i \in DOMAIN q : Len(q[i].start) = 3 => r[i] = q[i]
               PROVE  FinalRelevance(weights, answers) <= scorecard.finalRelevance
    BY DEF BackfillCostsOnlyRanges
  <2>1. answers \in Answer /\ blocks \in Seq(Block) /\ q \in Seq(Role)
    BY CardFacts DEF Answer
  <2>2. r \in Seq(Role) /\ DOMAIN r = DOMAIN q
    BY <2>1, BackfilledType
  <2>3. ASSUME NEW i \in DOMAIN q, Duration(q[i]) # 0 PROVE r[i] = q[i]
    <3> SUFFICES ASSUME r[i] # q[i] PROVE FALSE
      OBVIOUS
    <3>1. PICK k \in DOMAIN blocks : r[i] = Completed(q[i], blocks[k])
      BY <2>1, BackfilledRole
    <3>2. q[i] \in Role /\ blocks[k] \in Block
      BY <2>1
    <3> QED
      BY <2>3, <3>1, <3>2, CompletedHadNoYears
  <2> HIDE DEF q, r
  <2>4. CareerYears(q) <= CareerYears(r)
    BY <2>1, <2>2, <2>3, YearsGrow
  <2>5. /\ Scored(answers, blocks) \in Answer
        /\ Scored(answers, blocks).roles = r
        /\ Scored(answers, blocks).skills = answers.skills
        /\ Scored(answers, blocks).target = answers.target
    BY <2>1, ScoredType DEF q, r
  <2>6. Weighed(weights, answers)
    BY <2>5, CardFacts, SameTargetSameWeights
  <2>7. FinalRelevance(weights, answers) <= FinalRelevance(weights, Scored(answers, blocks))
    BY <2>1, <2>4, <2>5, <2>6, FinalGrows DEF q
  <2> QED
    BY <2>7, CardFacts DEF Scorecard
<1> QED
  BY <1>1, CInvAlways, PTL

-------------------------------------------------------------------------------
(* What a result is judged by *)

\* The criteria were resolved from the task's and some defaults.
ResolvedInv ==
  stage \in {"resolved", "judged", "unjudged"} =>
    /\ entry = "api" => task = <<>>
    /\ \E d \in DefaultCriteria : criteria = ResolveCriteria(result, task, d)
    /\ ValidCriteria(criteria)

JudgedInv ==
  /\ stage = "judged" =>
       report = IF entry = "api" /\ DOMAIN criteria = {} THEN Null
                ELSE Evaluate(criteria, result)
  /\ stage = "unjudged" => CannotEvaluate(criteria, result)

JInv == ResolvedInv /\ JudgedInv

\* Nothing that was resolved changes before it is judged.
LEMMA JInvStep == JInv /\ [Next]_vars => JInv'
<1> SUFFICES ASSUME JInv, [Next]_vars
             PROVE  JInv'
  OBVIOUS
<1> USE DEF JInv, Goto
<1>1. CASE BuildEngine \/ RefuseWeights \/ Ingest \/ Calculate \/ CalculateRaises \/ ResolveRaises
  BY <1>1 DEF BuildEngine, RefuseWeights, Ingest, Calculate, CalculateRaises, ResolveRaises,
              ResolvedInv, JudgedInv
<1>2. CASE Resolve
  BY <1>2 DEF Resolve, StatedCriteria, ResolvedInv, JudgedInv
<1>3. CASE Judge
  BY <1>3 DEF Judge, ResolvedInv, JudgedInv
<1>4. CASE JudgeRaises
  BY <1>4 DEF JudgeRaises, ResolvedInv, JudgedInv
<1>5. CASE UNCHANGED vars
  BY <1>5 DEF vars, ResolvedInv, JudgedInv
<1> QED
  BY <1>1, <1>2, <1>3, <1>4, <1>5 DEF Next, Ended

\* What the task states is not inherited.
LEMMA StatedIsKept ==
  ASSUME NEW r, NEW t, NEW d, NEW name \in DOMAIN t
  PROVE  /\ name \in DOMAIN ResolveCriteria(r, t, d)
         /\ ResolveCriteria(r, t, d)[name] = t[name]
BY DEF ResolveCriteria, Inherited

\* What is inherited can be judged.
LEMMA InheritedIsAnswered ==
  ASSUME NEW r, NEW t, NEW d, NEW name \in DOMAIN ResolveCriteria(r, t, d) \ DOMAIN t,
         name \in Criteria
  PROVE  HasAttribute(r, name)
BY DEF ResolveCriteria, Inherited

\* resolve_criteria keeps what a task states, and adds nothing that evaluate
\* cannot answer.
THEOREM DefaultsYield == Spec => []DefaultsYieldToTheTask
<1>1. Init => JInv
  BY DEF Init, JInv, ResolvedInv, JudgedInv
<1>2. JInv => DefaultsYieldToTheTask
  <2> SUFFICES ASSUME JInv
               PROVE  DefaultsYieldToTheTask
    OBVIOUS
  <2>1. ASSUME stage = "judged", NEW name \in DOMAIN task
        PROVE  IF task[name] = Null THEN name \notin DOMAIN report.checks
               ELSE name \in DOMAIN report.checks /\ report.checks[name].expected = task[name]
    <3>1. PICK d \in DefaultCriteria : criteria = ResolveCriteria(result, task, d)
      BY <2>1 DEF JInv, ResolvedInv
    <3>2. name \in DOMAIN criteria /\ criteria[name] = task[name]
      BY <3>1, StatedIsKept
    <3>3. report = Evaluate(criteria, result)
      BY <2>1, <3>2 DEF JInv, JudgedInv
    <3>4. DOMAIN report.checks = Judged(criteria)
      BY <3>3 DEF Evaluate
    <3>5. ASSUME name \in Judged(criteria) PROVE report.checks[name].expected = criteria[name]
      BY <3>3, <3>5 DEF Evaluate, Check
    <3> QED
      BY <3>2, <3>4, <3>5 DEF Judged
  <2>2. ASSUME stage = "unjudged"
        PROVE  \E name \in DOMAIN task : task[name] # Null /\ ~HasAttribute(result, name)
    <3>1. PICK d \in DefaultCriteria : criteria = ResolveCriteria(result, task, d)
      BY <2>2 DEF JInv, ResolvedInv
    <3>2. PICK name \in DOMAIN criteria : criteria[name] # Null /\ ~HasAttribute(result, name)
      BY <2>2 DEF JInv, JudgedInv, CannotEvaluate, Judged
    <3>3. name \in Criteria
      BY <2>2 DEF JInv, ResolvedInv, ValidCriteria
    <3>4. name \in DOMAIN task
      BY <3>1, <3>2, <3>3, InheritedIsAnswered
    <3>5. criteria[name] = task[name]
      BY <3>1, <3>4, StatedIsKept
    <3> QED
      BY <3>2, <3>4, <3>5
  <2> QED
    BY <2>1, <2>2 DEF DefaultsYieldToTheTask
<1> QED
  BY <1>1, <1>2, JInvStep, PTL DEF Spec
===============================================================================
