---------------------------- MODULE SumTheorems ----------------------------
(***************************************************************************)
(* What SumFunctionOnSet(f, S) adds up, for every finite S: the balances,  *)
(* totals and pots of the other modules are such sums.  The library proves *)
(* that the strict subsets of a finite set are well founded; from this     *)
(* follow an induction on subsets, stated for a set of good ones, that the *)
(* recursive function behind the sum exists, and then the facts below.     *)
(***************************************************************************)
EXTENDS Integers, FiniteSets, Functions, FiniteSetTheorems, WellFoundedInduction, TLAPS

\* Induction over the subsets of a finite set, on a set G of good ones.
LEMMA SetInduction ==
    ASSUME NEW S, IsFiniteSet(S), NEW G,
           \A T \in SUBSET S : (\A x \in T : T \ {x} \in G) => T \in G
    PROVE  \A T \in SUBSET S : T \in G
<1> DEFINE Bad == {T \in SUBSET S : T \notin G}
<1>1. SUFFICES ASSUME Bad # {} PROVE FALSE
  OBVIOUS
<1>2. Bad \subseteq FiniteSubsetsOf(S)
  BY FS_Subset, Zenon DEF FiniteSubsetsOf
<1>3. IsWellFoundedOn(StrictSubsetOrdering(S), FiniteSubsetsOf(S))
  BY FS_StrictSubsetOrderingWellFounded, Zenon
<1>4. PICK T \in Bad : \A U \in Bad : ~ (<<U, T>> \in StrictSubsetOrdering(S))
  <2> HIDE DEF Bad
  <2> QED BY <1>1, <1>2, <1>3, WFMin, Zenon
<1>5. PICK x \in T : T \ {x} \notin G
  OBVIOUS
<1>6. T \ {x} \in Bad /\ T \ {x} \subseteq T /\ T \ {x} # T
  BY <1>5
<1>7. <<T \ {x}, T>> \in StrictSubsetOrdering(S)
  BY <1>6 DEF StrictSubsetOrdering
<1> QED BY <1>4, <1>6, <1>7

\* One step of the recursion behind SumFunctionOnSet.
Term(f, g, s) ==
    IF s = {} THEN 0 ELSE f[CHOOSE x \in s : TRUE] + g[s \ {CHOOSE x \in s : TRUE}]

Summing(f, g, S) == g = [s \in SUBSET S |-> Term(f, g, s)]

\* The recursion has a solution: it is solved for ever larger subsets.
LEMMA SummingExists ==
    ASSUME NEW S, IsFiniteSet(S), NEW f, \A x \in S : f[x] \in Int
    PROVE  \E g \in [SUBSET S -> Int] : Summing(f, g, S)
<1> DEFINE Upto(g, n) == \A s \in SUBSET S : Cardinality(s) <= n => g[s] = Term(f, g, s)
           G == {T \in SUBSET S : \E g \in [SUBSET S -> Int] : Upto(g, Cardinality(T))}
<1>0. \A s \in SUBSET S : IsFiniteSet(s) /\ Cardinality(s) \in Nat
  BY FS_Subset, FS_CardinalityType
<1>1. ASSUME NEW T \in SUBSET S, \A x \in T : T \ {x} \in G
      PROVE  T \in G
  <2>1. CASE T = {}
    <3> DEFINE g == [s \in SUBSET S |-> 0]
    <3>1. Upto(g, Cardinality(T))
      BY <2>1, <1>0, FS_EmptySet DEF Term
    <3>2. g \in [SUBSET S -> Int]
      OBVIOUS
    <3> HIDE DEF g
    <3> QED BY <3>1, <3>2
  <2>2. CASE T # {}
    <3> DEFINE n == Cardinality(T)
    <3>1. PICK x \in T : TRUE
      BY <2>2
    <3>2. n \in Nat /\ Cardinality(T \ {x}) = n - 1
      BY <3>1, <1>0, FS_RemoveElement
    <3>3. PICK g \in [SUBSET S -> Int] : Upto(g, n - 1)
      BY <3>1, <3>2, <1>1
    <3> DEFINE h == [s \in SUBSET S |-> Term(f, g, s)]
    <3>4. h \in [SUBSET S -> Int]
      BY DEF Term
    <3>5. ASSUME NEW s \in SUBSET S, Cardinality(s) <= n
          PROVE  h[s] = Term(f, h, s)
      <4>1. CASE s = {}
        BY <4>1 DEF Term
      <4>2. CASE s # {}
        <5> DEFINE c == CHOOSE y \in s : TRUE
        <5>1. c \in s
          BY <4>2
        <5>2. s \ {c} \in SUBSET S /\ Cardinality(s \ {c}) = Cardinality(s) - 1
          BY <5>1, <1>0, FS_RemoveElement
        <5>3. Cardinality(s) \in Nat /\ Cardinality(s \ {c}) <= n - 1
          BY <5>2, <3>5, <3>2, <1>0
        <5>4. g[s \ {c}] = h[s \ {c}]
          BY <5>2, <5>3, <3>3
        <5> QED BY <5>4, <4>2, <5>2 DEF Term
      <4> QED BY <4>1, <4>2
    <3> QED BY <3>4, <3>5
  <2> QED BY <2>1, <2>2
<1>2. \A T \in SUBSET S : T \in G
  <2> HIDE DEF G
  <2> QED BY <1>1, SetInduction
<1>3. PICK g \in [SUBSET S -> Int] : Upto(g, Cardinality(S))
  BY <1>2
<1>4. \A s \in SUBSET S : Cardinality(s) <= Cardinality(S)
  BY FS_Subset
<1> QED BY <1>3, <1>4 DEF Summing

\* Its solutions agree, those over a subset included.
LEMMA SummingUnique ==
    ASSUME NEW S, IsFiniteSet(S), NEW T \in SUBSET S, NEW f, NEW g, NEW h,
           Summing(f, g, S), Summing(f, h, T)
    PROVE  g[T] = h[T]
<1> DEFINE G == {U \in SUBSET T : g[U] = h[U]}
<1>1. ASSUME NEW U \in SUBSET T, \A x \in U : U \ {x} \in G PROVE U \in G
  <2>1. CASE U = {}
    BY <2>1 DEF Summing, Term
  <2>2. CASE U # {}
    <3> DEFINE c == CHOOSE x \in U : TRUE
    <3>1. c \in U
      BY <2>2
    <3>2. U \in SUBSET S /\ U \in SUBSET T
      OBVIOUS
    <3>3. g[U] = f[c] + g[U \ {c}]
      BY <2>2, <3>2 DEF Summing, Term
    <3>4. h[U] = f[c] + h[U \ {c}]
      BY <2>2, <3>2 DEF Summing, Term
    <3>5. g[U \ {c}] = h[U \ {c}]
      BY <3>1, <1>1
    <3> QED BY <3>3, <3>4, <3>5
  <2> QED BY <2>1, <2>2
<1>2. IsFiniteSet(T)
  BY FS_Subset
<1>3. \A U \in SUBSET T : U \in G
  <2> HIDE DEF G
  <2> QED BY <1>1, <1>2, SetInduction
<1> QED BY <1>3

\* SumFunctionOnSet, a CHOOSE, is such a solution.
LEMMA SumIsSumming ==
    ASSUME NEW S, IsFiniteSet(S), NEW f, \A x \in S : f[x] \in Int
    PROVE  \E g \in [SUBSET S -> Int] : Summing(f, g, S) /\ SumFunctionOnSet(f, S) = g[S]
<1> DEFINE iter == CHOOSE g : g = [s \in SUBSET S |-> Term(f, g, s)]
<1>1. PICK g \in [SUBSET S -> Int] : Summing(f, g, S)
  BY SummingExists
<1>2. Summing(f, iter, S)
  BY <1>1 DEF Summing
<1>3. SumFunctionOnSet(f, S) = iter[S]
  BY DEF SumFunctionOnSet, FoldFunctionOnSet, MapThenFoldSet, Term
<1>4. iter[S] = g[S]
  <2> HIDE DEF iter
  <2> QED BY <1>1, <1>2, SummingUnique
<1> QED BY <1>1, <1>3, <1>4

\* The recursion of a whole set sums its subsets.
PartSums(f, g, S) ==
    /\ g \in [SUBSET S -> Int] /\ Summing(f, g, S)
    /\ \A T \in SUBSET S : SumFunctionOnSet(f, T) = g[T]

\* One solution over a whole set gives the sum of each subset.
LEMMA SumByParts ==
    ASSUME NEW S, IsFiniteSet(S), NEW f, \A x \in S : f[x] \in Int
    PROVE  \E g : PartSums(f, g, S)
<1>1. PICK g \in [SUBSET S -> Int] : Summing(f, g, S)
  BY SummingExists
<1>2. ASSUME NEW T \in SUBSET S PROVE SumFunctionOnSet(f, T) = g[T]
  <2>1. IsFiniteSet(T) /\ \A x \in T : f[x] \in Int
    BY FS_Subset
  <2>2. PICK h \in [SUBSET T -> Int] : Summing(f, h, T) /\ SumFunctionOnSet(f, T) = h[T]
    BY <2>1, SumIsSumming
  <2> QED BY <2>2, <1>1, SummingUnique
<1> QED BY <1>1, <1>2 DEF PartSums

\* A sum of integers is one.
LEMMA SumInt ==
    ASSUME NEW S, IsFiniteSet(S), NEW f, \A x \in S : f[x] \in Int
    PROVE  SumFunctionOnSet(f, S) \in Int
<1>1. PICK g \in [SUBSET S -> Int] : Summing(f, g, S) /\ SumFunctionOnSet(f, S) = g[S]
  BY SumIsSumming, Zenon
<1>2. g[S] \in Int
  OBVIOUS
<1> QED BY <1>1, <1>2

\* Nothing adds up to zero.
LEMMA SumEmpty ==
    ASSUME NEW f
    PROVE  SumFunctionOnSet(f, {}) = 0
<1>1. PICK g \in [SUBSET {} -> Int] : Summing(f, g, {}) /\ SumFunctionOnSet(f, {}) = g[{}]
  BY FS_EmptySet, SumIsSumming
<1> QED BY <1>1 DEF Summing, Term

\* Whatever element the recursion picks, any other may be taken out first.
LEMMA SumRemove ==
    ASSUME NEW S, IsFiniteSet(S), NEW f, \A x \in S : f[x] \in Int, NEW x \in S
    PROVE  SumFunctionOnSet(f, S) = f[x] + SumFunctionOnSet(f, S \ {x})
<1>0. PICK g : PartSums(f, g, S)
  BY SumByParts, Zenon
<1>1. /\ g \in [SUBSET S -> Int] /\ Summing(f, g, S)
      /\ \A T \in SUBSET S : SumFunctionOnSet(f, T) = g[T]
  BY <1>0 DEF PartSums
<1> DEFINE G == {T \in SUBSET S : \A y \in T : g[T] = f[y] + g[T \ {y}]}
<1>2. ASSUME NEW T \in SUBSET S, \A y \in T : T \ {y} \in G PROVE T \in G
  <2> SUFFICES ASSUME NEW y \in T PROVE g[T] = f[y] + g[T \ {y}]
    OBVIOUS
  <2> DEFINE c == CHOOSE z \in T : TRUE
  <2>1. c \in T /\ g[T] = f[c] + g[T \ {c}]
    BY <1>1 DEF Summing, Term
  <2> HIDE DEF c
  <2>2. CASE c # y
    <3>1. g[T \ {c}] = f[y] + g[(T \ {c}) \ {y}]
      BY <2>1, <2>2, <1>2
    <3>2. g[T \ {y}] = f[c] + g[(T \ {y}) \ {c}]
      BY <2>1, <2>2, <1>2
    <3>3. (T \ {y}) \ {c} = (T \ {c}) \ {y}
      OBVIOUS
    <3>4. g[(T \ {c}) \ {y}] \in Int /\ f[c] \in Int /\ f[y] \in Int
      <4>1. (T \ {c}) \ {y} \in SUBSET S /\ c \in S /\ y \in S
        BY <2>1
      <4> QED BY <4>1, <1>1
    <3>5. g[T] = f[c] + (f[y] + g[(T \ {c}) \ {y}]) /\ g[T \ {y}] = f[c] + g[(T \ {c}) \ {y}]
      BY <3>1, <3>2, <3>3, <2>1, Zenon
    <3> QED BY ONLY <3>4, <3>5
  <2> QED BY <2>1, <2>2
<1>3. \A T \in SUBSET S : T \in G
  <2> HIDE DEF G
  <2> QED BY <1>2, SetInduction
<1> QED BY <1>1, <1>3

\* A new element adds its value.
LEMMA SumAdd ==
    ASSUME NEW S, IsFiniteSet(S), NEW f, NEW x, x \notin S,
           \A y \in S \union {x} : f[y] \in Int
    PROVE  SumFunctionOnSet(f, S \union {x}) = SumFunctionOnSet(f, S) + f[x]
<1>1. IsFiniteSet(S \union {x}) /\ (S \union {x}) \ {x} = S
  BY FS_AddElement
<1> QED BY <1>1, SumRemove, SumInt

\* A sum depends on nothing but the values of its elements.
LEMMA SumSame ==
    ASSUME NEW S, IsFiniteSet(S), NEW f, NEW g,
           \A x \in S : f[x] \in Int /\ g[x] = f[x]
    PROVE  SumFunctionOnSet(f, S) = SumFunctionOnSet(g, S)
<1> DEFINE G == {T \in SUBSET S : SumFunctionOnSet(f, T) = SumFunctionOnSet(g, T)}
<1>1. ASSUME NEW T \in SUBSET S, \A x \in T : T \ {x} \in G PROVE T \in G
  <2>1. CASE T = {}
    BY <2>1, SumEmpty
  <2>2. ASSUME NEW x \in T PROVE T \in G
    <3>1. IsFiniteSet(T)
      BY FS_Subset
    <3>2. /\ SumFunctionOnSet(f, T) = f[x] + SumFunctionOnSet(f, T \ {x})
          /\ SumFunctionOnSet(g, T) = g[x] + SumFunctionOnSet(g, T \ {x})
      BY <3>1, SumRemove
    <3> QED BY <3>2, <1>1
  <2> QED BY <2>1, <2>2
<1>2. \A T \in SUBSET S : T \in G
  <2> HIDE DEF G
  <2> QED BY <1>1, SetInduction
<1> QED BY <1>2

\* A sum of naturals is one.
LEMMA SumNat ==
    ASSUME NEW S, IsFiniteSet(S), NEW f, \A x \in S : f[x] \in Nat
    PROVE  SumFunctionOnSet(f, S) \in Nat
<1> DEFINE G == {T \in SUBSET S : SumFunctionOnSet(f, T) \in Nat}
<1>1. ASSUME NEW T \in SUBSET S, \A x \in T : T \ {x} \in G PROVE T \in G
  <2>1. CASE T = {}
    BY <2>1, SumEmpty
  <2>2. ASSUME NEW x \in T PROVE T \in G
    <3>1. IsFiniteSet(T)
      BY FS_Subset
    <3>2. SumFunctionOnSet(f, T) = f[x] + SumFunctionOnSet(f, T \ {x})
      BY <3>1, SumRemove
    <3> QED BY <3>2, <1>1
  <2> QED BY <2>1, <2>2
<1>2. \A T \in SUBSET S : T \in G
  <2> HIDE DEF G
  <2> QED BY <1>1, SetInduction
<1> QED BY <1>2

\* The sum of two disjoint sets is the sum of their sums.
LEMMA SumUnion ==
    ASSUME NEW S, IsFiniteSet(S), NEW R, IsFiniteSet(R), NEW f, R \intersect S = {},
           \A x \in S \union R : f[x] \in Int
    PROVE  SumFunctionOnSet(f, R \union S) = SumFunctionOnSet(f, R) + SumFunctionOnSet(f, S)
<1> DEFINE G == {T \in SUBSET S :
                  SumFunctionOnSet(f, R \union T) = SumFunctionOnSet(f, R) + SumFunctionOnSet(f, T)}
<1>1. ASSUME NEW T \in SUBSET S, \A x \in T : T \ {x} \in G PROVE T \in G
  <2>0. IsFiniteSet(T) /\ IsFiniteSet(R \union T)
    BY FS_Subset, FS_Union
  <2>1. CASE T = {}
    <3>1. SumFunctionOnSet(f, R) \in Int
      BY SumInt
    <3>2. R \union T = R
      BY <2>1
    <3> QED BY <2>1, <3>1, <3>2, SumEmpty
  <2>2. ASSUME NEW x \in T PROVE T \in G
    <3>1. SumFunctionOnSet(f, T) = f[x] + SumFunctionOnSet(f, T \ {x})
      BY <2>0, SumRemove
    <3>2. SumFunctionOnSet(f, R \union T) = f[x] + SumFunctionOnSet(f, (R \union T) \ {x})
      BY <2>0, SumRemove
    <3>3. (R \union T) \ {x} = R \union (T \ {x})
      BY <2>2
    <3>4. IsFiniteSet(T \ {x}) /\ f[x] \in Int
      BY <2>0, FS_Subset
    <3>5. SumFunctionOnSet(f, R) \in Int /\ SumFunctionOnSet(f, T \ {x}) \in Int
      BY <3>4, SumInt
    <3>6. T \ {x} \in G
      BY <1>1, <2>2
    <3>7. /\ SumFunctionOnSet(f, T) = f[x] + SumFunctionOnSet(f, T \ {x})
          /\ SumFunctionOnSet(f, R \union T)
             = f[x] + (SumFunctionOnSet(f, R) + SumFunctionOnSet(f, T \ {x}))
      BY <3>1, <3>2, <3>3, <3>6
    <3>8. SumFunctionOnSet(f, R \union T) = SumFunctionOnSet(f, R) + SumFunctionOnSet(f, T)
      BY ONLY <3>4, <3>5, <3>7
    <3> QED BY <3>8
  <2> QED BY <2>1, <2>2
<1>2. \A T \in SUBSET S : T \in G
  <2> HIDE DEF G
  <2> QED BY <1>1, SetInduction
<1> QED BY <1>2

\* The elements of a sum may be renamed, one to one.
LEMMA SumRenamed ==
    ASSUME NEW S, IsFiniteSet(S), NEW f, NEW g, NEW h,
           \A x \in S : f[x] \in Int /\ g[h[x]] = f[x],
           \A x, y \in S : h[x] = h[y] => x = y
    PROVE  /\ IsFiniteSet({h[x] : x \in S})
           /\ SumFunctionOnSet(g, {h[x] : x \in S}) = SumFunctionOnSet(f, S)
<1> DEFINE Image(T) == {h[x] : x \in T}
           G == {T \in SUBSET S : /\ IsFiniteSet(Image(T))
                                  /\ SumFunctionOnSet(g, Image(T)) = SumFunctionOnSet(f, T)}
<1>1. ASSUME NEW T \in SUBSET S, \A x \in T : T \ {x} \in G PROVE T \in G
  <2>1. CASE T = {}
    <3>1. Image(T) = {}
      BY <2>1
    <3> QED BY <2>1, <3>1, SumEmpty, FS_EmptySet
  <2>2. ASSUME NEW x \in T PROVE T \in G
    <3>1. SumFunctionOnSet(f, T) = f[x] + SumFunctionOnSet(f, T \ {x})
      BY FS_Subset, SumRemove
    <3>2. T \ {x} \in G
      BY <1>1
    <3>3. /\ Image(T) = Image(T \ {x}) \union {h[x]}
          /\ Image(T) \ {h[x]} = Image(T \ {x})
      OBVIOUS
    <3>4. IsFiniteSet(Image(T))
      <4>1. IsFiniteSet(Image(T \ {x}))
        BY <3>2
      <4>2. IsFiniteSet(Image(T \ {x}) \union {h[x]})
        <5> HIDE DEF Image
        <5> QED BY <4>1, FS_AddElement
      <4> QED BY <4>2, <3>3
    <3>5. \A z \in Image(T) : g[z] \in Int
      OBVIOUS
    <3>6. h[x] \in Image(T)
      OBVIOUS
    <3>7. SumFunctionOnSet(g, Image(T)) = g[h[x]] + SumFunctionOnSet(g, Image(T) \ {h[x]})
      <4> HIDE DEF Image
      <4> QED BY <3>4, <3>5, <3>6, SumRemove
    <3> QED BY <3>1, <3>2, <3>3, <3>4, <3>7
  <2> QED BY <2>1, <2>2
<1>2. \A T \in SUBSET S : T \in G
  <2> HIDE DEF G
  <2> QED BY <1>1, SetInduction
<1> QED BY <1>2

\* A part of a sum of naturals is no more than the whole.
LEMMA SumPart ==
    ASSUME NEW S, IsFiniteSet(S), NEW f, \A x \in S : f[x] \in Nat, NEW R \in SUBSET S
    PROVE  SumFunctionOnSet(f, R) <= SumFunctionOnSet(f, S)
<1>1. IsFiniteSet(R) /\ IsFiniteSet(S \ R) /\ R \intersect (S \ R) = {} /\ R \union (S \ R) = S
  BY FS_Subset
<1>2. SumFunctionOnSet(f, R) \in Nat /\ SumFunctionOnSet(f, S \ R) \in Nat
  <2>1. \A x \in R : f[x] \in Nat
    OBVIOUS
  <2>2. \A x \in S \ R : f[x] \in Nat
    OBVIOUS
  <2> QED BY <1>1, <2>1, <2>2, SumNat
<1>3. \A x \in (S \ R) \union R : f[x] \in Int
  OBVIOUS
<1>4. SumFunctionOnSet(f, S) = SumFunctionOnSet(f, R) + SumFunctionOnSet(f, S \ R)
  BY <1>1, <1>3, SumUnion
<1> QED BY <1>2, <1>4

\* A finite set of numbers that is not empty has a least one.
LEMMA LeastNumber ==
    ASSUME NEW S, IsFiniteSet(S), S \subseteq Nat, S # {}
    PROVE  \E n \in S : \A o \in S : n <= o
<1> DEFINE G == {T \in SUBSET S : T = {} \/ \E n \in T : \A o \in T : n <= o}
<1>1. ASSUME NEW T \in SUBSET S, \A x \in T : T \ {x} \in G PROVE T \in G
  <2>1. CASE T = {}
    BY <2>1
  <2>2. ASSUME NEW x \in T, T \ {x} = {} PROVE T \in G
    BY <2>2
  <2>3. ASSUME NEW x \in T, T \ {x} # {} PROVE T \in G
    <3>1. PICK n \in T \ {x} : \A o \in T \ {x} : n <= o
      BY <1>1, <2>3
    <3>2. PICK k \in T : \A o \in T : k <= o
      BY <3>1
    <3> QED BY <3>2
  <2> QED BY <2>1, <2>2, <2>3
<1>2. S \in G
  <2> HIDE DEF G
  <2>1. S \in SUBSET S /\ IsFiniteSet(S)
    OBVIOUS
  <2> QED BY <1>1, <2>1, SetInduction, Zenon
<1> QED BY <1>2
============================================================================
