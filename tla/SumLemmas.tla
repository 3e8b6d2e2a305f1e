----------------------------- MODULE SumLemmas -----------------------------
(***************************************************************************)
(* What SumFunction computes, for every function from a finite set to the  *)
(* naturals.  SumFunction is defined by recursion over sets; each          *)
(* induction below is an argument about a smallest counterexample.         *)
(***************************************************************************)
EXTENDS Integers, Functions, FiniteSets, FiniteSetTheorems, WellFoundedInduction, TLAPS

\* Every non-empty collection of subsets of a finite set has one without a strict subset
\* in the collection.
LEMMA SmallestSubset ==
  ASSUME NEW D, IsFiniteSet(D), NEW B, B \subseteq SUBSET D, B # {}
  PROVE  \E s \in B : \A t \in B : t \subseteq s => t = s
<1>1. IsWellFoundedOn(StrictSubsetOrdering(D), SUBSET D)
  BY FS_StrictSubsetOrderingWellFounded, FS_FiniteSubsetsOfFinite
<1> HIDE DEF StrictSubsetOrdering
<1>2. \E s \in B : \A t \in B : ~(<<t, s>> \in StrictSubsetOrdering(D))
  <2> DEFINE R == StrictSubsetOrdering(D)
  <2>1. IsWellFoundedOn(R, SUBSET D)
    BY <1>1
  <2> HIDE DEF R
  <2>2. \E s \in B : \A t \in B : ~(<<t, s>> \in R)
    BY <2>1, WFMin
  <2> QED
    BY <2>2 DEF R
<1>3. ASSUME NEW s \in B, NEW t \in B, t \subseteq s, t # s
      PROVE  <<t, s>> \in StrictSubsetOrdering(D)
  BY <1>3 DEF StrictSubsetOrdering
<1> QED
  BY <1>2, <1>3

\* Every non-empty set of numbers has a smallest member.
LEMMA SmallestNumber ==
  ASSUME NEW B, B \subseteq Nat, B # {}
  PROVE  \E n \in B : \A m \in B : n <= m
<1>1. \E n \in B : \A m \in B : ~(<<m, n>> \in OpToRel(<, Nat))
  <2> DEFINE R == OpToRel(<, Nat)
  <2>1. IsWellFoundedOn(R, Nat)
    BY NatLessThanWellFounded
  <2> HIDE DEF R
  <2>2. \E n \in B : \A m \in B : ~(<<m, n>> \in R)
    BY <2>1, WFMin
  <2> QED
    BY <2>2 DEF R
<1>2. ASSUME NEW n \in B, NEW m \in B, m < n
      PROVE  <<m, n>> \in OpToRel(<, Nat)
  BY <1>2 DEF OpToRel
<1>3. \A n \in B, m \in B : n <= m \/ m < n
  OBVIOUS
<1> QED
  BY <1>1, <1>2, <1>3

-----------------------------------------------------------------------------
\* One unfolding of the recursion behind SumFunction: a member of the set is taken out,
\* and the rest summed by g.
Taken(s) == CHOOSE x \in s : TRUE
Unfolded(f, D, g) ==
  [s \in SUBSET D |-> IF s = {} THEN 0 ELSE f[Taken(s)] + g[s \ {Taken(s)}]]

\* SumFunction is what some solution of the recursion gives the whole domain.
LEMMA SumIsUnfolded ==
  ASSUME NEW f
  PROVE  SumFunction(f) = (CHOOSE g : g = Unfolded(f, DOMAIN f, g))[DOMAIN f]
BY DEF SumFunction, SumFunctionOnSet, FoldFunctionOnSet, MapThenFoldSet, Unfolded, Taken

\* A member of a non-empty set can be taken out, which leaves a smaller set.
LEMMA TakenIsMember ==
  ASSUME NEW s, s # {}
  PROVE  Taken(s) \in s
BY DEF Taken

\* The recursion has a solution on the subsets of a finite set: one that holds for sets
\* of at most n members gives one for sets of at most n + 1.
LEMMA SolutionExists ==
  ASSUME NEW D, IsFiniteSet(D), NEW f
  PROVE  \E g : g = Unfolded(f, D, g)
<1> DEFINE Upto(n) == \E g : \A s \in SUBSET D :
                        Cardinality(s) <= n => g[s] = Unfolded(f, D, g)[s]
<1>1. \A s \in SUBSET D : IsFiniteSet(s) /\ Cardinality(s) \in Nat
  BY FS_Subset, FS_CardinalityType
<1>2. Upto(0)
  <2> DEFINE g == [s \in SUBSET D |-> 0]
  <2>1. ASSUME NEW s \in SUBSET D, Cardinality(s) <= 0
        PROVE  g[s] = Unfolded(f, D, g)[s]
    <3>1. s = {}
      BY <1>1, <2>1, FS_EmptySet
    <3> QED
      BY <3>1 DEF Unfolded
  <2> QED
    BY <2>1
<1>3. ASSUME NEW n \in Nat, Upto(n)
      PROVE  Upto(n + 1)
  <2>1. PICK g : \A s \in SUBSET D : Cardinality(s) <= n => g[s] = Unfolded(f, D, g)[s]
    BY <1>3
  <2> DEFINE h == Unfolded(f, D, g)
  <2>2. ASSUME NEW s \in SUBSET D, Cardinality(s) <= n + 1
        PROVE  h[s] = Unfolded(f, D, h)[s]
    <3>1. CASE s = {}
      BY <3>1 DEF Unfolded
    <3>2. CASE s # {}
      <4>1. Taken(s) \in s
        BY <3>2, TakenIsMember
      <4> DEFINE r == s \ {Taken(s)}
      <4>2. r \in SUBSET D
        OBVIOUS
      <4>3. Cardinality(r) = Cardinality(s) - 1
        BY <1>1, <4>1, FS_RemoveElement
      <4>4. Cardinality(r) <= n
        BY <1>1, <2>2, <4>2, <4>3
      <4>5. g[r] = h[r]
        BY <2>1, <4>2, <4>4
      <4>6. h[s] = f[Taken(s)] + g[r]
        BY <3>2 DEF Unfolded
      <4>7. Unfolded(f, D, h)[s] = f[Taken(s)] + h[r]
        BY <3>2 DEF Unfolded
      <4> QED
        BY <4>5, <4>6, <4>7
    <3> QED
      BY <3>1, <3>2
  <2> QED
    BY <2>2
<1>4. ASSUME NEW m \in Nat
      PROVE  Upto(m)
  <2> DEFINE B == {n \in Nat : ~Upto(n)}
  <2>1. SUFFICES ASSUME B # {} PROVE FALSE
    BY <2>1
  <2>2. PICK n \in B : \A k \in B : n <= k
    BY <2>1, SmallestNumber
  <2>3. n # 0 /\ n \in Nat /\ ~Upto(n)
    BY <1>2, <2>2
  <2> HIDE DEF Upto
  <2>4. n - 1 \in Nat /\ Upto(n - 1)
    BY <2>2, <2>3
  <2>5. Upto((n - 1) + 1)
    BY <1>3, <2>4
  <2>6. (n - 1) + 1 = n
    BY <2>3
  <2> QED
    BY <2>3, <2>5, <2>6
<1>5. PICK g : \A s \in SUBSET D : Cardinality(s) <= Cardinality(D) => g[s] = Unfolded(f, D, g)[s]
  <2>1. Upto(Cardinality(D))
    BY <1>1, <1>4
  <2> QED
    BY <2>1
<1>6. \A s \in SUBSET D : g[s] = Unfolded(f, D, g)[s]
  BY <1>5, FS_Subset
<1> DEFINE h == Unfolded(f, D, g)
<1>7. \A s \in SUBSET D : g[s \ {Taken(s)}] = h[s \ {Taken(s)}]
  BY <1>6
<1>8. h = Unfolded(f, D, h)
  BY <1>7 DEF Unfolded
<1> QED
  BY <1>8

\* A solution sums in any order: whichever member is set apart first, the rest is summed
\* to the same total.
LEMMA SolutionInAnyOrder ==
  ASSUME NEW D, IsFiniteSet(D), NEW f, \A x \in D : f[x] \in Nat,
         NEW g, g = Unfolded(f, D, g)
  PROVE  \A s \in SUBSET D : /\ g[s] \in Nat
                             /\ \A x \in s : g[s] = f[x] + g[s \ {x}]
<1> DEFINE Good(s) == /\ g[s] \in Nat
                      /\ \A x \in s : g[s] = f[x] + g[s \ {x}]
           B == {s \in SUBSET D : ~Good(s)}
<1>1. g[{}] = 0
  BY DEF Unfolded
<1>2. \A s \in SUBSET D : s # {} => g[s] = f[Taken(s)] + g[s \ {Taken(s)}]
  BY DEF Unfolded
<1>3. SUFFICES ASSUME B # {} PROVE FALSE
  BY <1>3
<1>4. PICK s \in B : \A t \in B : t \subseteq s => t = s
  <2>1. B \subseteq SUBSET D
    OBVIOUS
  <2> HIDE DEF B
  <2> QED
    BY <1>3, <2>1, SmallestSubset
<1>5. s \in SUBSET D /\ ~Good(s) /\ s # {}
  <2>1. s \in SUBSET D /\ ~Good(s)
    OBVIOUS
  <2>2. Good({})
    BY <1>1
  <2> QED
    BY <2>1, <2>2
<1> DEFINE c == Taken(s)
<1>6. c \in s /\ f[c] \in Nat
  BY <1>5, TakenIsMember
<1>7. \A x \in s : Good(s \ {x})
  <2> HIDE DEF Good
  <2> SUFFICES ASSUME NEW x \in s PROVE Good(s \ {x})
    OBVIOUS
  <2>1. s \ {x} \in SUBSET D /\ s \ {x} \subseteq s /\ s \ {x} # s
    BY <1>5
  <2> QED
    BY <1>4, <2>1
<1>8. g[s] = f[c] + g[s \ {c}] /\ g[s \ {c}] \in Nat /\ g[s] \in Nat
  BY <1>2, <1>5, <1>6, <1>7
<1>9. ASSUME NEW x \in s
      PROVE  g[s] = f[x] + g[s \ {x}]
  <2>1. CASE x = c
    BY <1>8, <2>1
  <2>2. CASE x # c
    <3>1. x \in s \ {c} /\ c \in s \ {x}
      BY <1>6, <2>2
    <3>2. g[s \ {c}] = f[x] + g[(s \ {c}) \ {x}]
      BY <1>6, <1>7, <3>1
    <3>3. g[s \ {x}] = f[c] + g[(s \ {x}) \ {c}]
      BY <1>7, <3>1
    <3>4. (s \ {c}) \ {x} = (s \ {x}) \ {c}
      OBVIOUS
    <3>5. Good(s \ {x})
      BY <1>7
    <3>6. f[x] \in Nat /\ g[s \ {x}] \in Nat
      BY <1>5, <3>5
    <3>7. f[c] \in Nat
      BY <1>6
    <3>8. PICK w : w = g[(s \ {x}) \ {c}]
      OBVIOUS
    <3>9. w \in Nat
      <4> DEFINE r == (s \ {x}) \ {c}
      <4>1. r \in SUBSET D /\ r \subseteq s /\ r # s
        BY <1>5, <1>6
      <4> HIDE DEF Good, r
      <4>2. Good(r)
        BY <1>4, <4>1
      <4> QED
        BY <3>8, <4>2 DEF Good, r
    <3> HIDE DEF c, Good
    <3> QED
      BY <1>8, <3>2, <3>3, <3>4, <3>6, <3>7, <3>8, <3>9
  <2> QED
    BY <2>1, <2>2
<1> QED
  BY <1>5, <1>8, <1>9

\* Solutions for two functions agree on the sets where the functions do.
LEMMA SolutionsAgree ==
  ASSUME NEW D, NEW E, IsFiniteSet(E), E \subseteq D,
         NEW f, NEW e, \A x \in E : e[x] = f[x],
         NEW g, g = Unfolded(f, D, g),
         NEW h, h = Unfolded(e, E, h)
  PROVE  \A s \in SUBSET E : g[s] = h[s]
<1> DEFINE B == {s \in SUBSET E : g[s] # h[s]}
<1>1. SUFFICES ASSUME B # {} PROVE FALSE
  BY <1>1
<1>2. PICK s \in B : \A t \in B : t \subseteq s => t = s
  <2>1. B \subseteq SUBSET E
    OBVIOUS
  <2> HIDE DEF B
  <2> QED
    BY <1>1, <2>1, SmallestSubset
<1>3. CASE s = {}
  BY <1>2, <1>3 DEF Unfolded
<1>4. CASE s # {}
  <2> DEFINE r == s \ {Taken(s)}
  <2>1. Taken(s) \in s
    BY <1>4, TakenIsMember
  <2>2. r \in SUBSET E /\ r \subseteq s /\ r # s
    BY <2>1
  <2>3. g[r] = h[r]
    BY <1>2, <2>2
  <2>4. g[s] = f[Taken(s)] + g[r]
    BY <1>4 DEF Unfolded
  <2>5. h[s] = e[Taken(s)] + h[r]
    BY <1>4 DEF Unfolded
  <2>6. e[Taken(s)] = f[Taken(s)]
    BY <2>1
  <2> QED
    BY <1>2, <2>3, <2>4, <2>5, <2>6
<1> QED
  BY <1>3, <1>4

-----------------------------------------------------------------------------
\* The sums over all the parts of a function, and how they hang together.
ArePartSums(g, f, D) ==
  /\ g[{}] = 0
  /\ \A s \in SUBSET D : /\ g[s] \in Nat
                         /\ \A x \in s : g[s] = f[x] + g[s \ {x}]
                         /\ SumFunction(Restrict(f, s)) = g[s]

\* The sums over all the parts of a function hang together: an empty part sums to
\* nothing, and each member of a part adds its own value.
LEMMA SumsOfParts ==
  ASSUME NEW D, IsFiniteSet(D), NEW f \in [D -> Nat]
  PROVE  \E g : ArePartSums(g, f, D)
<1>1. PICK g : g = Unfolded(f, D, g)
  BY SolutionExists
<1>2. \A s \in SUBSET D : /\ g[s] \in Nat
                          /\ \A x \in s : g[s] = f[x] + g[s \ {x}]
  <2>1. \A x \in D : f[x] \in Nat
    OBVIOUS
  <2> QED
    BY <1>1, <2>1, SolutionInAnyOrder
<1>3. g[{}] = 0
  BY <1>1 DEF Unfolded
<1>4. ASSUME NEW s \in SUBSET D
      PROVE  SumFunction(Restrict(f, s)) = g[s]
  <2> DEFINE e == Restrict(f, s)
  <2>1. DOMAIN e = s /\ \A x \in s : e[x] = f[x]
    BY DEF Restrict
  <2>2. IsFiniteSet(s)
    BY FS_Subset
  <2> HIDE DEF e
  <2>3. PICK h : h = (CHOOSE k : k = Unfolded(e, s, k))
    OBVIOUS
  <2>4. h = Unfolded(e, s, h)
    <3>1. \E k : k = Unfolded(e, s, k)
      BY <2>2, SolutionExists
    <3> QED
      BY <2>3, <3>1
  <2>5. SumFunction(e) = h[s]
    BY <2>1, <2>3, SumIsUnfolded
  <2>6. g[s] = h[s]
    BY <1>1, <2>1, <2>2, <2>4, SolutionsAgree
  <2> QED
    BY <2>5, <2>6 DEF e
<1> QED
  BY <1>2, <1>3, <1>4 DEF ArePartSums

\* The sum over an empty domain is nothing.
LEMMA SumOfNothing ==
  ASSUME NEW f, DOMAIN f = {}
  PROVE  SumFunction(f) = 0
<1>1. PICK h : h = (CHOOSE k : k = Unfolded(f, DOMAIN f, k))
  OBVIOUS
<1>2. IsFiniteSet(DOMAIN f)
  BY FS_EmptySet
<1>3. \E k : k = Unfolded(f, DOMAIN f, k)
  BY <1>2, SolutionExists
<1>4. h = Unfolded(f, DOMAIN f, h)
  BY <1>1, <1>3
<1>5. h[{}] = 0
  BY <1>4 DEF Unfolded
<1> QED
  BY <1>1, <1>5, SumIsUnfolded

\* A sum of naturals is a natural, and setting one member apart takes its value off.
LEMMA SumSetApart ==
  ASSUME NEW D, IsFiniteSet(D), NEW f \in [D -> Nat]
  PROVE  /\ SumFunction(f) \in Nat
         /\ \A x \in D : /\ SumFunction(f) = f[x] + SumFunction(Restrict(f, D \ {x}))
                         /\ SumFunction(Restrict(f, D \ {x})) \in Nat
<1>1. PICK g : ArePartSums(g, f, D)
  BY SumsOfParts
<1>2. Restrict(f, D) = f
  BY DEF Restrict
<1>3. D \in SUBSET D /\ \A x \in D : D \ {x} \in SUBSET D
  OBVIOUS
<1> QED
  BY <1>1, <1>2, <1>3 DEF ArePartSums

\* The sum over a part is at most the sum over the whole.
LEMMA SumOfPart ==
  ASSUME NEW D, IsFiniteSet(D), NEW f \in [D -> Nat], NEW S \in SUBSET D
  PROVE  SumFunction(Restrict(f, S)) \in Nat /\ SumFunction(Restrict(f, S)) <= SumFunction(f)
<1>1. PICK g : ArePartSums(g, f, D)
  BY SumsOfParts
<1>2. Restrict(f, D) = f
  BY DEF Restrict
<1> DEFINE B == {s \in SUBSET D : S \subseteq s /\ ~(g[S] <= g[s])}
<1>3. B = {}
  <2> SUFFICES ASSUME B # {} PROVE FALSE
    OBVIOUS
  <2>1. B \subseteq SUBSET D
    OBVIOUS
  <2>2. PICK s \in B : \A t \in B : t \subseteq s => t = s
    <3> HIDE DEF B
    <3> QED
      BY <2>1, SmallestSubset
  <2>3. s \in SUBSET D /\ S \subseteq s /\ ~(g[S] <= g[s])
    BY <2>2
  <2>4. g[S] \in Nat /\ g[s] \in Nat
    BY <1>1, <2>3 DEF ArePartSums
  <2>5. s # S
    BY <2>3, <2>4
  <2>6. PICK x \in s : x \notin S
    BY <2>3, <2>5
  <2> DEFINE r == s \ {x}
  <2>7. r \in SUBSET D /\ S \subseteq r /\ r \subseteq s /\ r # s
    BY <2>3, <2>6
  <2>8. g[S] <= g[r]
    BY <2>2, <2>7
  <2>9. g[s] = f[x] + g[r] /\ g[r] \in Nat /\ f[x] \in Nat
    BY <1>1, <2>3, <2>6, <2>7 DEF ArePartSums
  <2> HIDE DEF r
  <2> QED
    BY <2>3, <2>4, <2>8, <2>9
<1>4. g[S] <= g[D]
  BY <1>3
<1> QED
  BY <1>1, <1>2, <1>4 DEF ArePartSums
=============================================================================
