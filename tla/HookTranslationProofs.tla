----------------------- MODULE HookTranslationProofs -----------------------
(***************************************************************************)
(* Proofs about HookTranslation and the text functions of RawMessage, for  *)
(* every value of their constants.                                         *)
(***************************************************************************)
EXTENDS HookTranslation, SumLemmas, SequenceTheorems

-----------------------------------------------------------------------------
(* Sets of numbers in order. *)

\* The place of a member in the order of its set.
Rank(S, p) == Cardinality({q \in S : q <= p})

\* A larger member has a higher rank, and ranks are within the number of members.
LEMMA RankGrows ==
  ASSUME NEW S, IsFiniteSet(S), S \subseteq Int
  PROVE  /\ \A p \in S : Rank(S, p) \in 1 .. Cardinality(S)
         /\ \A p, r \in S : p < r => Rank(S, p) < Rank(S, r)
<1> DEFINE upto(p) == {q \in S : q <= p}
<1>1. \A p \in S : upto(p) \in SUBSET S
  OBVIOUS
<1>2. ASSUME NEW p \in S
      PROVE  /\ IsFiniteSet(upto(p)) /\ Cardinality(upto(p)) \in Nat
             /\ Cardinality(upto(p)) <= Cardinality(S) /\ Cardinality(upto(p)) # 0
  <2>1. IsFiniteSet(upto(p)) /\ Cardinality(upto(p)) <= Cardinality(S)
    BY <1>1, FS_Subset
  <2>2. p \in upto(p)
    OBVIOUS
  <2> HIDE DEF upto
  <2> QED
    BY <2>1, <2>2, FS_CardinalityType, FS_EmptySet
<1>3. ASSUME NEW p \in S, NEW r \in S, p < r
      PROVE  Cardinality(upto(p)) < Cardinality(upto(r))
  <2>1. upto(p) \in SUBSET upto(r)
    <3>1. \A q \in S : q \in Int
      OBVIOUS
    <3>2. \A q \in S : q <= p => q <= r
      BY <1>3, <3>1
    <3> QED
      BY <3>2
  <2>2. r \in upto(r) /\ r \notin upto(p)
    BY <1>3
  <2>3. IsFiniteSet(upto(r)) /\ Cardinality(upto(r)) \in Nat /\ Cardinality(upto(p)) \in Nat
    BY <1>2
  <2> HIDE DEF upto
  <2>4. Cardinality(upto(p)) <= Cardinality(upto(r))
    BY <2>1, <2>3, FS_Subset
  <2>5. Cardinality(upto(p)) # Cardinality(upto(r))
    BY <2>1, <2>2, <2>3, FS_Subset
  <2> QED
    BY <2>3, <2>4, <2>5
<1>4. Cardinality(S) \in Nat
  BY FS_CardinalityType
<1> QED
  BY <1>2, <1>3, <1>4 DEF Rank

\* Every rank up to the number of members is taken.
LEMMA RankIsOnto ==
  ASSUME NEW S, IsFiniteSet(S), S \subseteq Int, NEW k \in 1 .. Cardinality(S)
  PROVE  \E p \in S : Rank(S, p) = k
<1> DEFINE f == [p \in S |-> Rank(S, p)]
           T == 1 .. Cardinality(S)
<1>1. Cardinality(S) \in Nat
  BY FS_CardinalityType
<1>2. IsFiniteSet(T) /\ Cardinality(T) = Cardinality(S)
  BY <1>1, FS_Interval
<1>3. f \in [S -> T]
  BY RankGrows
<1>4. ASSUME NEW p \in S, NEW r \in S, f[p] = f[r]
      PROVE  p = r
  <2>1. Rank(S, p) = Rank(S, r)
    BY <1>4
  <2>2. (p < r => Rank(S, p) < Rank(S, r)) /\ (r < p => Rank(S, r) < Rank(S, p))
    BY RankGrows
  <2>3. Rank(S, p) \in 1 .. Cardinality(S) /\ Rank(S, r) \in 1 .. Cardinality(S)
    BY RankGrows
  <2>4. Rank(S, p) \in Int /\ Rank(S, r) \in Int
    BY <1>1, <2>3
  <2>5. ~(p < r) /\ ~(r < p)
    BY <2>1, <2>2, <2>4
  <2>6. p \in Int /\ r \in Int
    OBVIOUS
  <2> QED
    BY <2>5, <2>6
<1> HIDE DEF f, T
<1>5. f \in Injection(S, T)
  BY <1>3, <1>4 DEF Injection, IsInjective
<1>6. f \in Surjection(S, T)
  BY <1>2, <1>5, FS_Injection
<1>7. \E p \in S : f[p] = k
  BY <1>6 DEF Surjection, T
<1> QED
  BY <1>7 DEF f

\* Ascending lists a finite set of numbers without repetition, smallest first.
LEMMA AscendingOK ==
  ASSUME NEW S, IsFiniteSet(S), S \subseteq Int
  PROVE  /\ Cardinality(S) \in Nat
         /\ Ascending(S) \in Seq(S)
         /\ Len(Ascending(S)) = Cardinality(S)
         /\ \A k \in 1 .. Cardinality(S) : Ascending(S)[k] \in S /\ Rank(S, Ascending(S)[k]) = k
         /\ \A k, l \in 1 .. Cardinality(S) : k < l => Ascending(S)[k] < Ascending(S)[l]
         /\ \A p \in S : Rank(S, p) \in 1 .. Cardinality(S) /\ Ascending(S)[Rank(S, p)] = p
<1>1. PICK n : n = Cardinality(S)
  OBVIOUS
<1>2. n \in Nat
  BY <1>1, FS_CardinalityType
<1>3. PICK a : a = Ascending(S)
  OBVIOUS
<1>4. a = [k \in 1 .. n |-> CHOOSE p \in S : Rank(S, p) = k]
  BY <1>1, <1>3 DEF Ascending, Rank
<1>5. \A k \in 1 .. n : a[k] \in S /\ Rank(S, a[k]) = k
  BY <1>1, <1>4, RankIsOnto
<1>6. a \in Seq(S) /\ Len(a) = n
  BY <1>2, <1>4, <1>5
<1>7. \A p, r \in S : p < r \/ p = r \/ r < p
  OBVIOUS
<1>8. ASSUME NEW k \in 1 .. n, NEW l \in 1 .. n, k < l
      PROVE  a[k] < a[l]
  <2>1. a[k] \in S /\ a[l] \in S /\ Rank(S, a[k]) = k /\ Rank(S, a[l]) = l
    BY <1>5
  <2>2. a[l] < a[k] => Rank(S, a[l]) < Rank(S, a[k])
    BY <2>1, RankGrows
  <2>3. ~(a[l] < a[k]) /\ a[l] # a[k]
    BY <1>2, <1>8, <2>1, <2>2
  <2> QED
    BY <1>7, <2>1, <2>3
<1>9. ASSUME NEW p \in S
      PROVE  Rank(S, p) \in 1 .. n /\ a[Rank(S, p)] = p
  <2>1. PICK k : k = Rank(S, p)
    OBVIOUS
  <2>2. k \in 1 .. n
    BY <1>1, <2>1, RankGrows
  <2>3. Rank(S, a[k]) = k /\ a[k] \in S
    BY <1>5, <2>2
  <2>4. /\ a[k] < p => Rank(S, a[k]) < Rank(S, p)
        /\ p < a[k] => Rank(S, p) < Rank(S, a[k])
    BY <2>3, RankGrows
  <2>5. ~(a[k] < p) /\ ~(p < a[k])
    BY <1>2, <2>1, <2>2, <2>3, <2>4
  <2> QED
    BY <1>7, <2>1, <2>2, <2>3, <2>5
<1> QED
  BY <1>1, <1>2, <1>3, <1>5, <1>6, <1>8, <1>9

\* As many members as numbers that list them in order.
LEMMA ListedInOrder ==
  ASSUME NEW n \in Nat, NEW A, \A j \in 1 .. n : A[j] \in Nat,
         \A j, l \in 1 .. n : j < l => A[j] < A[l], NEW j \in 0 .. n
  PROVE  IsFiniteSet({A[l] : l \in 1 .. j}) /\ Cardinality({A[l] : l \in 1 .. j}) = j
<1>1. PICK T : T = {A[l] : l \in 1 .. j}
  OBVIOUS
<1>2. PICK D : D = 1 .. j
  OBVIOUS
<1>3. IsFiniteSet(D) /\ Cardinality(D) = j
  <2>1. 1 \in Int /\ j \in Int /\ (1 > j <=> j = 0) /\ j - 1 + 1 = j
    OBVIOUS
  <2>2. IsFiniteSet(1 .. j) /\ Cardinality(1 .. j) = IF 1 > j THEN 0 ELSE j - 1 + 1
    BY <2>1, FS_Interval
  <2> QED
    BY <1>2, <2>1, <2>2
<1>4. PICK f : f = [l \in D |-> A[l]]
  OBVIOUS
<1>5. f \in Surjection(D, T)
  BY <1>1, <1>2, <1>4 DEF Surjection
<1>6. ASSUME NEW k \in D, NEW l \in D, f[k] = f[l] PROVE k = l
  <2>1. k \in 1 .. n /\ l \in 1 .. n
    BY <1>2
  <2>2. A[k] = A[l] /\ A[k] \in Nat
    BY <1>4, <1>6, <2>1
  <2>3. ~(k < l) /\ ~(l < k)
    <3>1. (k < l => A[k] < A[l]) /\ (l < k => A[l] < A[k])
      BY <2>1
    <3> QED
      BY <2>2, <3>1
  <2> QED
    BY <2>1, <2>3
<1>7. f \in Injection(D, T)
  <2>1. f \in [D -> T]
    BY <1>5 DEF Surjection
  <2> QED
    BY <1>6, <2>1 DEF Injection, IsInjective
<1>8. IsFiniteSet(T) /\ Cardinality(T) = Cardinality(D)
  BY <1>3, <1>5, <1>7, FS_Surjection
<1> QED
  BY <1>1, <1>3, <1>8

\* The first n values of A as a list.
ListsAs(s, A, n) == Len(s) = n /\ DOMAIN s = 1 .. n /\ \A j \in 1 .. n : s[j] = A[j]

\* What lists a set of numbers in order is what Ascending makes of it.
LEMMA AscendingIs ==
  ASSUME NEW n \in Nat, NEW A, \A j \in 1 .. n : A[j] \in Nat,
         \A j, l \in 1 .. n : j < l => A[j] < A[l],
         NEW S, S = {A[l] : l \in 1 .. n}
  PROVE  ListsAs(Ascending(S), A, n)
<1>1. IsFiniteSet(S) /\ Cardinality(S) = n /\ S \subseteq Int
  <2>1. n \in 0 .. n
    OBVIOUS
  <2>2. IsFiniteSet({A[l] : l \in 1 .. n}) /\ Cardinality({A[l] : l \in 1 .. n}) = n
    BY <2>1, ListedInOrder
  <2>3. S \subseteq Int
    OBVIOUS
  <2> QED
    BY <2>2, <2>3
<1>2. PICK a : a = Ascending(S)
  OBVIOUS
<1>3. /\ a \in Seq(S) /\ Len(a) = n
      /\ \A p \in S : a[Rank(S, p)] = p
  <2>1. /\ Ascending(S) \in Seq(S) /\ Len(Ascending(S)) = Cardinality(S)
        /\ \A p \in S : Rank(S, p) \in 1 .. Cardinality(S) /\ Ascending(S)[Rank(S, p)] = p
    BY <1>1, AscendingOK
  <2> QED
    BY <1>1, <1>2, <2>1
<1>4. ASSUME NEW j \in 1 .. n PROVE a[j] = A[j]
  <2>1. {q \in S : q <= A[j]} = {A[l] : l \in 1 .. j}
    <3>1. ASSUME NEW l \in 1 .. n PROVE A[l] <= A[j] <=> l \in 1 .. j
      <4>1. (j < l => A[j] < A[l]) /\ (l < j => A[l] < A[j])
        OBVIOUS
      <4>2. A[l] \in Nat /\ A[j] \in Nat /\ (l < j \/ l = j \/ j < l)
        OBVIOUS
      <4> QED
        BY <4>1, <4>2
    <3>2. \A l \in 1 .. j : l \in 1 .. n
      OBVIOUS
    <3> QED
      BY <3>1, <3>2
  <2>2. j \in 0 .. n
    OBVIOUS
  <2>3. Cardinality({A[l] : l \in 1 .. j}) = j
    <3>1. IsFiniteSet({A[l] : l \in 1 .. j}) /\ Cardinality({A[l] : l \in 1 .. j}) = j
      BY <2>2, ListedInOrder
    <3> QED
      BY <3>1
  <2>4. Rank(S, A[j]) = j /\ A[j] \in S
    BY <2>1, <2>3 DEF Rank
  <2> QED
    BY <1>3, <2>4
<1>5. DOMAIN a = 1 .. n
  BY <1>3
<1> QED
  BY <1>2, <1>3, <1>4, <1>5 DEF ListsAs

-----------------------------------------------------------------------------
(* The text of a message. *)

\* One more text after those flattened so far: g holds the flattened prefixes up to k.
FlattenedUpTo(texts, k, g) ==
  \A i \in 1 .. k : g[i] = IF i = 1 THEN texts[i] ELSE g[i - 1] \o texts[i]

\* The prefixes of a list of texts can be flattened one after the other.
LEMMA FlattenedExist ==
  ASSUME NEW S, NEW texts \in Seq(Seq(S)), NEW n \in Nat, n = Len(texts)
  PROVE  \E g \in [1 .. n -> Seq(S)] : FlattenedUpTo(texts, n, g)
<1> DEFINE Done(k) == \E g \in [1 .. k -> Seq(S)] : FlattenedUpTo(texts, k, g)
           B == {k \in 0 .. n : ~Done(k)}
<1>1. SUFFICES ASSUME B # {}
               PROVE  FALSE
  <2>1. n \in 0 .. n
    OBVIOUS
  <2> QED
    BY <1>1, <2>1
<1>2. B \subseteq Nat
  OBVIOUS
<1>3. PICK k \in B : \A l \in B : k <= l
  <2> HIDE DEF B
  <2> QED
    BY <1>1, <1>2, SmallestNumber
<1>4. k \in 0 .. n /\ ~Done(k)
  OBVIOUS
<1>5. k # 0
  <2>1. SUFFICES ASSUME k = 0
                 PROVE  FALSE
    OBVIOUS
  <2>2. [i \in 1 .. 0 |-> <<>>] \in [1 .. 0 -> Seq(S)]
    OBVIOUS
  <2>3. FlattenedUpTo(texts, 0, [i \in 1 .. 0 |-> <<>>])
    BY DEF FlattenedUpTo
  <2> QED
    BY <1>4, <2>1, <2>2, <2>3
<1>6. PICK l \in Nat : k = l + 1
  <2>1. k - 1 \in Nat /\ k = (k - 1) + 1
    BY <1>4, <1>5
  <2> QED
    BY <2>1
<1>7. Done(l)
  <2>1. l \in 0 .. n /\ ~(k <= l)
    BY <1>4, <1>6
  <2> QED
    BY <1>3, <2>1
<1>8. PICK g \in [1 .. l -> Seq(S)] : FlattenedUpTo(texts, l, g)
  BY <1>7
<1>9. texts[k] \in Seq(S)
  <2>1. k \in 1 .. Len(texts)
    BY <1>4, <1>5
  <2> QED
    BY <2>1, ElementOfSeq
<1>10. PICK last \in Seq(S) : last = IF k = 1 THEN texts[k] ELSE g[l] \o texts[k]
  <2>1. CASE k = 1
    BY <1>9, <2>1
  <2>2. CASE k # 1
    <3>1. l \in 1 .. l
      BY <1>6, <2>2
    <3>2. g[l] \in Seq(S)
      BY <3>1
    <3>3. g[l] \o texts[k] \in Seq(S)
      BY <1>9, <3>2, ConcatProperties
    <3> QED
      BY <2>2, <3>3
  <2> QED
    BY <2>1, <2>2
<1> DEFINE h == [i \in 1 .. k |-> IF i = k THEN last ELSE g[i]]
<1>11. h \in [1 .. k -> Seq(S)]
  <2>1. \A i \in 1 .. k : i # k => i \in 1 .. l
    BY <1>6
  <2> QED
    BY <2>1
<1>12. FlattenedUpTo(texts, k, h)
  <2>1. SUFFICES ASSUME NEW i \in 1 .. k
                 PROVE  h[i] = IF i = 1 THEN texts[i] ELSE h[i - 1] \o texts[i]
    BY DEF FlattenedUpTo
  <2>2. CASE i = k
    <3>1. i # 1 => i - 1 \in 1 .. k /\ i - 1 = l /\ i - 1 # k
      BY <1>6, <2>2
    <3> QED
      BY <1>10, <2>2, <3>1
  <2>3. CASE i # k
    <3>1. i \in 1 .. l /\ (i # 1 => i - 1 \in 1 .. k /\ i - 1 # k)
      BY <1>6, <2>3
    <3>2. g[i] = IF i = 1 THEN texts[i] ELSE g[i - 1] \o texts[i]
      BY <1>8, <3>1 DEF FlattenedUpTo
    <3> QED
      BY <2>3, <3>1, <3>2
  <2> QED
    BY <2>2, <2>3
<1> QED
  BY <1>4, <1>11, <1>12

\* Flattening a list of texts appends them one by one: g holds what the first ones give, each
\* a prefix of the whole.
FlattenedBy(texts, n, g) ==
  /\ g[0] = <<>> /\ g[n] = FlattenSeq(texts)
  /\ \A i \in 1 .. n : g[i] = g[i - 1] \o texts[i]
Flattens(S, texts, n, g) ==
  /\ g \in [0 .. n -> Seq(S)] /\ FlattenedBy(texts, n, g)
  /\ \A i \in 0 .. n : /\ Len(g[i]) <= Len(g[n])
                       /\ \A p \in 1 .. Len(g[i]) : g[n][p] = g[i][p]

\* There are such prefixes.
LEMMA FlattenPrefixes ==
  ASSUME NEW S, NEW texts \in Seq(Seq(S)), NEW n \in Nat, n = Len(texts)
  PROVE  \E g : Flattens(S, texts, n, g)
<1>1. \E g \in [0 .. n -> Seq(S)] : FlattenedBy(texts, n, g)
  <2>1. CASE n = 0
    <3>1. FlattenSeq(texts) = texts /\ texts = <<>>
      BY <2>1, EmptySeq DEF FlattenSeq
    <3>2. PICK g : g = [i \in 0 .. n |-> <<>>]
      OBVIOUS
    <3>3. <<>> \in Seq(S) /\ 0 \in 0 .. n /\ 1 .. n = {}
      BY <2>1
    <3>4. g \in [0 .. n -> Seq(S)] /\ g[0] = <<>> /\ g[n] = <<>>
      BY <2>1, <3>2, <3>3
    <3> QED
      BY <3>1, <3>3, <3>4 DEF FlattenedBy
  <2>2. CASE n # 0
    <3> DEFINE G(g) == [i \in 1 .. n |-> IF i = 1 THEN texts[i] ELSE g[i - 1] \o texts[i]]
    <3>1. PICK f \in [1 .. n -> Seq(S)] : FlattenedUpTo(texts, n, f)
      BY FlattenedExist
    <3>2. f = G(f)
      BY <3>1 DEF FlattenedUpTo
    <3>3. PICK h : h = (CHOOSE x : x = G(x))
      OBVIOUS
    <3>4. h = G(h)
      BY <3>2, <3>3
    <3>5. FlattenSeq(texts) = h[n]
      BY <2>2, <3>3 DEF FlattenSeq
    <3>6. \A i \in 1 .. n : h[i] = IF i = 1 THEN texts[i] ELSE h[i - 1] \o texts[i]
      BY <3>4
    <3> DEFINE B == {i \in 1 .. n : h[i] \notin Seq(S)}
    <3>7. B = {}
      <4>1. SUFFICES ASSUME B # {}
                     PROVE  FALSE
        OBVIOUS
      <4>2. B \subseteq Nat
        OBVIOUS
      <4>3. PICK i \in B : \A l \in B : i <= l
        <5> HIDE DEF B
        <5> QED
          BY <4>1, <4>2, SmallestNumber
      <4>4. i \in 1 .. n /\ h[i] \notin Seq(S)
        OBVIOUS
      <4>5. texts[i] \in Seq(S)
        BY <4>4, ElementOfSeq
      <4>6. i # 1
        BY <3>6, <4>4, <4>5
      <4>7. i - 1 \in 1 .. n /\ ~(i <= i - 1)
        BY <4>4, <4>6
      <4>8. h[i - 1] \in Seq(S)
        BY <4>3, <4>7
      <4>9. h[i - 1] \o texts[i] \in Seq(S)
        BY <4>5, <4>8, ConcatProperties
      <4> QED
        BY <3>6, <4>4, <4>6, <4>9
    <3>8. \A i \in 1 .. n : h[i] \in Seq(S)
      BY <3>7
    <3> HIDE DEF B, G
    <3>9. PICK g : g = [i \in 0 .. n |-> IF i = 0 THEN <<>> ELSE h[i]]
      OBVIOUS
    <3>10. <<>> \in Seq(S)
      OBVIOUS
    <3>11. g \in [0 .. n -> Seq(S)] /\ g[0] = <<>> /\ g[n] = h[n]
      BY <2>2, <3>8, <3>9, <3>10
    <3>12. ASSUME NEW i \in 1 .. n PROVE g[i] = g[i - 1] \o texts[i]
      <4>1. texts[i] \in Seq(S)
        BY ElementOfSeq
      <4>2. CASE i = 1
        <5>1. g[i] = texts[i] /\ g[i - 1] = <<>>
          BY <3>6, <3>9, <3>11, <4>2
        <5> QED
          BY <4>1, <5>1, ConcatEmptySeq
      <4>3. CASE i # 1
        <5>1. i - 1 \in 1 .. n /\ i - 1 # 0 /\ i # 0 /\ i \in 0 .. n /\ i - 1 \in 0 .. n
          BY <4>3
        <5>2. g[i] = h[i] /\ g[i - 1] = h[i - 1]
          BY <3>9, <5>1
        <5> QED
          BY <3>6, <4>3, <5>2
      <4> QED
        BY <4>2, <4>3
    <3> QED
      BY <3>5, <3>11, <3>12 DEF FlattenedBy
  <2> QED
    BY <2>1, <2>2
<1>2. PICK g \in [0 .. n -> Seq(S)] : FlattenedBy(texts, n, g)
  BY <1>1
<1> DEFINE Prefix(i, j) == /\ Len(g[i]) <= Len(g[j])
                           /\ \A p \in 1 .. Len(g[i]) : g[j][p] = g[i][p]
           B == {j \in 0 .. n : \E i \in 0 .. j : ~Prefix(i, j)}
<1>3. B = {}
  <2>1. SUFFICES ASSUME B # {}
                 PROVE  FALSE
    OBVIOUS
  <2>2. B \subseteq Nat
    OBVIOUS
  <2>3. PICK j \in B : \A l \in B : j <= l
    <3> HIDE DEF B
    <3> QED
      BY <2>1, <2>2, SmallestNumber
  <2>4. j \in 0 .. n
    OBVIOUS
  <2>5. PICK i \in 0 .. j : ~Prefix(i, j)
    OBVIOUS
  <2>6. i # j
    <3>1. Len(g[j]) \in Nat
      BY <2>4
    <3> QED
      BY <2>5, <3>1
  <2>7. i < j /\ j # 0 /\ j \in 1 .. n /\ j - 1 \in 0 .. n /\ i \in 0 .. (j - 1) /\ ~(j <= j - 1)
    BY <2>4, <2>5, <2>6
  <2>8. Prefix(i, j - 1)
    <3>1. j - 1 \notin B
      <4> HIDE DEF B
      <4> QED
        BY <2>3, <2>7
    <3> QED
      BY <2>7, <3>1
  <2>9. PICK x \in Seq(S) : x = g[j - 1]
    BY <2>7
  <2>10. PICK y \in Seq(S) : y = texts[j]
    BY <2>7, ElementOfSeq
  <2>11. PICK w \in Seq(S) : w = g[i]
    <3>1. i \in 0 .. n
      BY <2>4, <2>5
    <3> QED
      BY <3>1
  <2>12. g[j] = x \o y
    BY <1>2, <2>7, <2>9, <2>10 DEF FlattenedBy
  <2>13. Len(x \o y) = Len(x) + Len(y) /\ \A p \in 1 .. Len(x) : (x \o y)[p] = x[p]
    <3>1. /\ Len(x \o y) = Len(x) + Len(y)
          /\ \A p \in 1 .. (Len(x) + Len(y)) : (x \o y)[p] = IF p <= Len(x) THEN x[p] ELSE y[p - Len(x)]
      BY ConcatProperties
    <3>2. Len(x) \in Nat /\ Len(y) \in Nat
      OBVIOUS
    <3> QED
      BY <3>1, <3>2
  <2>14. Len(w) <= Len(x) /\ \A p \in 1 .. Len(w) : x[p] = w[p]
    BY <2>8, <2>9, <2>11
  <2>15. Len(w) \in Nat /\ Len(x) \in Nat /\ Len(y) \in Nat
    OBVIOUS
  <2>16. Len(w) <= Len(x \o y)
    BY <2>13, <2>14, <2>15
  <2>17. \A p \in 1 .. Len(w) : (x \o y)[p] = w[p]
    BY <2>13, <2>14, <2>15
  <2> QED
    BY <2>5, <2>11, <2>12, <2>16, <2>17
<1>4. \A i \in 0 .. n : Prefix(i, n)
  <2>1. n \in 0 .. n
    OBVIOUS
  <2> QED
    BY <1>3, <2>1
<1> QED
  BY <1>2, <1>4 DEF Flattens

\* A flattened list of texts is a text.
LEMMA FlattenIsText ==
  ASSUME NEW S, NEW texts \in Seq(Seq(S))
  PROVE  FlattenSeq(texts) \in Seq(S)
<1>1. PICK n \in Nat : n = Len(texts)
  OBVIOUS
<1>2. PICK g : Flattens(S, texts, n, g)
  BY <1>1, FlattenPrefixes
<1>3. n \in 0 .. n
  OBVIOUS
<1> QED
  BY <1>2, <1>3 DEF Flattens, FlattenedBy

\* Two texts, one behind the other.
LEMMA Concatenated ==
  ASSUME NEW S, NEW x \in Seq(S), NEW y \in Seq(S)
  PROVE  /\ x \o y \in Seq(S) /\ Len(x \o y) = Len(x) + Len(y)
         /\ Len(x) \in Nat /\ Len(y) \in Nat
         /\ \A p \in 1 .. Len(x) : (x \o y)[p] = x[p]
         /\ \A p \in 1 .. Len(y) : (x \o y)[Len(x) + p] = y[p]
<1>1. Len(x) \in Nat /\ Len(y) \in Nat
  OBVIOUS
<1>2. x \o y \in Seq(S) /\ Len(x \o y) = Len(x) + Len(y)
  BY ConcatProperties
<1>3. \A p \in 1 .. (Len(x) + Len(y)) : (x \o y)[p] = IF p <= Len(x) THEN x[p] ELSE y[p - Len(x)]
  BY ConcatProperties
<1>4. \A p \in 1 .. Len(x) : (x \o y)[p] = x[p]
  BY <1>1, <1>3
<1>5. ASSUME NEW p \in 1 .. Len(y) PROVE (x \o y)[Len(x) + p] = y[p]
  <2>1. Len(x) + p \in 1 .. (Len(x) + Len(y)) /\ ~(Len(x) + p <= Len(x)) /\ (Len(x) + p) - Len(x) = p
    BY <1>1
  <2> QED
    BY <1>3, <2>1
<1> QED
  BY <1>1, <1>2, <1>4, <1>5

\* How many characters a field's line has, and that the text holds that line behind o.
LineLength(f) == Len(f.name) + Len(f.value) + 3
LineBehind(t, o, f) ==
  /\ \A p \in 1 .. Len(f.name) : t[o + p] = f.name[p]
  /\ t[o + Len(f.name) + 1] = ":"
  /\ \A p \in 1 .. Len(f.value) : t[o + Len(f.name) + 1 + p] = f.value[p]
  /\ t[o + Len(f.name) + Len(f.value) + 2] = "cr"
  /\ t[o + Len(f.name) + Len(f.value) + 3] = "lf"

\* The text of a message: off[i] characters for the first i fields, an empty line, the body.
IsMessage(t, fields, body, n, off) ==
  /\ t \in Seq(Chars) /\ n \in Nat /\ n = Len(fields)
  /\ off \in [0 .. n -> Nat] /\ off[0] = 0
  /\ \A i \in 1 .. n : off[i] = off[i - 1] + LineLength(fields[i])
  /\ \A i \in 1 .. n : LineBehind(t, off[i - 1], fields[i])
  /\ t[off[n] + 1] = "cr" /\ t[off[n] + 2] = "lf"
  /\ Len(t) = off[n] + 2 + Len(body)
  /\ \A p \in 1 .. Len(body) : t[off[n] + 2 + p] = body[p]

\* What Line writes.
LEMMA LineParts ==
  ASSUME NEW f \in Fields, NEW l, l = Line(f, <<"cr", "lf">>)
  PROVE  l \in Seq(Chars) /\ Len(l) = LineLength(f) /\ LineBehind(l, 0, f)
<1>1. PICK nm \in Seq(Chars) : nm = f.name
  BY DEF Fields
<1>2. PICK v \in Seq(Chars) : v = f.value
  BY DEF Fields
<1>3. <<":">> \in Seq(Chars) /\ <<"cr", "lf">> \in Seq(Chars)
  BY DEF Chars, Breaks
<1>4. PICK c \in Seq(Chars) : c = <<":">> /\ Len(c) = 1 /\ c[1] = ":"
  BY <1>3
<1>5. PICK e \in Seq(Chars) : e = <<"cr", "lf">> /\ Len(e) = 2 /\ e[1] = "cr" /\ e[2] = "lf"
  BY <1>3
<1>6. PICK x \in Seq(Chars) : /\ x = nm \o c /\ Len(x) = Len(nm) + 1 /\ x[Len(nm) + 1] = ":"
                              /\ \A p \in 1 .. Len(nm) : x[p] = nm[p]
  <2>1. 1 \in 1 .. Len(c)
    BY <1>4
  <2>2. PICK x : x = nm \o c
    OBVIOUS
  <2>3. /\ nm \o c \in Seq(Chars) /\ Len(nm \o c) = Len(nm) + Len(c)
        /\ \A p \in 1 .. Len(nm) : (nm \o c)[p] = nm[p]
        /\ \A p \in 1 .. Len(c) : (nm \o c)[Len(nm) + p] = c[p]
    BY Concatenated
  <2>4. /\ x \in Seq(Chars) /\ Len(x) = Len(nm) + 1 /\ x[Len(nm) + 1] = ":"
        /\ \A p \in 1 .. Len(nm) : x[p] = nm[p]
    BY <1>4, <2>1, <2>2, <2>3
  <2> QED
    BY <2>2, <2>4
<1>7. PICK y \in Seq(Chars) : /\ y = x \o v /\ Len(y) = Len(nm) + Len(v) + 1
                              /\ \A p \in 1 .. Len(x) : y[p] = x[p]
                              /\ \A p \in 1 .. Len(v) : y[Len(nm) + 1 + p] = v[p]
  <2>1. /\ x \o v \in Seq(Chars) /\ Len(x \o v) = Len(x) + Len(v)
        /\ Len(x) \in Nat /\ Len(v) \in Nat /\ Len(nm) \in Nat
        /\ \A p \in 1 .. Len(x) : (x \o v)[p] = x[p]
        /\ \A p \in 1 .. Len(v) : (x \o v)[Len(x) + p] = v[p]
    BY Concatenated
  <2>2. Len(x \o v) = Len(nm) + Len(v) + 1
    BY <1>6, <2>1
  <2>3. PICK y : y = x \o v
    OBVIOUS
  <2>4. /\ y \in Seq(Chars) /\ Len(y) = Len(nm) + Len(v) + 1
        /\ \A p \in 1 .. Len(x) : y[p] = x[p]
        /\ \A p \in 1 .. Len(v) : y[Len(nm) + 1 + p] = v[p]
    BY <1>6, <2>1, <2>2, <2>3
  <2> QED
    BY <2>3, <2>4
<1>8. /\ l = y \o e
  BY <1>1, <1>2, <1>4, <1>5, <1>6, <1>7 DEF Line
<1>9. /\ l \in Seq(Chars) /\ Len(l) = Len(y) + 2
      /\ \A p \in 1 .. Len(y) : l[p] = y[p]
      /\ l[Len(y) + 1] = "cr" /\ l[Len(y) + 2] = "lf"
  <2>1. 1 \in 1 .. Len(e) /\ 2 \in 1 .. Len(e)
    BY <1>5
  <2>2. /\ y \o e \in Seq(Chars) /\ Len(y \o e) = Len(y) + Len(e)
        /\ \A p \in 1 .. Len(y) : (y \o e)[p] = y[p]
        /\ \A p \in 1 .. Len(e) : (y \o e)[Len(y) + p] = e[p]
    BY Concatenated
  <2> QED
    BY <1>5, <1>8, <2>1, <2>2
<1>10. PICK a \in Nat : a = Len(nm)
  OBVIOUS
<1>11. PICK b \in Nat : b = Len(v)
  OBVIOUS
<1>12. Len(x) = a + 1 /\ Len(y) = a + b + 1
  BY <1>6, <1>7, <1>10, <1>11
<1>13. Len(l) = a + b + 3 /\ l[0 + a + b + 2] = "cr" /\ l[0 + a + b + 3] = "lf"
  <2>1. (a + b + 1) + 2 = a + b + 3 /\ (a + b + 1) + 1 = 0 + a + b + 2 /\ (a + b + 1) + 2 = 0 + a + b + 3
    OBVIOUS
  <2> QED
    BY <1>9, <1>12, <2>1
<1>14. \A p \in 1 .. a : l[0 + p] = nm[p]
  <2> SUFFICES ASSUME NEW p \in 1 .. a PROVE l[0 + p] = nm[p]
    OBVIOUS
  <2>1. p \in 1 .. (a + 1) /\ p \in 1 .. (a + b + 1) /\ 0 + p = p
    OBVIOUS
  <2> QED
    BY <1>6, <1>7, <1>9, <1>10, <1>12, <2>1
<1>15. l[0 + a + 1] = ":"
  <2>1. a + 1 \in 1 .. (a + 1) /\ a + 1 \in 1 .. (a + b + 1) /\ 0 + a + 1 = a + 1
    OBVIOUS
  <2> QED
    BY <1>6, <1>7, <1>9, <1>10, <1>12, <2>1
<1>16. \A p \in 1 .. b : l[0 + a + 1 + p] = v[p]
  <2> SUFFICES ASSUME NEW p \in 1 .. b PROVE l[0 + a + 1 + p] = v[p]
    OBVIOUS
  <2>1. a + 1 + p \in 1 .. (a + b + 1) /\ 0 + a + 1 + p = a + 1 + p
    OBVIOUS
  <2>2. y[a + 1 + p] = v[p]
    BY <1>7, <1>10, <1>11
  <2>3. l[a + 1 + p] = y[a + 1 + p]
    BY <1>9, <1>12, <2>1
  <2> QED
    BY <2>1, <2>2, <2>3
<1> QED
  BY <1>1, <1>2, <1>9, <1>10, <1>11, <1>13, <1>14, <1>15, <1>16 DEF LineLength, LineBehind

\* A line inside a text.
LEMMA LineInside ==
  ASSUME NEW f \in Fields, NEW l, LineBehind(l, 0, f), NEW t, NEW o \in Nat,
         \A p \in 1 .. LineLength(f) : t[o + p] = l[p]
  PROVE  LineBehind(t, o, f)
<1>1. PICK a \in Nat : a = Len(f.name)
  BY DEF Fields
<1>2. PICK b \in Nat : b = Len(f.value)
  BY DEF Fields
<1>3. \A p \in 1 .. (a + b + 3) : t[o + p] = l[p]
  BY <1>1, <1>2 DEF LineLength
<1>4. \A p \in 1 .. a : t[o + p] = f.name[p]
  <2>1. \A p \in 1 .. a : l[0 + p] = f.name[p]
    BY <1>1 DEF LineBehind
  <2> QED
    BY <1>3, <2>1
<1>5. t[o + a + 1] = ":"
  <2>1. l[0 + a + 1] = ":"
    BY <1>1 DEF LineBehind
  <2>2. t[o + (a + 1)] = l[a + 1]
    BY <1>3
  <2> QED
    BY <2>1, <2>2
<1>6. \A p \in 1 .. b : t[o + a + 1 + p] = f.value[p]
  <2> SUFFICES ASSUME NEW p \in 1 .. b PROVE t[o + a + 1 + p] = f.value[p]
    OBVIOUS
  <2>1. l[0 + a + 1 + p] = f.value[p]
    BY <1>1, <1>2 DEF LineBehind
  <2>2. t[o + (a + 1 + p)] = l[a + 1 + p]
    BY <1>3
  <2>3. o + (a + 1 + p) = o + a + 1 + p /\ 0 + a + 1 + p = a + 1 + p
    OBVIOUS
  <2> QED
    BY <2>1, <2>2, <2>3
<1>7. t[o + a + b + 2] = "cr" /\ t[o + a + b + 3] = "lf"
  <2>1. l[0 + a + b + 2] = "cr" /\ l[0 + a + b + 3] = "lf"
    BY <1>1, <1>2 DEF LineBehind
  <2>2. t[o + (a + b + 2)] = l[a + b + 2] /\ t[o + (a + b + 3)] = l[a + b + 3]
    BY <1>3
  <2> QED
    BY <2>1, <2>2
<1> QED
  BY <1>1, <1>2, <1>4, <1>5, <1>6, <1>7 DEF LineBehind

\* Text writes such a text.
LEMMA TextIsMessage ==
  ASSUME NEW fields \in Seq(Fields), NEW body \in Seq(Chars), NEW n, n = Len(fields),
         NEW t, t = Text(fields, <<"cr", "lf">>, body)
  PROVE  \E off : IsMessage(t, fields, body, n, off)
<1>1. n \in Nat /\ DOMAIN fields = 1 .. n /\ \A i \in 1 .. n : fields[i] \in Fields
  BY ElementOfSeq
<1>2. PICK texts : texts = [i \in 1 .. n |-> Line(fields[i], <<"cr", "lf">>)]
  OBVIOUS
<1>3. texts \in Seq(Seq(Chars)) /\ Len(texts) = n
  <2>1. texts \in [1 .. n -> Seq(Chars)]
    BY <1>1, <1>2, LineParts
  <2> QED
    BY <1>1, <2>1, SeqDef
<1>4. PICK g \in [0 .. n -> Seq(Chars)] :
        /\ FlattenedBy(texts, n, g)
        /\ \A i \in 0 .. n : /\ Len(g[i]) <= Len(g[n])
                             /\ \A p \in 1 .. Len(g[i]) : g[n][p] = g[i][p]
  <2>1. \E g : Flattens(Chars, texts, n, g)
    BY <1>1, <1>3, FlattenPrefixes
  <2> QED
    BY <2>1 DEF Flattens
<1>5. PICK m \in Seq(Chars) : m = g[n]
  BY <1>1
<1>6. PICK e \in Seq(Chars) : e = <<"cr", "lf">>
  <2>1. <<"cr", "lf">> \in Seq(Chars)
    BY DEF Chars, Breaks
  <2> QED
    BY <2>1
<1>7. t = m \o e \o body
  BY <1>1, <1>2, <1>4, <1>5, <1>6 DEF Text, FlattenedBy
<1>8. Len(e) = 2 /\ e[1] = "cr" /\ e[2] = "lf"
  BY <1>6
<1>9. PICK off : off = [i \in 0 .. n |-> Len(g[i])]
  OBVIOUS
<1>10. off \in [0 .. n -> Nat] /\ off[0] = 0 /\ off[n] = Len(m)
  <2>1. g[0] = <<>>
    BY <1>4 DEF FlattenedBy
  <2>2. 0 \in 0 .. n /\ n \in 0 .. n
    BY <1>1
  <2>3. \A i \in 0 .. n : Len(g[i]) \in Nat
    BY <1>4
  <2> QED
    BY <1>5, <1>9, <2>1, <2>2, <2>3
<1>11. /\ t \in Seq(Chars) /\ Len(t) = Len(m) + 2 + Len(body)
       /\ t[Len(m) + 1] = "cr" /\ t[Len(m) + 2] = "lf"
       /\ \A p \in 1 .. Len(m) : t[p] = m[p]
       /\ \A p \in 1 .. Len(body) : t[Len(m) + 2 + p] = body[p]
  <2>1. /\ m \o e \in Seq(Chars) /\ Len(m \o e) = Len(m) + 2
        /\ (m \o e)[Len(m) + 1] = "cr" /\ (m \o e)[Len(m) + 2] = "lf"
        /\ \A p \in 1 .. Len(m) : (m \o e)[p] = m[p]
    <3>1. 1 \in 1 .. Len(e) /\ 2 \in 1 .. Len(e)
      BY <1>8
    <3>2. /\ m \o e \in Seq(Chars) /\ Len(m \o e) = Len(m) + Len(e)
          /\ \A p \in 1 .. Len(m) : (m \o e)[p] = m[p]
          /\ \A p \in 1 .. Len(e) : (m \o e)[Len(m) + p] = e[p]
      BY Concatenated
    <3> QED
      BY <1>8, <3>1, <3>2
  <2>2. PICK x \in Seq(Chars) : x = m \o e
    BY <2>1
  <2>3. t = x \o body
    BY <1>7, <2>2
  <2>4. Len(x) = Len(m) + 2 /\ Len(m) \in Nat
    BY <2>1, <2>2
  <2>5. /\ t \in Seq(Chars) /\ Len(t) = Len(x) + Len(body)
        /\ \A p \in 1 .. Len(x) : t[p] = x[p]
        /\ \A p \in 1 .. Len(body) : t[Len(x) + p] = body[p]
    <3>1. /\ x \o body \in Seq(Chars) /\ Len(x \o body) = Len(x) + Len(body)
          /\ \A p \in 1 .. Len(x) : (x \o body)[p] = x[p]
          /\ \A p \in 1 .. Len(body) : (x \o body)[Len(x) + p] = body[p]
      BY Concatenated
    <3> QED
      BY <2>3, <3>1
  <2>6. Len(m) + 1 \in 1 .. Len(x) /\ Len(m) + 2 \in 1 .. Len(x) /\ 1 .. Len(m) \subseteq 1 .. Len(x)
    BY <2>4
  <2> QED
    BY <2>1, <2>2, <2>4, <2>5, <2>6
<1>12. ASSUME NEW i \in 1 .. n
       PROVE  /\ off[i] = off[i - 1] + LineLength(fields[i])
              /\ LineBehind(t, off[i - 1], fields[i])
  <2>1. i \in 0 .. n /\ i - 1 \in 0 .. n
    BY <1>1
  <2>2. PICK x \in Seq(Chars) : x = g[i - 1]
    BY <2>1
  <2>3. PICK l : l = Line(fields[i], <<"cr", "lf">>)
    OBVIOUS
  <2>4. l \in Seq(Chars) /\ Len(l) = LineLength(fields[i]) /\ LineBehind(l, 0, fields[i])
    BY <1>1, <2>3, LineParts
  <2>5. g[i] = x \o l
    BY <1>2, <1>4, <2>2, <2>3 DEF FlattenedBy
  <2>6. Len(x \o l) = Len(x) + Len(l) /\ \A p \in 1 .. Len(l) : (x \o l)[Len(x) + p] = l[p]
    BY <2>4, Concatenated
  <2>7. off[i] = Len(x) + Len(l) /\ off[i - 1] = Len(x)
    BY <1>9, <2>1, <2>2, <2>5, <2>6
  <2>8. Len(x) + Len(l) <= Len(m) /\ \A p \in 1 .. (Len(x) + Len(l)) : m[p] = (x \o l)[p]
    BY <1>4, <1>5, <2>1, <2>5, <2>6
  <2>9. \A p \in 1 .. Len(l) : t[Len(x) + p] = l[p]
    <3>1. Len(x) \in Nat /\ Len(l) \in Nat /\ Len(m) \in Nat
      BY <2>4
    <3>2. \A p \in 1 .. Len(l) : Len(x) + p \in 1 .. (Len(x) + Len(l)) /\ Len(x) + p \in 1 .. Len(m)
      BY <2>8, <3>1
    <3> QED
      BY <1>11, <2>6, <2>8, <3>2
  <2>10. Len(x) \in Nat /\ fields[i] \in Fields
    BY <1>1
  <2>11. LineBehind(t, Len(x), fields[i])
    BY <2>4, <2>9, <2>10, LineInside
  <2> QED
    BY <2>4, <2>7, <2>11
<1>13. IsMessage(t, fields, body, n, off)
  BY <1>1, <1>10, <1>11, <1>12 DEF IsMessage
<1> QED
  BY <1>13

\* Where a text breaks.
LineFeeds(t) == {i \in DOMAIN t : t[i] = "lf"}

\* A field whose name is one and whose line feeds are folds.
Readable(f) == f \in Fields /\ HeaderName(f.name) /\ FoldsOnly(f.value)

\* A place behind a + 1 by its distance.
DistanceBehind(a, b, o, q) ==
  \E r \in 1 .. b : /\ q = a + 1 + r
                    /\ o + q = o + a + 1 + r /\ o + q + 1 = o + a + 1 + (r + 1)

\* There is one.
LEMMA Distance ==
  ASSUME NEW a \in Nat, NEW b \in Nat, NEW o \in Nat, NEW q \in Int, q > a + 1, q < a + b + 2
  PROVE  DistanceBehind(a, b, o, q)
<1>1. PICK r : r = q - (a + 1)
  OBVIOUS
<1>2. r \in 1 .. b /\ q = a + 1 + r
  BY <1>1
<1> QED
  BY <1>2 DEF DistanceBehind

\* The line of a field that can be read back: it starts with a character of the name, and
\* each line feed but the last is a fold in the value.
ReadableLine(t, o, a, L) ==
  /\ a \in Nat /\ a >= 1 /\ L \in Nat /\ L >= a + 3
  /\ \A q \in 1 .. a : t[o + q] \in NameChars
  /\ t[o + a + 1] = ":" /\ t[o + L - 1] = "cr" /\ t[o + L] = "lf"
  /\ \A q \in 1 .. (L - 1) : t[o + q] = "lf" => /\ q > a + 1 /\ q + 2 < L
                                                /\ t[o + q + 1] \in Blanks

\* A field that can be read back has such a line.
LEMMA LineShape ==
  ASSUME NEW f, Readable(f), NEW t, NEW o \in Nat, LineBehind(t, o, f), NEW L, L = LineLength(f),
         NEW a, a = Len(f.name)
  PROVE  ReadableLine(t, o, a, L)
<1>1. PICK b \in Nat : b = Len(f.value) /\ DOMAIN f.value = 1 .. b
  BY DEF Readable, Fields
<1>2. a \in Nat /\ DOMAIN f.name = 1 .. a /\ f.name \in Seq(Chars)
  BY DEF Readable, Fields
<1>3. a # 0
  BY <1>2 DEF Readable, HeaderName
<1>4. L = a + b + 3
  BY <1>1 DEF LineLength
<1>5. \A q \in 1 .. a : t[o + q] \in NameChars
  <2>1. \A q \in 1 .. a : f.name[q] \in NameChars
    BY <1>2 DEF Readable, HeaderName
  <2>2. \A q \in 1 .. a : t[o + q] = f.name[q]
    BY DEF LineBehind
  <2> QED
    BY <2>1, <2>2
<1>6. t[o + a + 1] = ":"
  BY DEF LineBehind
<1>7. \A q \in 1 .. b : t[o + a + 1 + q] = f.value[q]
  BY <1>1 DEF LineBehind
<1>8. t[o + a + b + 2] = "cr" /\ t[o + a + b + 3] = "lf"
  BY <1>1 DEF LineBehind
<1>9. t[o + L - 1] = "cr" /\ t[o + L] = "lf"
  <2>1. o + L - 1 = o + a + b + 2 /\ o + L = o + a + b + 3
    BY <1>2, <1>4
  <2> QED
    BY <1>8, <2>1
<1>10. ASSUME NEW q \in 1 .. (L - 1), t[o + q] = "lf"
       PROVE  q > a + 1 /\ q + 2 < L /\ t[o + q + 1] \in Blanks
  <2>1. q \notin 1 .. a
    BY <1>5, <1>10 DEF NameChars
  <2>2. q # a + 1
    BY <1>2, <1>6, <1>10
  <2>3. q # a + b + 2
    BY <1>2, <1>8, <1>10
  <2>4. q > a + 1 /\ q < a + b + 2
    BY <1>2, <1>4, <2>1, <2>2, <2>3
  <2>5. L \in Int
    BY <1>2, <1>4
  <2>6. q \in Int /\ a \in Int /\ b \in Int /\ o \in Int
    BY <1>2, <2>5
  <2>7. PICK r \in 1 .. b : /\ q = a + 1 + r
                            /\ o + q = o + a + 1 + r /\ o + q + 1 = o + a + 1 + (r + 1)
    <3>1. DistanceBehind(a, b, o, q)
      BY <1>2, <2>4, <2>6, Distance
    <3> QED
      BY <3>1 DEF DistanceBehind
  <2>8. o + q = o + a + 1 + r /\ o + q + 1 = o + a + 1 + (r + 1)
    BY <2>7
  <2>9. f.value[r] = "lf"
    BY <1>7, <1>10, <2>8
  <2>10. r < b /\ f.value[r + 1] \in Blanks
    BY <1>1, <2>9 DEF Readable, FoldsOnly
  <2>11. r + 1 \in 1 .. b
    BY <2>10
  <2>12. t[o + q + 1] \in Blanks
    <3>1. t[o + a + 1 + (r + 1)] = f.value[r + 1]
      BY <1>7, <2>11
    <3> QED
      BY <2>8, <2>10, <3>1
  <2>13. q + 2 < L
    BY <1>2, <1>4, <2>7, <2>10
  <2> QED
    BY <2>4, <2>12, <2>13
<1>11. L \in Nat /\ a >= 1 /\ L >= a + 3
  BY <1>2, <1>3, <1>4
<1> QED
  BY <1>2, <1>5, <1>6, <1>9, <1>10, <1>11 DEF ReadableLine

\* A message whose fields can all be read back.
IsReadable(t, fields, body, n, off) ==
  IsMessage(t, fields, body, n, off) /\ \A i \in 1 .. n : Readable(fields[i])

\* The lines of the fields follow each other.
LEMMA OffsetsGrow ==
  ASSUME NEW t, NEW fields, NEW body, NEW n, NEW off, IsReadable(t, fields, body, n, off)
  PROVE  /\ n \in Nat /\ \A i \in 0 .. n : off[i] \in Nat
         /\ \A i \in 1 .. n : off[i] = off[i - 1] + LineLength(fields[i]) /\ off[i - 1] + 4 <= off[i]
         /\ \A i, j \in 0 .. n : i < j => off[i] + 4 <= off[j]
         /\ \A s \in 1 .. off[n] : \E i \in 1 .. n : off[i - 1] < s /\ s <= off[i]
<1>1. n \in Nat /\ off[0] = 0
  BY DEF IsReadable, IsMessage
<1>2. \A i \in 0 .. n : off[i] \in Nat
  BY DEF IsReadable, IsMessage
<1>3. ASSUME NEW i \in 1 .. n
      PROVE  off[i] = off[i - 1] + LineLength(fields[i]) /\ off[i - 1] + 4 <= off[i]
  <2>1. off[i] = off[i - 1] + LineLength(fields[i])
    BY DEF IsReadable, IsMessage
  <2>2. i - 1 \in 0 .. n
    BY <1>1
  <2>3. PICK o \in Nat : o = off[i - 1]
    BY <1>2, <2>2
  <2>4. Readable(fields[i]) /\ LineBehind(t, o, fields[i])
    BY <2>3 DEF IsReadable, IsMessage
  <2>5. PICK a : a = Len(fields[i].name)
    OBVIOUS
  <2>6. PICK L : L = LineLength(fields[i])
    OBVIOUS
  <2>7. a \in Nat /\ a >= 1 /\ L \in Nat /\ L >= a + 3
    BY <2>4, <2>5, <2>6, LineShape DEF ReadableLine
  <2> QED
    BY <2>1, <2>3, <2>6, <2>7
<1>4. \A i, j \in 0 .. n : i < j => off[i] + 4 <= off[j]
  <2> DEFINE B == {j \in 0 .. n : \E i \in 0 .. n : i < j /\ ~(off[i] + 4 <= off[j])}
  <2>1. SUFFICES ASSUME B # {}
                 PROVE  FALSE
    OBVIOUS
  <2>2. B \subseteq Nat
    OBVIOUS
  <2>3. PICK j \in B : \A l \in B : j <= l
    <3> HIDE DEF B
    <3> QED
      BY <2>1, <2>2, SmallestNumber
  <2>4. j \in 0 .. n
    OBVIOUS
  <2>5. PICK i \in 0 .. n : i < j /\ ~(off[i] + 4 <= off[j])
    OBVIOUS
  <2>6. j \in 1 .. n /\ j - 1 \in 0 .. n /\ ~(j <= j - 1)
    BY <1>1, <2>4, <2>5
  <2>7. off[j - 1] + 4 <= off[j]
    BY <1>3, <2>6
  <2>8. i # j - 1
    BY <2>5, <2>7
  <2>9. i < j - 1
    BY <2>4, <2>5, <2>8
  <2>10. off[i] + 4 <= off[j - 1]
    <3>1. j - 1 \notin B
      <4> HIDE DEF B
      <4> QED
        BY <2>3, <2>6
    <3> QED
      BY <2>6, <2>9, <3>1
  <2>11. off[i] \in Nat /\ off[j - 1] \in Nat /\ off[j] \in Nat
    BY <1>2, <2>4, <2>6
  <2> QED
    BY <2>5, <2>7, <2>10, <2>11
<1>5. ASSUME NEW s \in 1 .. off[n] PROVE \E i \in 1 .. n : off[i - 1] < s /\ s <= off[i]
  <2> DEFINE B == {i \in 0 .. n : s <= off[i]}
  <2>1. n \in B
    BY <1>1, <1>2
  <2>2. B \subseteq Nat
    OBVIOUS
  <2>3. PICK i \in B : \A l \in B : i <= l
    <3> HIDE DEF B
    <3> QED
      BY <2>1, <2>2, SmallestNumber
  <2>4. i \in 0 .. n /\ s <= off[i]
    OBVIOUS
  <2>5. i # 0
    BY <1>1, <2>4
  <2>6. i \in 1 .. n /\ i - 1 \in 0 .. n /\ ~(i <= i - 1)
    BY <1>1, <2>4, <2>5
  <2>7. i - 1 \notin B
    <3> HIDE DEF B
    <3> QED
      BY <2>3, <2>6
  <2>8. ~(s <= off[i - 1])
    BY <2>6, <2>7
  <2>9. off[i - 1] \in Nat /\ s \in Nat
    BY <1>1, <1>2, <2>6
  <2>10. off[i - 1] < s
    BY <2>8, <2>9
  <2> QED
    BY <2>4, <2>6, <2>10
<1> QED
  BY <1>1, <1>2, <1>3, <1>4, <1>5

\* The line feeds of the header: one ends each field's line, the others are folds.
LEMMA MessageFeeds ==
  ASSUME NEW t, NEW fields, NEW body, NEW n, NEW off, IsReadable(t, fields, body, n, off),
         NEW p \in 1 .. off[n], t[p] = "lf"
  PROVE  (\E i \in 1 .. n : p = off[i]) \/ (p + 2 < off[n] /\ t[p + 1] \in Blanks)
<1>1. /\ n \in Nat /\ \A i \in 0 .. n : off[i] \in Nat
      /\ \A i \in 1 .. n : off[i] = off[i - 1] + LineLength(fields[i]) /\ off[i - 1] + 4 <= off[i]
      /\ \A i, j \in 0 .. n : i < j => off[i] + 4 <= off[j]
      /\ \A s \in 1 .. off[n] : \E i \in 1 .. n : off[i - 1] < s /\ s <= off[i]
  BY OffsetsGrow
<1>2. PICK i \in 1 .. n : off[i - 1] < p /\ p <= off[i]
  BY <1>1
<1>3. SUFFICES ASSUME p # off[i]
               PROVE  p + 2 < off[n] /\ t[p + 1] \in Blanks
  OBVIOUS
<1>4. i - 1 \in 0 .. n /\ i \in 0 .. n /\ n \in 0 .. n
  BY <1>1
<1>5. PICK o \in Nat : o = off[i - 1]
  BY <1>1, <1>4
<1>6. PICK L : L = LineLength(fields[i])
  OBVIOUS
<1>7. PICK a : a = Len(fields[i].name)
  OBVIOUS
<1>8. Readable(fields[i]) /\ LineBehind(t, o, fields[i])
  BY <1>5 DEF IsReadable, IsMessage
<1>9. /\ a \in Nat /\ L \in Nat
      /\ \A q \in 1 .. (L - 1) : t[o + q] = "lf" => /\ q > a + 1 /\ q + 2 < L
                                                    /\ t[o + q + 1] \in Blanks
  <2>1. PICK f : f = fields[i]
    OBVIOUS
  <2>2. Readable(f) /\ LineBehind(t, o, f) /\ L = LineLength(f) /\ a = Len(f.name)
    BY <1>6, <1>7, <1>8, <2>1
  <2> QED
    BY <2>2, LineShape DEF ReadableLine
<1>10. off[i] = o + L
  BY <1>1, <1>5, <1>6
<1>11. p \in Nat
  BY <1>1, <1>4
<1>12. PICK q \in 1 .. (L - 1) : p = o + q
  <2>1. p - o \in 1 .. (L - 1) /\ p = o + (p - o)
    BY <1>2, <1>3, <1>5, <1>9, <1>10, <1>11
  <2> QED
    BY <2>1
<1>13. q + 2 < L /\ t[o + q + 1] \in Blanks
  BY <1>9, <1>12
<1>14. p + 2 < off[i]
  BY <1>9, <1>10, <1>12, <1>13
<1>15. off[i] <= off[n]
  <2>1. i = n \/ i < n
    BY <1>1
  <2> QED
    BY <1>1, <1>4, <2>1
<1>16. off[i] \in Nat /\ off[n] \in Nat
  BY <1>1, <1>4
<1>17. p + 2 < off[n]
  BY <1>11, <1>14, <1>15, <1>16
<1> QED
  BY <1>12, <1>13, <1>17

\* The lines of a text: ends holds its line feeds in order, and each line starts where the
\* one before it ended and has no line feed but its last character.
LineFacts(t, N, K, ends, lines) ==
  /\ N \in Nat /\ K \in Nat /\ Len(lines) = K
  /\ \A k \in 1 .. K : ends[k] \in 1 .. N /\ t[ends[k]] = "lf"
  /\ \A p \in 1 .. N : t[p] = "lf" => \E k \in 1 .. K : ends[k] = p
  /\ \A k, l \in 1 .. K : k < l => ends[k] < ends[l]
  /\ \A k \in 1 .. K : /\ lines[k].start = (IF k = 1 THEN 1 ELSE ends[k - 1] + 1)
                       /\ lines[k].last = ContentEnd(t, lines[k].start, ends[k])
                       /\ lines[k].next = ends[k] + 1
                       /\ lines[k].start \in 1 .. ends[k] /\ lines[k].last \in 0 .. N
  /\ \A k, l \in 1 .. K : k < l => lines[k].start < lines[l].start
  /\ \A k \in 1 .. K, p \in 1 .. N : t[p] = "lf" /\ lines[k].start <= p => ends[k] <= p

\* The lines of a text are what they are called.
LEMMA LinesOf ==
  ASSUME NEW t \in Seq(Chars), NEW N, N = Len(t), NEW ends, ends = LineEnds(t),
         NEW K, K = Len(ends), NEW lines, lines = Lines(t)
  PROVE  LineFacts(t, N, K, ends, lines)
<1>1. N \in Nat /\ DOMAIN t = 1 .. N
  OBVIOUS
<1>2. PICK E : E = LineFeeds(t)
  OBVIOUS
<1>3. E \subseteq 1 .. N /\ \A p \in 1 .. N : p \in E <=> t[p] = "lf"
  BY <1>1, <1>2 DEF LineFeeds
<1>4. IsFiniteSet(E) /\ E \subseteq Int
  <2>1. IsFiniteSet(1 .. N)
    BY <1>1, FS_Interval
  <2>2. IsFiniteSet(E)
    BY <1>3, <2>1, FS_Subset
  <2>3. E \subseteq Int
    BY <1>1, <1>3
  <2> QED
    BY <2>2, <2>3
<1>5. ends = Ascending(E)
  BY <1>2 DEF LineEnds, LineFeeds
<1>6. /\ Cardinality(E) \in Nat /\ ends \in Seq(E) /\ Len(ends) = Cardinality(E)
      /\ \A k \in 1 .. Cardinality(E) : ends[k] \in E
      /\ \A k, l \in 1 .. Cardinality(E) : k < l => ends[k] < ends[l]
      /\ \A p \in E : Rank(E, p) \in 1 .. Cardinality(E) /\ ends[Rank(E, p)] = p
  BY <1>4, <1>5, AscendingOK
<1>7. /\ K \in Nat /\ DOMAIN ends = 1 .. K
      /\ \A k \in 1 .. K : ends[k] \in E /\ ends[k] \in 1 .. N /\ t[ends[k]] = "lf"
      /\ \A p \in 1 .. N : t[p] = "lf" => \E k \in 1 .. K : ends[k] = p
      /\ \A k, l \in 1 .. K : k < l => ends[k] < ends[l]
  <2>1. K \in Nat /\ DOMAIN ends = 1 .. K /\ K = Cardinality(E)
    BY <1>6
  <2>2. \A k \in 1 .. K : ends[k] \in E
    BY <1>6, <2>1
  <2>3. \A k \in 1 .. K : ends[k] \in 1 .. N /\ t[ends[k]] = "lf"
    BY <1>3, <2>2
  <2>4. \A p \in 1 .. N : t[p] = "lf" => \E k \in 1 .. K : ends[k] = p
    BY <1>3, <1>6, <2>1
  <2> QED
    BY <1>6, <2>1, <2>2, <2>3, <2>4
<1>8. Len(lines) = K /\ \A k \in 1 .. K :
        /\ lines[k].start = (IF k = 1 THEN 1 ELSE ends[k - 1] + 1)
        /\ lines[k].last = ContentEnd(t, lines[k].start, ends[k])
        /\ lines[k].next = ends[k] + 1
  <2> DEFINE start(k) == IF k = 1 THEN 1 ELSE ends[k - 1] + 1
             line(k) == [start |-> start(k), last |-> ContentEnd(t, start(k), ends[k]),
                         next |-> ends[k] + 1]
  <2>1. lines = [k \in 1 .. K |-> line(k)]
    BY <1>7 DEF Lines
  <2>2. \A k \in 1 .. K : lines[k] = line(k)
    BY <2>1
  <2>3. Len(lines) = K
    <3> HIDE DEF line
    <3> QED
      BY <1>7, <2>1
  <2>4. ASSUME NEW k \in 1 .. K
        PROVE  /\ line(k).start = start(k) /\ line(k).last = ContentEnd(t, start(k), ends[k])
               /\ line(k).next = ends[k] + 1
    <3> HIDE DEF start
    <3> QED
      OBVIOUS
  <2>5. ASSUME NEW k \in 1 .. K
        PROVE  /\ lines[k].start = start(k) /\ lines[k].last = ContentEnd(t, lines[k].start, ends[k])
               /\ lines[k].next = ends[k] + 1
    <3> HIDE DEF start, line
    <3> QED
      BY <2>2, <2>4
  <2> HIDE DEF line
  <2> QED
    BY <2>3, <2>5
<1>9. ASSUME NEW k \in 1 .. K
      PROVE  lines[k].start \in 1 .. ends[k] /\ lines[k].last \in 0 .. N
  <2>1. ends[k] \in 1 .. N
    BY <1>7
  <2>2. lines[k].start \in 1 .. ends[k]
    <3>1. CASE k = 1
      BY <1>8, <2>1, <3>1
    <3>2. CASE k # 1
      <4>1. k - 1 \in 1 .. K /\ k - 1 < k
        BY <1>7, <3>2
      <4>2. ends[k - 1] \in 1 .. N /\ ends[k - 1] < ends[k]
        BY <1>7, <4>1
      <4>3. lines[k].start = ends[k - 1] + 1
        BY <1>8, <3>2
      <4> QED
        BY <1>1, <2>1, <4>2, <4>3
    <3> QED
      BY <3>1, <3>2
  <2>3. PICK s : s = lines[k].start
    OBVIOUS
  <2>4. ContentEnd(t, s, ends[k]) \in 0 .. N
    BY <1>1, <2>1, <2>2, <2>3 DEF ContentEnd
  <2>5. lines[k].last = ContentEnd(t, s, ends[k])
    BY <1>8, <2>3
  <2> QED
    BY <2>2, <2>4, <2>5
<1>10. ASSUME NEW k \in 1 .. K, NEW l \in 1 .. K, k < l
       PROVE  ends[k] < lines[l].start /\ lines[k].start < lines[l].start
  <2>1. l # 1 /\ l - 1 \in 1 .. K /\ (k = l - 1 \/ k < l - 1)
    BY <1>7, <1>10
  <2>2. lines[l].start = ends[l - 1] + 1
    BY <1>8, <2>1
  <2>3. ends[k] \in 1 .. N /\ ends[l - 1] \in 1 .. N /\ ends[k] <= ends[l - 1]
    BY <1>7, <2>1
  <2>4. lines[k].start \in 1 .. ends[k]
    BY <1>9
  <2>5. ends[k] < lines[l].start
    BY <1>1, <2>2, <2>3
  <2>6. lines[k].start < lines[l].start
    BY <1>1, <2>2, <2>3, <2>4
  <2> QED
    BY <2>5, <2>6
<1>11. ASSUME NEW k \in 1 .. K, NEW p \in 1 .. N, t[p] = "lf", lines[k].start <= p
       PROVE  ends[k] <= p
  <2>1. PICK l \in 1 .. K : ends[l] = p
    BY <1>7, <1>11
  <2>2. ~(l < k)
    <3>1. SUFFICES ASSUME l < k PROVE FALSE
      OBVIOUS
    <3>2. p < lines[k].start
      BY <1>10, <2>1, <3>1
    <3>3. ends[k] \in 1 .. N /\ lines[k].start \in 1 .. ends[k]
      BY <1>7, <1>9
    <3> QED
      BY <1>1, <1>11, <3>2, <3>3
  <2>3. l = k \/ k < l
    BY <1>7, <2>2
  <2>4. ends[k] \in Int /\ ends[l] \in Int
    BY <1>1, <1>7
  <2> QED
    BY <1>7, <2>1, <2>3, <2>4
<1> QED
  BY <1>1, <1>7, <1>8, <1>9, <1>10, <1>11 DEF LineFacts

\* A line starts at the start of the text and behind each line feed, if one follows.
LEMMA LineStartingAt ==
  ASSUME NEW t, NEW N, NEW K, NEW ends, NEW lines, LineFacts(t, N, K, ends, lines),
         NEW s \in 1 .. N, s = 1 \/ t[s - 1] = "lf", NEW p \in s .. N, t[p] = "lf"
  PROVE  \E k \in 1 .. K : lines[k].start = s
<1>1. N \in Nat /\ K \in Nat
  BY DEF LineFacts
<1>2. p \in 1 .. N
  BY <1>1
<1>3. PICK l \in 1 .. K : ends[l] = p
  BY <1>2 DEF LineFacts
<1>4. CASE s = 1
  <2>1. 1 \in 1 .. K
    BY <1>1, <1>3
  <2>2. lines[1].start = 1
    BY <2>1 DEF LineFacts
  <2> QED
    BY <1>4, <2>1, <2>2
<1>5. CASE s # 1
  <2>1. s - 1 \in 1 .. N /\ t[s - 1] = "lf"
    BY <1>1, <1>5
  <2>2. PICK j \in 1 .. K : ends[j] = s - 1
    BY <2>1 DEF LineFacts
  <2>3. ~(l < j) /\ l # j
    <3>1. s - 1 < p /\ s \in Int /\ p \in Int
      BY <1>1
    <3>2. l < j => p < s - 1
      BY <1>3, <2>2 DEF LineFacts
    <3> QED
      BY <1>3, <2>2, <3>1, <3>2
  <2>4. j + 1 \in 1 .. K /\ j + 1 # 1 /\ (j + 1) - 1 = j
    BY <1>1, <2>3
  <2>5. lines[j + 1].start = ends[j] + 1
    BY <2>4 DEF LineFacts
  <2>6. ends[j] + 1 = s
    BY <1>1, <2>2
  <2> QED
    BY <2>4, <2>5, <2>6
<1> QED
  BY <1>4, <1>5

\* The lines of the header: num[i] is the number of the one behind the first i fields, the
\* last of them the empty one.  Only a field's first line starts with no blank.
HeaderLines(t, fields, n, off, lines, num) ==
  /\ \A i \in 0 .. n : num[i] \in Nat \ {0} /\ lines[num[i]].start = off[i] + 1
  /\ \A i, j \in 0 .. n : i < j => num[i] < num[j]
  /\ num[0] = 1 /\ num[n] <= Len(lines)
  /\ lines[num[n]].last < lines[num[n]].start /\ lines[num[n]].next = off[n] + 3
  /\ \A k \in 1 .. (num[n] - 1) :
       /\ lines[k].start <= lines[k].last
       /\ (\E i \in 0 .. (n - 1) : num[i] = k) \/ t[lines[k].start] \in Blanks
  /\ \A i \in 1 .. n : /\ off[i - 1] + Len(fields[i].name) + 1 <= lines[num[i - 1]].last
                       /\ lines[num[i] - 1].last = off[i] - 2

\* The lines of a message that can be read back are like that.
LEMMA HeaderLinesOK ==
  ASSUME NEW t, NEW fields, NEW body \in Seq(Chars), NEW n, NEW off,
         IsReadable(t, fields, body, n, off), NEW lines, lines = Lines(t)
  PROVE  \E num : HeaderLines(t, fields, n, off, lines, num)
<1>1. PICK N : N = Len(t)
  OBVIOUS
<1>2. PICK ends : ends = LineEnds(t)
  OBVIOUS
<1>3. PICK K : K = Len(ends)
  OBVIOUS
<1>4. LineFacts(t, N, K, ends, lines)
  BY <1>1, <1>2, <1>3, LinesOf DEF IsReadable, IsMessage
<1>5. /\ N \in Nat /\ K \in Nat /\ Len(lines) = K
      /\ \A k \in 1 .. K : ends[k] \in 1 .. N /\ t[ends[k]] = "lf"
      /\ \A k, l \in 1 .. K : k < l => ends[k] < ends[l]
      /\ \A k \in 1 .. K : /\ lines[k].start = (IF k = 1 THEN 1 ELSE ends[k - 1] + 1)
                           /\ lines[k].last = ContentEnd(t, lines[k].start, ends[k])
                           /\ lines[k].next = ends[k] + 1
                           /\ lines[k].start \in 1 .. ends[k] /\ lines[k].last \in 0 .. N
      /\ \A k, l \in 1 .. K : k < l => lines[k].start < lines[l].start
      /\ \A k \in 1 .. K, p \in 1 .. N : t[p] = "lf" /\ lines[k].start <= p => ends[k] <= p
  BY <1>4 DEF LineFacts
<1>6. K \in Nat
  BY <1>5
<1>7. /\ n \in Nat /\ \A i \in 0 .. n : off[i] \in Nat
      /\ \A i \in 1 .. n : off[i] = off[i - 1] + LineLength(fields[i]) /\ off[i - 1] + 4 <= off[i]
      /\ \A i, j \in 0 .. n : i < j => off[i] + 4 <= off[j]
  BY OffsetsGrow
<1>8. 0 \in 0 .. n /\ n \in 0 .. n /\ \A i \in 1 .. n : i \in 0 .. n /\ i - 1 \in 0 .. n
  BY <1>7
<1>9. PICK last \in Nat : last = off[n]
  BY <1>7, <1>8
<1>10. t[last + 1] = "cr" /\ t[last + 2] = "lf" /\ last + 2 <= N /\ off[0] = 0
  <2>1. Len(body) \in Nat /\ N = last + 2 + Len(body)
    BY <1>1, <1>9 DEF IsReadable, IsMessage
  <2> QED
    BY <1>5, <1>9, <2>1 DEF IsReadable, IsMessage
<1>11. \A i \in 0 .. n : off[i] <= last
  <2> SUFFICES ASSUME NEW i \in 0 .. n PROVE off[i] <= last
    OBVIOUS
  <2>1. i = n \/ i < n
    BY <1>7
  <2>2. off[i] \in Nat
    BY <1>7
  <2> QED
    BY <1>7, <1>8, <1>9, <2>1, <2>2
<1>12. ASSUME NEW i \in 1 .. n
       PROVE  LET o == off[i - 1]
                  a == Len(fields[i].name)
              IN /\ o \in Nat /\ a \in Nat /\ a >= 1 /\ o + a + 3 <= off[i]
                 /\ \A p \in (o + 1) .. (o + a) : t[p] \in NameChars
                 /\ t[o + a + 1] = ":" /\ t[off[i] - 1] = "cr" /\ t[off[i]] = "lf"
  <2>1. PICK o \in Nat : o = off[i - 1]
    BY <1>7, <1>8
  <2>2. PICK f : f = fields[i]
    OBVIOUS
  <2>3. PICK a : a = Len(f.name)
    OBVIOUS
  <2>4. PICK L : L = LineLength(f)
    OBVIOUS
  <2>5. Readable(f) /\ LineBehind(t, o, f)
    BY <2>1, <2>2 DEF IsReadable, IsMessage
  <2>6. /\ a \in Nat /\ a >= 1 /\ L \in Nat /\ L >= a + 3
        /\ \A q \in 1 .. a : t[o + q] \in NameChars
        /\ t[o + a + 1] = ":" /\ t[o + L - 1] = "cr" /\ t[o + L] = "lf"
    <3>1. ReadableLine(t, o, a, L)
      BY <2>3, <2>4, <2>5, LineShape
    <3> QED
      BY <3>1 DEF ReadableLine
  <2>7. off[i] = o + L
    BY <1>7, <2>1, <2>2, <2>4
  <2>8. ASSUME NEW p \in (o + 1) .. (o + a) PROVE t[p] \in NameChars
    <3>1. p - o \in 1 .. a /\ o + (p - o) = p
      BY <2>6
    <3> QED
      BY <2>6, <3>1
  <2>9. o + a + 3 <= off[i]
    BY <2>6, <2>7
  <2>10. t[off[i] - 1] = "cr" /\ t[off[i]] = "lf"
    BY <2>6, <2>7
  <2> QED
    BY <2>1, <2>2, <2>3, <2>6, <2>8, <2>9, <2>10
<1>13. ASSUME NEW i \in 0 .. n PROVE \E k \in 1 .. K : lines[k].start = off[i] + 1
  <2>1. PICK s : s = off[i] + 1
    OBVIOUS
  <2>2. off[i] \in Nat /\ off[i] <= last
    BY <1>7, <1>11
  <2>3. s \in 1 .. N /\ last + 2 \in s .. N
    BY <1>5, <1>10, <2>1, <2>2
  <2>4. s = 1 \/ t[s - 1] = "lf"
    <3>1. CASE i = 0
      BY <1>10, <2>1, <3>1
    <3>2. CASE i # 0
      <4>1. i \in 1 .. n
        BY <1>7, <3>2
      <4>2. t[off[i]] = "lf"
        BY <1>12, <4>1
      <4>3. s - 1 = off[i]
        BY <2>1, <2>2
      <4> QED
        BY <4>2, <4>3
    <3> QED
      BY <3>1, <3>2
  <2>5. \E k \in 1 .. K : lines[k].start = s
    BY <1>4, <1>10, <2>3, <2>4, LineStartingAt
  <2> QED
    BY <2>1, <2>5
<1>14. PICK num : num = [i \in 0 .. n |-> CHOOSE k \in 1 .. K : lines[k].start = off[i] + 1]
  OBVIOUS
<1>15. \A i \in 0 .. n : num[i] \in 1 .. K /\ lines[num[i]].start = off[i] + 1
  BY <1>13, <1>14
<1>16. ASSUME NEW i \in 0 .. n, NEW j \in 0 .. n, i < j PROVE num[i] < num[j]
  <2>1. PICK x \in 1 .. K : x = num[i]
    BY <1>15
  <2>2. PICK y \in 1 .. K : y = num[j]
    BY <1>15
  <2>3. lines[x].start = off[i] + 1 /\ lines[y].start = off[j] + 1
    BY <1>15, <2>1, <2>2
  <2>4. off[i] + 4 <= off[j] /\ off[i] \in Nat /\ off[j] \in Nat
    BY <1>7, <1>16
  <2>5. lines[x].start < lines[y].start /\ lines[x].start \in Nat /\ lines[y].start \in Nat
    BY <2>3, <2>4
  <2>6. x # y /\ ~(y < x)
    <3>1. y < x => lines[y].start < lines[x].start
      BY <1>5
    <3> QED
      BY <2>5, <3>1
  <2> QED
    BY <1>5, <2>1, <2>2, <2>6
<1>17. PICK b \in 1 .. K : b = num[n]
  BY <1>8, <1>15
<1>18. lines[b].start = last + 1 /\ ends[b] = last + 2
  <2>1. lines[b].start = last + 1
    BY <1>8, <1>9, <1>15, <1>17
  <2>2. last + 2 \in 1 .. N /\ lines[b].start <= last + 2
    BY <1>5, <1>10, <2>1
  <2>3. ends[b] <= last + 2
    BY <1>5, <1>10, <2>2
  <2>4. ends[b] \in 1 .. N /\ lines[b].start \in 1 .. ends[b] /\ t[ends[b]] = "lf"
    BY <1>5
  <2>5. ends[b] # last + 1
    BY <1>10, <2>4
  <2> QED
    BY <1>5, <2>1, <2>3, <2>4, <2>5
<1>19. lines[b].last < lines[b].start /\ lines[b].next = last + 3
  <2>1. lines[b].last = ContentEnd(t, last + 1, last + 2) /\ lines[b].next = (last + 2) + 1
    BY <1>5, <1>18
  <2>2. (last + 2) - 1 = last + 1 /\ last + 2 > last + 1 /\ (last + 2) - 2 = last
    OBVIOUS
  <2>3. ContentEnd(t, last + 1, last + 2) = last
    BY <1>10, <2>2 DEF ContentEnd
  <2> QED
    BY <1>18, <2>1, <2>3
<1>20. ASSUME NEW k \in 1 .. (b - 1)
       PROVE  /\ lines[k].start <= lines[k].last
              /\ (\E i \in 0 .. (n - 1) : num[i] = k) \/ t[lines[k].start] \in Blanks
  <2>1. k \in 1 .. K /\ k < b
    BY <1>5
  <2>2. PICK s \in Nat : s = lines[k].start
    <3>1. ends[k] \in 1 .. N /\ lines[k].start \in 1 .. ends[k]
      BY <1>5, <2>1
    <3> QED
      BY <3>1
  <2>3. PICK e \in Nat : e = ends[k]
    BY <1>5, <2>1
  <2>4. s >= 1 /\ s <= e /\ t[e] = "lf" /\ lines[k].last = ContentEnd(t, s, e)
    BY <1>5, <2>1, <2>2, <2>3
  <2>5. s < last + 1
    BY <1>5, <1>18, <2>1, <2>2
  <2>6. (\E i \in 0 .. (n - 1) : s = off[i] + 1) \/ t[s] \in Blanks
    <3>1. CASE k = 1
      <4>1. s = 1
        BY <1>5, <2>1, <2>2, <3>1
      <4>2. n # 0
        BY <1>9, <1>10, <2>5, <4>1
      <4>3. 0 \in 0 .. (n - 1) /\ s = off[0] + 1
        BY <1>7, <1>10, <4>1, <4>2
      <4> QED
        BY <4>3
    <3>2. CASE k # 1
      <4>1. k - 1 \in 1 .. K
        BY <1>6, <2>1, <3>2
      <4>2. PICK p \in 1 .. N : p = ends[k - 1] /\ t[p] = "lf"
        BY <1>5, <4>1
      <4>3. s = p + 1
        BY <1>5, <2>1, <2>2, <3>2, <4>2
      <4>4. p \in 1 .. off[n]
        BY <1>5, <1>9, <2>5, <4>3
      <4>5. (\E i \in 1 .. n : p = off[i]) \/ (p + 2 < off[n] /\ t[p + 1] \in Blanks)
        BY <4>2, <4>4, MessageFeeds
      <4>6. ASSUME NEW i \in 1 .. n, p = off[i] PROVE i \in 0 .. (n - 1)
        <5>1. i # n
          BY <1>5, <1>9, <2>5, <4>3, <4>6
        <5> QED
          BY <1>7, <5>1
      <4> QED
        BY <4>3, <4>5, <4>6
    <3> QED
      BY <3>1, <3>2
  <2>7. t[s] \notin Breaks
    <3>1. ASSUME NEW i \in 0 .. (n - 1), s = off[i] + 1 PROVE t[s] \in NameChars
      <4>1. i + 1 \in 1 .. n /\ (i + 1) - 1 = i
        BY <1>7
      <4>2. PICK a : a = Len(fields[i + 1].name)
        OBVIOUS
      <4>3. /\ off[i] \in Nat /\ a \in Nat /\ a >= 1
            /\ \A p \in (off[i] + 1) .. (off[i] + a) : t[p] \in NameChars
        BY <1>12, <4>1, <4>2
      <4>4. s \in (off[i] + 1) .. (off[i] + a)
        BY <3>1, <4>3
      <4> QED
        BY <4>3, <4>4
    <3>2. t[s] \in NameChars \/ t[s] \in Blanks
      BY <2>6, <3>1
    <3> QED
      BY <3>2 DEF NameChars, Blanks, Breaks
  <2>8. s <= ContentEnd(t, s, e)
    <3>1. e # s /\ t[s] # "cr"
      BY <2>4, <2>7 DEF Breaks
    <3>2. CASE t[e - 1] = "cr"
      <4>1. e - 1 # s
        BY <3>1, <3>2
      <4>2. e > s /\ s <= e - 2
        BY <2>4, <3>1, <4>1
      <4>3. ContentEnd(t, s, e) = e - 2
        BY <3>2, <4>2 DEF ContentEnd
      <4> QED
        BY <4>2, <4>3
    <3>3. CASE t[e - 1] # "cr"
      <4>1. ContentEnd(t, s, e) = e - 1
        BY <3>3 DEF ContentEnd
      <4> QED
        BY <2>4, <3>1, <4>1
    <3> QED
      BY <3>2, <3>3
  <2>9. ASSUME NEW i \in 0 .. (n - 1), s = off[i] + 1 PROVE num[i] = k
    <3>1. i \in 0 .. n
      BY <1>7
    <3>2. PICK x \in 1 .. K : x = num[i] /\ lines[x].start = s
      BY <1>15, <2>9, <3>1
    <3>3. (x < k => lines[x].start < lines[k].start) /\ (k < x => lines[k].start < lines[x].start)
      BY <1>5, <2>1
    <3>4. ~(x < k) /\ ~(k < x)
      BY <2>2, <3>2, <3>3
    <3> QED
      BY <2>1, <3>2, <3>4
  <2>10. (\E i \in 0 .. (n - 1) : num[i] = k) \/ t[s] \in Blanks
    BY <2>6, <2>9
  <2> QED
    BY <2>2, <2>4, <2>8, <2>10
<1>21. ASSUME NEW i \in 1 .. n
       PROVE  /\ off[i - 1] + Len(fields[i].name) + 1 <= lines[num[i - 1]].last
              /\ lines[num[i] - 1].last = off[i] - 2
  <2>1. PICK o : o = off[i - 1]
    OBVIOUS
  <2>2. PICK a : a = Len(fields[i].name)
    OBVIOUS
  <2>3. PICK z : z = off[i]
    OBVIOUS
  <2>4. /\ o \in Nat /\ a \in Nat /\ a >= 1 /\ o + a + 3 <= z
        /\ \A p \in (o + 1) .. (o + a) : t[p] \in NameChars
        /\ t[o + a + 1] = ":" /\ t[z - 1] = "cr" /\ t[z] = "lf"
    BY <1>12, <2>1, <2>2, <2>3
  <2>5. i - 1 \in 0 .. n /\ i \in 0 .. n /\ z \in Nat
    BY <1>7, <1>8, <2>3
  <2>6. o + a + 1 <= lines[num[i - 1]].last
    <3>1. PICK k \in 1 .. K : k = num[i - 1]
      BY <1>15, <2>5
    <3>2. lines[k].start = o + 1
      BY <1>15, <2>1, <2>5, <3>1
    <3>3. PICK e \in 1 .. N : e = ends[k]
      BY <1>5
    <3>4. t[e] = "lf" /\ o + 1 <= e /\ lines[k].last = ContentEnd(t, o + 1, e)
      BY <1>5, <3>2, <3>3
    <3>5. e \notin (o + 1) .. (o + a)
      BY <2>4, <3>4 DEF NameChars
    <3>6. e # o + a + 1
      BY <2>4, <3>4
    <3>7. e >= o + a + 2
      BY <1>5, <2>4, <3>4, <3>5, <3>6
    <3>8. CASE t[e - 1] = "cr"
      <4>1. e - 1 # o + a + 1
        BY <2>4, <3>8
      <4>2. e > o + 1 /\ o + a + 1 <= e - 2
        BY <2>4, <3>7, <4>1
      <4>3. ContentEnd(t, o + 1, e) = e - 2
        BY <3>8, <4>2 DEF ContentEnd
      <4> QED
        BY <3>1, <3>4, <4>2, <4>3
    <3>9. CASE t[e - 1] # "cr"
      <4>1. ContentEnd(t, o + 1, e) = e - 1
        BY <3>9 DEF ContentEnd
      <4>2. o + a + 1 <= e - 1
        BY <2>4, <3>7
      <4> QED
        BY <3>1, <3>4, <4>1, <4>2
    <3> QED
      BY <3>8, <3>9
  <2>7. lines[num[i] - 1].last = z - 2
    <3>1. PICK l \in 1 .. K : l = num[i] /\ lines[l].start = z + 1
      BY <1>15, <2>3, <2>5
    <3>2. l # 1
      BY <1>5, <2>4, <2>5, <3>1
    <3>3. PICK k \in 1 .. K : k = l - 1
      BY <1>6, <3>1, <3>2
    <3>4. ends[k] \in 1 .. N /\ z + 1 = ends[k] + 1
      BY <1>5, <3>1, <3>2, <3>3
    <3>5. ends[k] = z
      BY <2>5, <3>4
    <3>6. PICK s \in Nat : s = lines[k].start
      <4>1. lines[k].start \in 1 .. ends[k]
        BY <1>5
      <4> QED
        BY <3>4, <4>1
    <3>7. s >= 1 /\ s <= z /\ lines[k].last = ContentEnd(t, s, z)
      BY <1>5, <3>5, <3>6
    <3>8. s # z
      <4>1. CASE k = 1
        BY <1>5, <2>4, <2>5, <3>6, <4>1
      <4>2. CASE k # 1
        <5>1. k - 1 \in 1 .. K
          BY <1>6, <4>2
        <5>2. ends[k - 1] \in 1 .. N /\ t[ends[k - 1]] = "lf" /\ s = ends[k - 1] + 1
          BY <1>5, <3>6, <4>2, <5>1
        <5>3. SUFFICES ASSUME s = z PROVE FALSE
          OBVIOUS
        <5>4. ends[k - 1] = z - 1
          BY <2>5, <5>2, <5>3
        <5> QED
          BY <2>4, <5>2, <5>4
      <4> QED
        BY <4>1, <4>2
    <3>9. ContentEnd(t, s, z) = z - 2
      <4>1. z > s
        BY <2>5, <3>7, <3>8
      <4> QED
        BY <2>4, <4>1 DEF ContentEnd
    <3> QED
      BY <3>1, <3>3, <3>7, <3>9
  <2> QED
    BY <2>1, <2>2, <2>3, <2>6, <2>7
<1>22. num[0] = 1
  <2>1. PICK x \in 1 .. K : x = num[0] /\ lines[x].start = 1
    BY <1>8, <1>10, <1>15
  <2>2. 1 \in 1 .. K /\ lines[1].start = 1
    BY <1>5
  <2>3. 1 < x => lines[1].start < lines[x].start
    BY <1>5, <2>2
  <2> QED
    BY <2>1, <2>2, <2>3
<1>23. HeaderLines(t, fields, n, off, lines, num)
  <2>1. \A i \in 0 .. n : num[i] \in Nat \ {0}
    BY <1>5, <1>15
  <2>2. num[n] <= Len(lines)
    BY <1>5, <1>17
  <2> QED
    BY <1>9, <1>15, <1>16, <1>17, <1>19, <1>20, <1>21, <1>22, <2>1, <2>2 DEF HeaderLines
<1> QED
  BY <1>23

-----------------------------------------------------------------------------
(* Reading a message back. *)

\* The smallest of the places given, or 0 when there is none.
FirstOf(S) == IF S # {} THEN Min(S) ELSE 0

\* The smallest of a set of numbers is what it is called.
LEMMA FirstOfOK ==
  ASSUME NEW S, S \subseteq Nat
  PROVE  /\ S = {} => FirstOf(S) = 0
         /\ S # {} => FirstOf(S) \in S /\ \A k \in S : FirstOf(S) <= k
BY SmallestNumber DEF FirstOf, Min

\* The parts of Parse, by name: the lines, the empty one, a line's content and its colon,
\* the lines that start a field.
Content(t, k) == SubSeq(t, Lines(t)[k].start, Lines(t)[k].last)
BlankLine(t) == FirstOf({k \in 1 .. Len(Lines(t)) : Lines(t)[k].last < Lines(t)[k].start})
Continued(t, k) == StartsWith(Content(t, k), Blanks)
ColonIn(t, k) == FirstOf({i \in 1 .. Len(Content(t, k)) : Content(t, k)[i] = ":"})
NameIn(t, k) == SubSeq(Content(t, k), 1, ColonIn(t, k) - 1)
FieldStarts(t) == Ascending({k \in 1 .. (BlankLine(t) - 1) : ~Continued(t, k)})
LastLine(t, j) == IF j = Len(FieldStarts(t)) THEN BlankLine(t) - 1
                    ELSE FieldStarts(t)[j + 1] - 1
ValueIn(t, j) == SubSeq(t, Lines(t)[FieldStarts(t)[j]].start + ColonIn(t, FieldStarts(t)[j]),
                          Lines(t)[LastLine(t, j)].last)
NotAMessage(t) ==
  \/ BlankLine(t) = 0
  \/ BlankLine(t) > 1 /\ Continued(t, 1)
  \/ \E j \in DOMAIN FieldStarts(t) : \/ ColonIn(t, FieldStarts(t)[j]) = 0
                                        \/ ~HeaderName(NameIn(t, FieldStarts(t)[j]))

\* Parse in terms of its parts.
LEMMA ParseParts ==
  ASSUME NEW t
  PROVE  Parse(t) =
           IF NotAMessage(t) THEN Malformed
           ELSE [ok |-> TRUE,
                 fields |-> [j \in DOMAIN FieldStarts(t) |->
                               [name |-> NameIn(t, FieldStarts(t)[j]), value |-> ValueIn(t, j)]],
                 body |-> SubSeq(t, Lines(t)[BlankLine(t)].next, Len(t))]
BY DEF Parse, NotAMessage, FieldStarts, NameIn, ValueIn, LastLine, ColonIn, Continued, BlankLine,
       Content, FirstOf, SelectInSeq

\* The number of the empty line is the one behind the last field.
LEMMA BlankLineIs ==
  ASSUME NEW t, NEW fields, NEW n \in Nat, NEW off, NEW lines, lines = Lines(t), NEW num,
         HeaderLines(t, fields, n, off, lines, num), Len(lines) \in Nat,
         \A k \in 1 .. Len(lines) : lines[k].start \in Nat /\ lines[k].last \in Nat
  PROVE  BlankLine(t) = num[n]
<1>1. PICK K \in Nat : K = Len(lines)
  OBVIOUS
<1>2. n \in 0 .. n
  OBVIOUS
<1>3. PICK b \in Nat \ {0} : b = num[n]
  BY <1>2 DEF HeaderLines
<1>4. b <= K /\ lines[b].last < lines[b].start
  BY <1>1, <1>3 DEF HeaderLines
<1>5. \A k \in 1 .. (b - 1) : lines[k].start <= lines[k].last
  BY <1>3 DEF HeaderLines
<1>6. PICK S : S = {k \in 1 .. K : lines[k].last < lines[k].start}
  OBVIOUS
<1>7. b \in S /\ S \subseteq Nat
  BY <1>1, <1>3, <1>4, <1>6
<1>8. FirstOf(S) \in S /\ FirstOf(S) <= b
  BY <1>7, FirstOfOK
<1>9. FirstOf(S) \in 1 .. K /\ lines[FirstOf(S)].last < lines[FirstOf(S)].start
  BY <1>6, <1>8
<1>10. FirstOf(S) \notin 1 .. (b - 1)
  BY <1>1, <1>5, <1>9
<1>11. FirstOf(S) = b
  BY <1>3, <1>8, <1>9, <1>10
<1> QED
  BY <1>1, <1>3, <1>6, <1>11 DEF BlankLine

\* A part of a text, from b to e.
IsPart(s, t, b, e) == /\ s \in Seq(Chars) /\ Len(s) = e - b + 1
                      /\ \A i \in 1 .. (e - b + 1) : s[i] = t[b + i - 1]

\* It is what SubSeq gives.
LEMMA PartOf ==
  ASSUME NEW t \in Seq(Chars), NEW b \in Int, NEW e \in Int, 1 <= b, b <= e + 1, e <= Len(t)
  PROVE  IsPart(SubSeq(t, b, e), t, b, e)
<1>1. \A i \in b .. e : t[i] \in Chars
  <2>1. \A i \in 1 .. Len(t) : t[i] \in Chars
    OBVIOUS
  <2>2. \A i \in b .. e : i \in 1 .. Len(t)
    OBVIOUS
  <2> QED
    BY <2>1, <2>2
<1>2. /\ SubSeq(t, b, e) \in Seq(Chars)
      /\ Len(SubSeq(t, b, e)) = IF b <= e THEN e - b + 1 ELSE 0
      /\ \A i \in 1 .. e - b + 1 : SubSeq(t, b, e)[i] = t[b + i - 1]
  BY <1>1, SubSeqProperties
<1>3. (IF b <= e THEN e - b + 1 ELSE 0) = e - b + 1
  OBVIOUS
<1> QED
  BY <1>2, <1>3 DEF IsPart

\* The content of a line that is not empty.
LEMMA ContentIs ==
  ASSUME NEW t \in Seq(Chars), NEW k, NEW b \in Nat, NEW e \in Nat,
         Content(t, k) = SubSeq(t, b, e), 1 <= b, b <= e, e <= Len(t)
  PROVE  /\ IsPart(Content(t, k), t, b, e)
         /\ Content(t, k) # <<>> /\ Head(Content(t, k)) = t[b]
<1>1. PICK c : c = SubSeq(t, b, e)
  OBVIOUS
<1>2. c \in Seq(Chars) /\ Len(c) = e - b + 1 /\ \A i \in 1 .. (e - b + 1) : c[i] = t[b + i - 1]
  <2>1. b <= e + 1 /\ b \in Int /\ e \in Int
    OBVIOUS
  <2>2. IsPart(SubSeq(t, b, e), t, b, e)
    BY <2>1, PartOf
  <2> QED
    BY <1>1, <2>2 DEF IsPart
<1>3. c # <<>> /\ 1 \in 1 .. (e - b + 1) /\ b + 1 - 1 = b
  BY <1>2
<1>4. Head(c) = t[b]
  BY <1>2, <1>3
<1>5. Content(t, k) = c
  BY <1>1
<1> QED
  BY <1>2, <1>3, <1>4, <1>5 DEF IsPart

\* A message that can be read back, with its lines.
Laid(t, fields, body, n, off, lines, num) ==
  /\ IsReadable(t, fields, body, n, off)
  /\ lines = Lines(t) /\ HeaderLines(t, fields, n, off, lines, num)

\* The parts of such a message that reading it needs.
LaidFacts(t, n, off, lines, num) ==
  /\ n \in Nat /\ t \in Seq(Chars) /\ Len(lines) \in Nat
  /\ \A k \in 1 .. Len(lines) : /\ lines[k].start \in Nat \ {0}
                                /\ lines[k].last \in Nat /\ lines[k].last <= Len(t)
  /\ \A i \in 0 .. n : /\ off[i] \in Nat /\ num[i] \in Nat \ {0}
                       /\ num[i] <= num[n] /\ lines[num[i]].start = off[i] + 1
  /\ num[n] <= Len(lines) /\ BlankLine(t) = num[n]

\* It has them.
LEMMA LaidParts ==
  ASSUME NEW t, NEW fields, NEW body \in Seq(Chars), NEW n, NEW off, NEW lines, NEW num,
         Laid(t, fields, body, n, off, lines, num)
  PROVE  LaidFacts(t, n, off, lines, num)
<1>1. t \in Seq(Chars) /\ n \in Nat
  BY DEF Laid, IsReadable, IsMessage
<1>2. PICK ends : ends = LineEnds(t)
  OBVIOUS
<1>3. PICK N : N = Len(t)
  OBVIOUS
<1>4. PICK K : K = Len(ends)
  OBVIOUS
<1>5. LineFacts(t, N, K, ends, lines)
  BY <1>1, <1>2, <1>3, <1>4, LinesOf DEF Laid
<1>6. Len(lines) = K /\ K \in Nat /\ N \in Nat
  BY <1>5 DEF LineFacts
<1>7. ASSUME NEW k \in 1 .. K
      PROVE  lines[k].start \in Nat \ {0} /\ lines[k].last \in Nat /\ lines[k].last <= N
  <2>1. lines[k].start \in 1 .. ends[k] /\ lines[k].last \in 0 .. N /\ ends[k] \in 1 .. N
    BY <1>5 DEF LineFacts
  <2> QED
    BY <1>6, <2>1
<1>8. \A i \in 0 .. n : off[i] \in Nat
  BY DEF Laid, IsReadable, IsMessage
<1>9. \A i \in 0 .. n : num[i] \in Nat \ {0} /\ lines[num[i]].start = off[i] + 1
  BY DEF Laid, HeaderLines
<1>10. \A i \in 0 .. n : num[i] <= num[n]
  <2> SUFFICES ASSUME NEW i \in 0 .. n PROVE num[i] <= num[n]
    OBVIOUS
  <2>1. n \in 0 .. n /\ (i = n \/ i < n)
    BY <1>1
  <2>2. i < n => num[i] < num[n]
    BY <2>1 DEF Laid, HeaderLines
  <2>3. num[i] \in Nat /\ num[n] \in Nat
    BY <1>9, <2>1
  <2> QED
    BY <2>1, <2>2, <2>3
<1>11. num[n] <= Len(lines)
  BY DEF Laid, HeaderLines
<1>12. BlankLine(t) = num[n]
  <2>1. \A k \in 1 .. Len(lines) : lines[k].start \in Nat /\ lines[k].last \in Nat
    BY <1>6, <1>7
  <2>2. lines = Lines(t) /\ HeaderLines(t, fields, n, off, lines, num) /\ Len(lines) \in Nat
    BY <1>6 DEF Laid
  <2> QED
    BY <1>1, <2>1, <2>2, BlankLineIs
<1> QED
  BY <1>1, <1>3, <1>6, <1>7, <1>8, <1>9, <1>10, <1>11, <1>12 DEF LaidFacts

\* A field's line behind o: a characters of name, a colon, b characters of value.
FieldAt(t, o, f, a, b, L) ==
  /\ a \in Nat /\ a >= 1 /\ b \in Nat /\ L = a + b + 3
  /\ f.name \in Seq(Chars) /\ Len(f.name) = a /\ HeaderName(f.name)
  /\ f.value \in Seq(Chars) /\ Len(f.value) = b
  /\ \A q \in 1 .. a : t[o + q] = f.name[q] /\ t[o + q] \in NameChars
  /\ t[o + a + 1] = ":"
  /\ \A q \in 1 .. b : t[o + a + 1 + q] = f.value[q]

\* What LineBehind says of a field that can be read back.
LEMMA FieldLine ==
  ASSUME NEW t, NEW f, NEW o \in Nat, Readable(f), LineBehind(t, o, f)
  PROVE  FieldAt(t, o, f, Len(f.name), Len(f.value), LineLength(f))
<1>1. PICK a : a = Len(f.name)
  OBVIOUS
<1>2. PICK L : L = LineLength(f)
  OBVIOUS
<1>3. a \in Nat /\ a >= 1 /\ t[o + a + 1] = ":" /\ \A q \in 1 .. a : t[o + q] \in NameChars
  <2>1. ReadableLine(t, o, a, L)
    BY <1>1, <1>2, LineShape
  <2> QED
    BY <2>1 DEF ReadableLine
<1>4. f.name \in Seq(Chars) /\ f.value \in Seq(Chars) /\ HeaderName(f.name)
  BY DEF Readable, Fields
<1>5. PICK b : b = Len(f.value)
  OBVIOUS
<1>6. b \in Nat
  BY <1>4, <1>5
<1>7. L = a + b + 3
  BY <1>1, <1>2, <1>5 DEF LineLength
<1>8. \A q \in 1 .. a : t[o + q] = f.name[q]
  BY <1>1 DEF LineBehind
<1>9. \A q \in 1 .. b : t[o + a + 1 + q] = f.value[q]
  BY <1>1, <1>5 DEF LineBehind
<1>10. FieldAt(t, o, f, a, b, L)
  BY <1>1, <1>3, <1>4, <1>5, <1>6, <1>7, <1>8, <1>9 DEF FieldAt
<1> QED
  BY <1>1, <1>2, <1>5, <1>10

\* Where the line of the i-th field is.
Placed(t, fields, off, lines, num, i) ==
  \E o, a, b, L :
    /\ o \in Nat /\ o = off[i - 1] /\ FieldAt(t, o, fields[i], a, b, L) /\ off[i] = o + L
    /\ lines[num[i - 1]].start = o + 1 /\ o + a + 1 <= lines[num[i - 1]].last
    /\ lines[num[i] - 1].last = (o + L) - 2

\* It is there.
LEMMA FieldPlace ==
  ASSUME NEW t, NEW fields, NEW body \in Seq(Chars), NEW n, NEW off, NEW lines, NEW num,
         Laid(t, fields, body, n, off, lines, num), NEW i \in 1 .. n
  PROVE  Placed(t, fields, off, lines, num, i)
<1>1. i \in 0 .. n /\ i - 1 \in 0 .. n
  BY DEF Laid, IsReadable, IsMessage
<1>2. PICK o : o = off[i - 1]
  OBVIOUS
<1>3. o \in Nat
  BY <1>1, <1>2 DEF Laid, IsReadable, IsMessage
<1>4. Readable(fields[i]) /\ LineBehind(t, o, fields[i]) /\ off[i] = o + LineLength(fields[i])
  BY <1>2 DEF Laid, IsReadable, IsMessage
<1>5. FieldAt(t, o, fields[i], Len(fields[i].name), Len(fields[i].value), LineLength(fields[i]))
  BY <1>3, <1>4, FieldLine
<1>6. /\ lines[num[i - 1]].start = o + 1
      /\ o + Len(fields[i].name) + 1 <= lines[num[i - 1]].last
      /\ lines[num[i] - 1].last = off[i] - 2
  BY <1>1, <1>2 DEF Laid, HeaderLines
<1> QED
  BY <1>2, <1>3, <1>4, <1>5, <1>6, Zenon DEF Placed

\* A line before the empty one is continued if it starts with a blank.
LEMMA ContinuedIs ==
  ASSUME NEW t, NEW fields, NEW body \in Seq(Chars), NEW n, NEW off, NEW lines, NEW num,
         Laid(t, fields, body, n, off, lines, num), NEW k \in 1 .. (num[n] - 1)
  PROVE  Continued(t, k) <=> t[lines[k].start] \in Blanks
<1>1. /\ n \in Nat /\ t \in Seq(Chars) /\ Len(lines) \in Nat
      /\ \A l \in 1 .. Len(lines) : /\ lines[l].start \in Nat \ {0}
                                    /\ lines[l].last \in Nat /\ lines[l].last <= Len(t)
      /\ \A i \in 0 .. n : /\ off[i] \in Nat /\ num[i] \in Nat \ {0}
                           /\ num[i] <= num[n] /\ lines[num[i]].start = off[i] + 1
      /\ num[n] <= Len(lines) /\ BlankLine(t) = num[n]
  <2>1. LaidFacts(t, n, off, lines, num)
    BY LaidParts
  <2> QED
    BY <2>1 DEF LaidFacts
<1>2. n \in 0 .. n
  BY <1>1
<1>3. num[n] \in Nat
  BY <1>1, <1>2
<1>4. k \in 1 .. Len(lines)
  BY <1>1, <1>3
<1>5. PICK b \in Nat : b = lines[k].start
  BY <1>1, <1>4
<1>6. PICK e \in Nat : e = lines[k].last
  BY <1>1, <1>4
<1>7. 1 <= b /\ e <= Len(t)
  BY <1>1, <1>4, <1>5, <1>6
<1>8. b <= e
  BY <1>5, <1>6 DEF Laid, HeaderLines
<1>9. Content(t, k) = SubSeq(t, b, e)
  BY <1>5, <1>6 DEF Laid, Content
<1>10. Content(t, k) # <<>> /\ Head(Content(t, k)) = t[b]
  <2>1. t \in Seq(Chars)
    BY <1>1
  <2> QED
    BY <1>7, <1>8, <1>9, <2>1, ContentIs
<1> QED
  BY <1>5, <1>10 DEF Continued, StartsWith

\* The fields start where the message's fields do.
LEMMA FieldStartsAre ==
  ASSUME NEW t, NEW fields, NEW body \in Seq(Chars), NEW n, NEW off, NEW lines, NEW num,
         Laid(t, fields, body, n, off, lines, num)
  PROVE  /\ Len(FieldStarts(t)) = n /\ DOMAIN FieldStarts(t) = 1 .. n
         /\ \A j \in 1 .. n : FieldStarts(t)[j] = num[j - 1]
<1>1. /\ n \in Nat /\ t \in Seq(Chars) /\ Len(lines) \in Nat
      /\ \A l \in 1 .. Len(lines) : /\ lines[l].start \in Nat \ {0}
                                    /\ lines[l].last \in Nat /\ lines[l].last <= Len(t)
      /\ \A i \in 0 .. n : /\ off[i] \in Nat /\ num[i] \in Nat \ {0}
                           /\ num[i] <= num[n] /\ lines[num[i]].start = off[i] + 1
      /\ num[n] <= Len(lines) /\ BlankLine(t) = num[n]
  <2>1. LaidFacts(t, n, off, lines, num)
    BY LaidParts
  <2> QED
    BY <2>1 DEF LaidFacts
<1>2. n \in 0 .. n /\ \A j \in 1 .. n : j - 1 \in 0 .. n
  BY <1>1
<1>3. PICK b \in Nat : b = num[n]
  BY <1>1, <1>2
<1>4. PICK A : A = [j \in 1 .. n |-> num[j - 1]]
  OBVIOUS
<1>5. \A j \in 1 .. n : A[j] = num[j - 1] /\ A[j] \in Nat \ {0}
  BY <1>1, <1>2, <1>4
<1>6. \A i, j \in 0 .. n : i < j => num[i] < num[j]
  BY DEF Laid, HeaderLines
<1>7. \A j, l \in 1 .. n : j < l => A[j] < A[l]
  <2> SUFFICES ASSUME NEW j \in 1 .. n, NEW l \in 1 .. n, j < l PROVE A[j] < A[l]
    OBVIOUS
  <2>1. j - 1 < l - 1
    OBVIOUS
  <2>2. num[j - 1] < num[l - 1]
    BY <1>2, <1>6, <2>1
  <2> QED
    BY <1>5, <2>2
<1>8. PICK S : S = {k \in 1 .. (b - 1) : ~Continued(t, k)}
  OBVIOUS
<1>9. \A k \in 1 .. (b - 1) : Continued(t, k) <=> t[lines[k].start] \in Blanks
  BY <1>3, ContinuedIs
<1>10. ASSUME NEW j \in 1 .. n PROVE A[j] \in S
  <2>1. j - 1 \in 0 .. n /\ j - 1 < n
    BY <1>1
  <2>2. num[j - 1] < b /\ num[j - 1] \in Nat \ {0}
    BY <1>1, <1>2, <1>3, <1>6, <2>1
  <2>3. PICK k \in 1 .. (b - 1) : k = num[j - 1]
    BY <1>3, <2>2
  <2>4. PICK o, a, bb, L : /\ o \in Nat /\ FieldAt(t, o, fields[j], a, bb, L)
                           /\ lines[num[j - 1]].start = o + 1
    <3>1. Placed(t, fields, off, lines, num, j)
      BY FieldPlace
    <3> QED
      BY <3>1 DEF Placed
  <2>5. a \in Nat /\ a >= 1 /\ \A q \in 1 .. a : t[o + q] \in NameChars
    BY <2>4 DEF FieldAt
  <2>6. t[o + 1] \in NameChars
    BY <2>5
  <2>7. t[lines[k].start] \notin Blanks
    BY <2>3, <2>4, <2>6 DEF NameChars, Blanks
  <2> QED
    BY <1>5, <1>8, <1>9, <2>3, <2>7
<1>11. ASSUME NEW k \in S PROVE \E j \in 1 .. n : A[j] = k
  <2>1. k \in 1 .. (b - 1) /\ t[lines[k].start] \notin Blanks
    BY <1>8, <1>9
  <2>2. PICK i \in 0 .. (n - 1) : num[i] = k
    BY <1>3, <2>1 DEF Laid, HeaderLines
  <2>3. i + 1 \in 1 .. n /\ (i + 1) - 1 = i
    BY <1>1
  <2> QED
    BY <1>5, <2>2, <2>3
<1>12. S = {A[l] : l \in 1 .. n}
  BY <1>10, <1>11
<1>13. FieldStarts(t) = Ascending(S)
  BY <1>1, <1>3, <1>8 DEF FieldStarts
<1>14. ListsAs(Ascending(S), A, n)
  <2>1. \A j \in 1 .. n : A[j] \in Nat
    BY <1>5
  <2> QED
    BY <1>1, <1>7, <1>12, <2>1, AscendingIs
<1> QED
  BY <1>5, <1>13, <1>14 DEF ListsAs

\* The first line of a field gives the name, up to its first colon.
LEMMA NameRead ==
  ASSUME NEW t, NEW k, NEW o \in Nat, NEW f, NEW a, NEW b, NEW L, FieldAt(t, o, f, a, b, L),
         Content(t, k) \in Seq(Chars), Len(Content(t, k)) >= a + 1,
         \A i \in 1 .. Len(Content(t, k)) : Content(t, k)[i] = t[o + i]
  PROVE  ColonIn(t, k) = a + 1 /\ NameIn(t, k) = f.name
<1>1. PICK c \in Seq(Chars) : c = Content(t, k)
  OBVIOUS
<1>2. PICK m \in Nat : m = Len(c)
  BY <1>1
<1>3. m >= a + 1 /\ \A i \in 1 .. m : c[i] = t[o + i]
  BY <1>1, <1>2
<1>4. /\ a \in Nat /\ f.name \in Seq(Chars) /\ Len(f.name) = a
      /\ \A q \in 1 .. a : t[o + q] = f.name[q] /\ t[o + q] \in NameChars
      /\ t[o + a + 1] = ":"
  BY DEF FieldAt
<1>5. a \in Nat
  BY <1>4
<1>6. \A i \in 1 .. a : i \in 1 .. m
  BY <1>3, <1>5
<1>7. \A i \in 1 .. a : c[i] = f.name[i] /\ c[i] \in NameChars
  BY <1>3, <1>4, <1>6
<1>8. c[a + 1] = ":" /\ a + 1 \in 1 .. m
  <2>1. a + 1 \in 1 .. m /\ o + (a + 1) = o + a + 1
    BY <1>3, <1>5
  <2>2. c[a + 1] = t[o + (a + 1)]
    BY <1>3, <2>1
  <2> QED
    BY <1>4, <2>1, <2>2
<1>9. PICK S : S = {i \in 1 .. m : c[i] = ":"}
  OBVIOUS
<1>10. a + 1 \in S /\ S \subseteq Nat
  BY <1>8, <1>9
<1>11. FirstOf(S) \in S /\ FirstOf(S) <= a + 1
  BY <1>10, FirstOfOK
<1>12. FirstOf(S) \in 1 .. m /\ c[FirstOf(S)] = ":"
  BY <1>9, <1>11
<1>13. FirstOf(S) \notin 1 .. a
  BY <1>7, <1>12 DEF NameChars
<1>14. FirstOf(S) = a + 1
  BY <1>5, <1>11, <1>12, <1>13
<1>15. ColonIn(t, k) = a + 1
  BY <1>1, <1>2, <1>9, <1>14 DEF ColonIn
<1>16. PICK s : s = SubSeq(c, 1, a)
  OBVIOUS
<1>17. s \in Seq(Chars) /\ Len(s) = a /\ \A i \in 1 .. a : s[i] = c[i]
  <2>1. 1 \in Int /\ a \in Int /\ 1 <= a + 1 /\ a <= Len(c)
    BY <1>2, <1>3, <1>5
  <2>2. IsPart(SubSeq(c, 1, a), c, 1, a)
    BY <2>1, PartOf
  <2>3. s \in Seq(Chars) /\ Len(s) = a - 1 + 1 /\ \A i \in 1 .. (a - 1 + 1) : s[i] = c[1 + i - 1]
    BY <1>16, <2>2 DEF IsPart
  <2>4. a - 1 + 1 = a /\ \A i \in 1 .. a : 1 + i - 1 = i
    BY <1>5
  <2> QED
    BY <2>3, <2>4
<1>18. s = f.name
  <2>1. \A i \in 1 .. Len(s) : s[i] = f.name[i]
    BY <1>7, <1>17
  <2>2. s \in Seq(Chars) /\ f.name \in Seq(Chars) /\ Len(s) = Len(f.name)
    BY <1>4, <1>17
  <2> QED
    BY <2>1, <2>2, SeqEqual
<1>19. (a + 1) - 1 = a
  BY <1>5
<1> QED
  BY <1>1, <1>15, <1>16, <1>18, <1>19 DEF NameIn

\* The text behind the colon, up to the end of the field's last line, is the value.
LEMMA ValueRead ==
  ASSUME NEW t \in Seq(Chars), NEW o \in Nat, NEW f, NEW a, NEW b, NEW L,
         FieldAt(t, o, f, a, b, L), o + L <= Len(t)
  PROVE  SubSeq(t, (o + 1) + (a + 1), (o + L) - 2) = f.value
<1>1. /\ a \in Nat /\ b \in Nat /\ L = a + b + 3
      /\ f.value \in Seq(Chars) /\ Len(f.value) = b
      /\ \A q \in 1 .. b : t[o + a + 1 + q] = f.value[q]
  BY DEF FieldAt
<1>2. a \in Nat /\ b \in Nat /\ L = a + b + 3
  BY <1>1
<1>3. PICK x \in Int : x = (o + 1) + (a + 1)
  BY <1>2
<1>4. PICK y \in Int : y = (o + L) - 2
  BY <1>2
<1>5. 1 <= x /\ x <= y + 1 /\ y <= Len(t) /\ y - x + 1 = b
  BY <1>2, <1>3, <1>4
<1>6. IsPart(SubSeq(t, x, y), t, x, y)
  BY <1>5, PartOf
<1>7. PICK w : w = SubSeq(t, x, y)
  OBVIOUS
<1>8. w \in Seq(Chars) /\ Len(w) = b /\ \A i \in 1 .. b : w[i] = t[x + i - 1]
  BY <1>5, <1>6, <1>7 DEF IsPart
<1>9. \A i \in 1 .. b : x + i - 1 = o + a + 1 + i
  BY <1>2, <1>3
<1>10. \A i \in 1 .. b : w[i] = f.value[i]
  BY <1>1, <1>8, <1>9
<1>11. w = f.value
  BY <1>1, <1>8, <1>10, SeqEqual
<1> QED
  BY <1>3, <1>4, <1>7, <1>11

\* What the parser makes of the j-th field of a message.
FieldIsRead(t, f, j) ==
  /\ ColonIn(t, FieldStarts(t)[j]) # 0
  /\ NameIn(t, FieldStarts(t)[j]) = f.name /\ HeaderName(f.name)
  /\ ValueIn(t, j) = f.value

\* It is that field.
LEMMA FieldRead ==
  ASSUME NEW t, NEW fields, NEW body \in Seq(Chars), NEW n, NEW off, NEW lines, NEW num,
         Laid(t, fields, body, n, off, lines, num), NEW j \in 1 .. n
  PROVE  FieldIsRead(t, fields[j], j)
<1>1. /\ n \in Nat /\ t \in Seq(Chars) /\ Len(lines) \in Nat
      /\ \A l \in 1 .. Len(lines) : /\ lines[l].start \in Nat \ {0}
                                    /\ lines[l].last \in Nat /\ lines[l].last <= Len(t)
      /\ \A i \in 0 .. n : /\ off[i] \in Nat /\ num[i] \in Nat \ {0}
                           /\ num[i] <= num[n] /\ lines[num[i]].start = off[i] + 1
      /\ num[n] <= Len(lines) /\ BlankLine(t) = num[n]
  <2>1. LaidFacts(t, n, off, lines, num)
    BY LaidParts
  <2> QED
    BY <2>1 DEF LaidFacts
<1>2. j - 1 \in 0 .. n /\ j \in 0 .. n /\ n \in 0 .. n
  BY <1>1
<1>3. PICK f : f = fields[j]
  OBVIOUS
<1>4. PICK o, a, b, L :
        /\ o \in Nat /\ o = off[j - 1] /\ FieldAt(t, o, f, a, b, L) /\ off[j] = o + L
        /\ lines[num[j - 1]].start = o + 1 /\ o + a + 1 <= lines[num[j - 1]].last
        /\ lines[num[j] - 1].last = (o + L) - 2
  <2>1. Placed(t, fields, off, lines, num, j)
    BY FieldPlace
  <2> QED
    BY <1>3, <2>1 DEF Placed
<1>5. a \in Nat /\ b \in Nat /\ L = a + b + 3 /\ HeaderName(f.name)
  BY <1>4 DEF FieldAt
<1>6. PICK k \in Nat \ {0} : k = num[j - 1]
  BY <1>1, <1>2
<1>7. k \in 1 .. Len(lines)
  <2>1. k <= num[n] /\ num[n] \in Nat
    BY <1>1, <1>2, <1>6
  <2> QED
    BY <1>1, <2>1
<1>8. PICK s \in Nat : s = lines[k].start
  BY <1>1, <1>7
<1>9. PICK e \in Nat : e = lines[k].last
  BY <1>1, <1>7
<1>10. s = o + 1 /\ o + a + 1 <= e /\ e <= Len(t)
  BY <1>1, <1>4, <1>6, <1>7, <1>8, <1>9
<1>11. o \in Nat /\ a \in Nat
  BY <1>4, <1>5
<1>12. 1 <= s /\ s <= e /\ e - s + 1 >= a + 1
  BY <1>10, <1>11
<1>13. /\ Content(t, k) \in Seq(Chars)
       /\ Len(Content(t, k)) = e - s + 1
       /\ \A i \in 1 .. (e - s + 1) : Content(t, k)[i] = t[s + i - 1]
  <2>1. Content(t, k) = SubSeq(t, s, e)
    BY <1>8, <1>9 DEF Laid, Content
  <2>2. t \in Seq(Chars) /\ e <= Len(t)
    BY <1>1, <1>10
  <2>3. IsPart(Content(t, k), t, s, e)
    BY <1>12, <2>1, <2>2, ContentIs
  <2> QED
    BY <2>3 DEF IsPart
<1>14. \A i \in 1 .. (e - s + 1) : s + i - 1 = o + i
  BY <1>4, <1>10
<1>15. ColonIn(t, k) = a + 1 /\ NameIn(t, k) = f.name
  <2>1. Len(Content(t, k)) >= a + 1
    BY <1>12, <1>13
  <2>2. \A i \in 1 .. Len(Content(t, k)) : Content(t, k)[i] = t[o + i]
    BY <1>13, <1>14
  <2>3. o \in Nat /\ FieldAt(t, o, f, a, b, L) /\ Content(t, k) \in Seq(Chars)
    BY <1>4, <1>13
  <2> QED
    BY <2>1, <2>2, <2>3, NameRead
<1>16. /\ Len(FieldStarts(t)) = n /\ DOMAIN FieldStarts(t) = 1 .. n
       /\ \A l \in 1 .. n : FieldStarts(t)[l] = num[l - 1]
  BY FieldStartsAre
<1>17. FieldStarts(t)[j] = k
  BY <1>6, <1>16
<1>18. LastLine(t, j) = num[j] - 1
  <2>1. CASE j = n
    BY <1>1, <1>16, <2>1 DEF LastLine
  <2>2. CASE j # n
    <3>1. j + 1 \in 1 .. n /\ (j + 1) - 1 = j
      BY <1>1, <2>2
    <3>2. FieldStarts(t)[j + 1] = num[j]
      BY <1>16, <3>1
    <3> QED
      BY <1>16, <2>2, <3>2 DEF LastLine
  <2> QED
    BY <2>1, <2>2
<1>19. ValueIn(t, j) = SubSeq(t, (o + 1) + (a + 1), (o + L) - 2)
  <2>1. lines = Lines(t)
    BY DEF Laid
  <2>2. lines[k].start = o + 1 /\ lines[num[j] - 1].last = (o + L) - 2
    BY <1>4, <1>6
  <2> QED
    BY <1>15, <1>17, <1>18, <2>1, <2>2, Zenon DEF ValueIn
<1>20. o + L <= Len(t)
  <2>1. PICK N : N = Len(t)
    OBVIOUS
  <2>2. PICK z \in Nat : z = off[n]
    BY <1>1, <1>2
  <2>3. N = z + 2 + Len(body) /\ Len(body) \in Nat
    BY <2>1, <2>2 DEF Laid, IsReadable, IsMessage
  <2>4. off[j] <= z
    <3>1. IsReadable(t, fields, body, n, off)
      BY DEF Laid
    <3>2. \A i1, i2 \in 0 .. n : i1 < i2 => off[i1] + 4 <= off[i2]
      BY <3>1, OffsetsGrow
    <3>3. j = n \/ j < n
      BY <1>1
    <3>4. off[j] \in Nat
      BY <1>1, <1>2
    <3> QED
      BY <1>2, <2>2, <3>2, <3>3, <3>4
  <2>5. off[j] \in Nat
    BY <1>1, <1>2
  <2> QED
    BY <1>4, <2>1, <2>3, <2>4, <2>5
<1>21. ValueIn(t, j) = f.value
  <2>1. t \in Seq(Chars) /\ o \in Nat /\ FieldAt(t, o, f, a, b, L)
    BY <1>1, <1>4
  <2>2. SubSeq(t, (o + 1) + (a + 1), (o + L) - 2) = f.value
    BY <1>20, <2>1, ValueRead
  <2> QED
    BY <1>19, <2>2
<1>22. a + 1 # 0
  BY <1>5
<1> QED
  BY <1>3, <1>5, <1>15, <1>17, <1>21, <1>22 DEF FieldIsRead

\* What raw_message writes, raw_replacement's parser reads back: the same fields in the same
\* order and the same body, however many fields there are and wherever their values are
\* folded.  It takes header fields: names that are names, line feeds only in folds.
THEOREM MessageReadBack ==
  ASSUME NEW fields \in Seq(Fields), NEW body \in Seq(Chars),
         \A i \in DOMAIN fields : HeaderName(fields[i].name) /\ FoldsOnly(fields[i].value)
  PROVE  Parse(Text(fields, <<"cr", "lf">>, body)) =
           [ok |-> TRUE, fields |-> fields, body |-> body]
<1>1. PICK n \in Nat : n = Len(fields)
  OBVIOUS
<1>2. PICK t : t = Text(fields, <<"cr", "lf">>, body)
  OBVIOUS
<1>3. DOMAIN fields = 1 .. n /\ \A i \in 1 .. n : fields[i] \in Fields
  BY <1>1, ElementOfSeq
<1>4. PICK off : IsReadable(t, fields, body, n, off)
  <2>1. PICK off : IsMessage(t, fields, body, n, off)
    BY <1>1, <1>2, TextIsMessage
  <2>2. \A i \in 1 .. n : Readable(fields[i])
    BY <1>3 DEF Readable
  <2> QED
    BY <2>1, <2>2 DEF IsReadable
<1>5. PICK lines : lines = Lines(t)
  OBVIOUS
<1>6. PICK num : Laid(t, fields, body, n, off, lines, num)
  <2>1. PICK num : HeaderLines(t, fields, n, off, lines, num)
    BY <1>4, <1>5, HeaderLinesOK
  <2> QED
    BY <1>4, <1>5, <2>1 DEF Laid
<1>7. \A j \in 1 .. n : FieldIsRead(t, fields[j], j)
  BY <1>6, FieldRead
<1>8. PICK starts : starts = FieldStarts(t)
  OBVIOUS
<1>9. DOMAIN starts = 1 .. n
  <2>1. /\ Len(FieldStarts(t)) = n /\ DOMAIN FieldStarts(t) = 1 .. n
        /\ \A l \in 1 .. n : FieldStarts(t)[l] = num[l - 1]
    BY <1>6, FieldStartsAre
  <2> QED
    BY <1>8, <2>1
<1>10. PICK b \in Nat \ {0} : b = BlankLine(t) /\ b = num[n]
  <2>1. LaidFacts(t, n, off, lines, num)
    BY <1>6, LaidParts
  <2>2. n \in 0 .. n
    OBVIOUS
  <2> QED
    BY <2>1, <2>2 DEF LaidFacts
<1>11. b > 1 => ~Continued(t, 1)
  <2>1. SUFFICES ASSUME b > 1 PROVE ~Continued(t, 1)
    OBVIOUS
  <2>2. num[0] = 1 /\ lines[1].start = 1
    <3>1. num[0] = 1
      BY <1>6 DEF Laid, HeaderLines
    <3>2. lines[num[0]].start = off[0] + 1
      BY <1>6 DEF Laid, HeaderLines
    <3>3. off[0] = 0
      BY <1>4 DEF IsReadable, IsMessage
    <3> QED
      BY <3>1, <3>2, <3>3
  <2>3. n # 0
    BY <1>10, <2>1, <2>2
  <2>4. 1 \in 1 .. n /\ 1 - 1 = 0
    BY <2>3
  <2>5. PICK o, a, c, L :
          /\ o \in Nat /\ FieldAt(t, o, fields[1], a, c, L) /\ lines[num[0]].start = o + 1
    <3>1. Placed(t, fields, off, lines, num, 1)
      BY <1>6, <2>4, FieldPlace
    <3> QED
      BY <2>4, <3>1 DEF Placed
  <2>6. a \in Nat /\ a >= 1 /\ \A q \in 1 .. a : t[o + q] \in NameChars
    BY <2>5 DEF FieldAt
  <2>7. t[1] \in NameChars
    BY <2>2, <2>5, <2>6
  <2>8. 1 \in 1 .. (num[n] - 1)
    BY <1>10, <2>1
  <2>9. Continued(t, 1) <=> t[lines[1].start] \in Blanks
    BY <1>6, <2>8, ContinuedIs
  <2> QED
    BY <2>2, <2>7, <2>9 DEF NameChars, Blanks
<1>12. ~NotAMessage(t)
  <2>1. \A j \in 1 .. n : /\ ColonIn(t, starts[j]) # 0 /\ HeaderName(NameIn(t, starts[j]))
    BY <1>7, <1>8 DEF FieldIsRead
  <2> QED
    BY <1>8, <1>9, <1>10, <1>11, <2>1 DEF NotAMessage
<1>13. Parse(t) = [ok |-> TRUE,
                   fields |-> [j \in 1 .. n |->
                                 [name |-> NameIn(t, starts[j]), value |-> ValueIn(t, j)]],
                   body |-> SubSeq(t, Lines(t)[BlankLine(t)].next, Len(t))]
  BY <1>8, <1>9, <1>12, ParseParts
<1>14. [j \in 1 .. n |-> [name |-> NameIn(t, starts[j]), value |-> ValueIn(t, j)]] = fields
  <2>1. ASSUME NEW j \in 1 .. n
        PROVE  [name |-> NameIn(t, starts[j]), value |-> ValueIn(t, j)] = fields[j]
    <3>1. NameIn(t, starts[j]) = fields[j].name /\ ValueIn(t, j) = fields[j].value
      BY <1>7, <1>8 DEF FieldIsRead
    <3>2. fields[j] = [name |-> fields[j].name, value |-> fields[j].value]
      BY <1>3 DEF Fields
    <3> QED
      BY <3>1, <3>2
  <2>2. [j \in 1 .. n |-> [name |-> NameIn(t, starts[j]), value |-> ValueIn(t, j)]]
          = [j \in 1 .. n |-> fields[j]]
    BY <2>1
  <2>3. fields = [j \in 1 .. n |-> fields[j]]
    BY <1>3
  <2> QED
    BY <2>2, <2>3
<1>15. SubSeq(t, Lines(t)[BlankLine(t)].next, Len(t)) = body
  <2>1. PICK z : z = off[n]
    OBVIOUS
  <2>2. /\ z \in Nat /\ t \in Seq(Chars) /\ Len(t) = z + 2 + Len(body)
        /\ \A p \in 1 .. Len(body) : t[z + 2 + p] = body[p]
    BY <1>4, <2>1 DEF IsReadable, IsMessage
  <2>3. Lines(t)[BlankLine(t)].next = z + 3
    BY <1>5, <1>6, <1>10, <2>1 DEF Laid, HeaderLines
  <2>4. PICK m \in Nat : m = Len(body)
    OBVIOUS
  <2>5. PICK N \in Int : N = Len(t) /\ N = z + 2 + m
    BY <2>2, <2>4
  <2>6. z + 3 \in Int /\ 1 <= z + 3 /\ z + 3 <= N + 1 /\ N <= Len(t) /\ N - (z + 3) + 1 = m
    <3>1. z \in Nat
      BY <2>2
    <3> QED
      BY <2>5, <3>1
  <2>7. IsPart(SubSeq(t, z + 3, N), t, z + 3, N)
    BY <2>2, <2>6, PartOf
  <2>8. PICK w : w = SubSeq(t, z + 3, N)
    OBVIOUS
  <2>9. w \in Seq(Chars) /\ Len(w) = m /\ \A i \in 1 .. m : w[i] = t[(z + 3) + i - 1]
    BY <2>6, <2>7, <2>8 DEF IsPart
  <2>10. \A i \in 1 .. m : (z + 3) + i - 1 = z + 2 + i
    BY <2>2
  <2>11. \A i \in 1 .. m : w[i] = body[i]
    BY <2>2, <2>4, <2>9, <2>10
  <2>12. w = body
    BY <2>4, <2>9, <2>11, SeqEqual
  <2> QED
    BY <2>3, <2>5, <2>8, <2>12
<1> QED
  BY <1>2, <1>13, <1>14, <1>15

\* A name and a value that the validators accept are read back as they are, and as one
\* field: no value, folded or not, ends its field early or starts another one.
THEOREM OneFieldReadBack ==
  ASSUME NEW f \in Fields, HeaderName(f.name), HeaderValue(f.value)
  PROVE  Parse(Text(<<f>>, <<"cr", "lf">>, <<>>)).fields = <<f>>
<1>1. FoldsOnly(f.value)
  BY DEF HeaderValue, FoldsOnly
<1>2. PICK fields : fields = <<f>>
  OBVIOUS
<1>3. fields \in Seq(Fields) /\ <<>> \in Seq(Chars)
  BY <1>2
<1>4. \A i \in DOMAIN fields : HeaderName(fields[i].name) /\ FoldsOnly(fields[i].value)
  <2>1. DOMAIN fields = {1} /\ fields[1] = f
    BY <1>2
  <2> QED
    BY <1>1, <2>1
<1>5. Parse(Text(fields, <<"cr", "lf">>, <<>>)) = [ok |-> TRUE, fields |-> fields, body |-> <<>>]
  BY <1>3, <1>4, MessageReadBack
<1> QED
  BY <1>2, <1>5

-----------------------------------------------------------------------------
(* What is read from a text is text. *)

\* Any list of fields and body is written as text.
LEMMA TextIsText ==
  ASSUME NEW fields \in Seq(Fields), NEW ending \in Seq(Chars), NEW body \in Seq(Chars)
  PROVE  Text(fields, ending, body) \in Seq(Chars)
<1>1. PICK n : n = Len(fields)
  OBVIOUS
<1>2. n \in Nat /\ DOMAIN fields = 1 .. n
  BY <1>1
<1>3. <<":">> \in Seq(Chars)
  BY DEF Chars
<1>4. ASSUME NEW f \in Fields
      PROVE  Line(f, ending) \in Seq(Chars)
  <2>1. f.name \in Seq(Chars) /\ f.value \in Seq(Chars)
    BY DEF Fields
  <2>2. f.name \o <<":">> \in Seq(Chars)
    BY <1>3, <2>1, ConcatProperties
  <2>3. f.name \o <<":">> \o f.value \in Seq(Chars)
    BY <2>1, <2>2, ConcatProperties
  <2> QED
    BY <2>3, ConcatProperties DEF Line
<1> DEFINE lines == [i \in DOMAIN fields |-> Line(fields[i], ending)]
<1>5. lines \in Seq(Seq(Chars))
  <2>1. \A i \in 1 .. n : fields[i] \in Fields
    BY <1>1, ElementOfSeq
  <2>2. \A i \in 1 .. n : Line(fields[i], ending) \in Seq(Chars)
    BY <1>4, <2>1
  <2>3. lines \in [1 .. n -> Seq(Chars)]
    BY <1>2, <2>2
  <2> HIDE DEF lines
  <2> QED
    BY <1>2, <2>3, SeqDef
<1> HIDE DEF lines
<1>6. FlattenSeq(lines) \in Seq(Chars)
  BY <1>5, FlattenIsText
<1>7. FlattenSeq(lines) \o ending \in Seq(Chars)
  BY <1>6, ConcatProperties
<1>8. FlattenSeq(lines) \o ending \o body \in Seq(Chars)
  BY <1>7, ConcatProperties
<1> QED
  BY <1>8 DEF Text, lines

\* Every subset of an interval is finite and can be listed in order.
LEMMA AscendingPart ==
  ASSUME NEW n \in Nat, NEW S, S \subseteq 1 .. n
  PROVE  /\ IsFiniteSet(S) /\ Cardinality(S) \in Nat
         /\ Ascending(S) \in Seq(S)
         /\ \A k, l \in 1 .. Len(Ascending(S)) : k < l => Ascending(S)[k] < Ascending(S)[l]
<1>1. IsFiniteSet(1 .. n)
  BY FS_Interval
<1>2. IsFiniteSet(S) /\ S \subseteq Int
  <2>1. S \in SUBSET (1 .. n)
    OBVIOUS
  <2>2. IsFiniteSet(S)
    BY <1>1, <2>1, FS_Subset
  <2> QED
    BY <2>2
<1>3. /\ Cardinality(S) \in Nat
      /\ Ascending(S) \in Seq(S)
      /\ Len(Ascending(S)) = Cardinality(S)
      /\ \A k, l \in 1 .. Cardinality(S) : k < l => Ascending(S)[k] < Ascending(S)[l]
  BY <1>2, AscendingOK
<1> QED
  BY <1>2, <1>3

\* The lines of a text lie inside it.
LEMMA LinesInside ==
  ASSUME NEW t \in Seq(Chars), NEW N, N = Len(t)
  PROVE  Lines(t) \in Seq([start : 1 .. (N + 1), last : 0 .. N, next : 1 .. (N + 1)])
<1>1. N \in Nat /\ DOMAIN t = 1 .. N
  OBVIOUS
<1>2. PICK ends : ends = LineEnds(t)
  OBVIOUS
<1>3. PICK K : K = Len(ends)
  OBVIOUS
<1>4. ends \in Seq(1 .. N)
  <2> DEFINE S == {i \in DOMAIN t : t[i] = "lf"}
  <2>1. S \subseteq 1 .. N
    BY <1>1
  <2>2. ends = Ascending(S)
    BY <1>2 DEF LineEnds
  <2> HIDE DEF S
  <2>3. ends \in Seq(S)
    BY <1>1, <2>1, <2>2, AscendingPart
  <2> QED
    BY <2>1, <2>3, SeqMonotonic
<1>5. K \in Nat /\ DOMAIN ends = 1 .. K /\ \A k \in 1 .. K : ends[k] \in 1 .. N
  BY <1>3, <1>4
<1> DEFINE start(k) == IF k = 1 THEN 1 ELSE ends[k - 1] + 1
           line(k) == [start |-> start(k), last |-> ContentEnd(t, start(k), ends[k]),
                       next |-> ends[k] + 1]
           R == [start : 1 .. (N + 1), last : 0 .. N, next : 1 .. (N + 1)]
<1>6. ASSUME NEW k \in 1 .. K
      PROVE  line(k) \in R
  <2>1. start(k) \in 1 .. (N + 1)
    <3>1. CASE k = 1
      BY <1>1, <3>1
    <3>2. CASE k # 1
      <4>1. k - 1 \in 1 .. K
        BY <1>5, <3>2
      <4>2. ends[k - 1] \in 1 .. N
        BY <1>5, <4>1
      <4> QED
        BY <1>1, <3>2, <4>2
    <3> QED
      BY <3>1, <3>2
  <2>2. ends[k] \in 1 .. N
    BY <1>5
  <2> HIDE DEF start
  <2>3. ContentEnd(t, start(k), ends[k]) \in 0 .. N
    BY <1>1, <2>1, <2>2 DEF ContentEnd
  <2>4. ends[k] + 1 \in 1 .. (N + 1)
    BY <1>1, <2>2
  <2> QED
    BY <2>1, <2>3, <2>4
<1>7. Lines(t) = [k \in 1 .. K |-> line(k)]
  BY <1>2, <1>5 DEF Lines
<1> HIDE DEF line, R
<1>8. [k \in 1 .. K |-> line(k)] \in [1 .. K -> R]
  BY <1>6
<1>9. [k \in 1 .. K |-> line(k)] \in Seq(R)
  BY <1>5, <1>8, SeqDef
<1> QED
  BY <1>7, <1>9 DEF R

\* Parsing a text gives fields and a body that are text.
LEMMA ParsedIsText ==
  ASSUME NEW t \in Seq(Chars)
  PROVE  Parse(t).fields \in Seq(Fields) /\ Parse(t).body \in Seq(Chars)
<1>1. CASE NotAMessage(t)
  <2>1. Parse(t) = Malformed
    BY <1>1, ParseParts
  <2> QED
    BY <2>1 DEF Malformed
<1>2. CASE ~NotAMessage(t)
  <2>1. PICK N : N = Len(t)
    OBVIOUS
  <2>2. N \in Nat /\ DOMAIN t = 1 .. N /\ \A i \in 1 .. N : t[i] \in Chars
    BY <2>1
  <2>3. PICK lines : lines = Lines(t)
    OBVIOUS
  <2>4. PICK K : K = Len(lines)
    OBVIOUS
  <2>5. /\ K \in Nat
        /\ \A k \in 1 .. K : lines[k] \in [start : 1 .. (N + 1), last : 0 .. N, next : 1 .. (N + 1)]
    <3> DEFINE R == [start : 1 .. (N + 1), last : 0 .. N, next : 1 .. (N + 1)]
    <3>1. lines \in Seq(R)
      BY <2>1, <2>3, LinesInside
    <3> HIDE DEF R
    <3>2. K \in Nat /\ \A k \in 1 .. K : lines[k] \in R
      BY <2>4, <3>1, ElementOfSeq
    <3> QED
      BY <3>2 DEF R
  <2>6. \A k \in 1 .. K : /\ lines[k].start \in 1 .. (N + 1) /\ lines[k].last \in 0 .. N
                          /\ lines[k].next \in 1 .. (N + 1)
    BY <2>5
  <2>7. PICK blank : blank = BlankLine(t)
    OBVIOUS
  <2>8. blank \in 1 .. K
    <3> DEFINE S == {k \in 1 .. K : lines[k].last < lines[k].start}
    <3>1. blank = FirstOf(S)
      BY <2>3, <2>4, <2>7 DEF BlankLine
    <3>2. S \subseteq Nat /\ S \subseteq 1 .. K
      BY <2>5
    <3> HIDE DEF S
    <3>3. blank # 0
      BY <1>2, <2>7 DEF NotAMessage
    <3>4. S # {}
      BY <3>1, <3>2, <3>3, FirstOfOK
    <3>5. FirstOf(S) \in S
      BY <3>2, <3>4, FirstOfOK
    <3> QED
      BY <3>1, <3>2, <3>5
  <2>9. PICK first : first = FieldStarts(t)
    OBVIOUS
  <2>10. PICK J : J = Len(first)
    OBVIOUS
  <2>11. /\ J \in Nat /\ DOMAIN first = 1 .. J
         /\ \A j \in 1 .. J : first[j] \in 1 .. (blank - 1)
         /\ \A j, l \in 1 .. J : j < l => first[j] < first[l]
    <3> DEFINE S == {k \in 1 .. (blank - 1) : ~Continued(t, k)}
    <3>1. S \subseteq 1 .. (blank - 1) /\ blank - 1 \in Nat
      BY <2>5, <2>8
    <3>2. first = Ascending(S)
      BY <2>7, <2>9 DEF FieldStarts
    <3> HIDE DEF S
    <3>3. /\ Ascending(S) \in Seq(S)
          /\ \A k, l \in 1 .. Len(Ascending(S)) : k < l => Ascending(S)[k] < Ascending(S)[l]
      BY <3>1, AscendingPart
    <3>4. first \in Seq(S)
      BY <3>2, <3>3
    <3>5. J \in Nat /\ DOMAIN first = 1 .. J /\ \A j \in 1 .. J : first[j] \in S
      BY <2>10, <3>4
    <3> QED
      BY <2>10, <3>1, <3>2, <3>3, <3>5
  <2>12. ASSUME NEW k \in 1 .. K
         PROVE  /\ Content(t, k) \in Seq(Chars)
                /\ Len(Content(t, k)) \in Nat
    <3>1. PICK b : b = lines[k].start
      OBVIOUS
    <3>2. PICK e : e = lines[k].last
      OBVIOUS
    <3>3. b \in 1 .. (N + 1) /\ e \in 0 .. N
      BY <2>6, <3>1, <3>2
    <3>4. b \in Int /\ e \in Int /\ \A i \in b .. e : t[i] \in Chars
      BY <2>2, <3>3
    <3>5. SubSeq(t, b, e) \in Seq(Chars)
      BY <3>4, SubSeqProperties
    <3>6. Content(t, k) \in Seq(Chars)
      BY <2>3, <3>1, <3>2, <3>5 DEF Content
    <3> QED
      BY <3>6
  <2>13. ASSUME NEW j \in 1 .. J
         PROVE  [name |-> NameIn(t, first[j]), value |-> ValueIn(t, j)] \in Fields
    <3>1. PICK k : k = first[j]
      OBVIOUS
    <3>2. k \in 1 .. (blank - 1) /\ k \in 1 .. K
      BY <2>5, <2>8, <2>11, <3>1
    <3>3. PICK c : c = Content(t, k)
      OBVIOUS
    <3>4. c \in Seq(Chars) /\ Len(c) \in Nat
      BY <2>12, <3>2, <3>3
    <3>5. PICK q : q = ColonIn(t, k)
      OBVIOUS
    <3>6. q \in 1 .. Len(c)
      <4> DEFINE S == {i \in 1 .. Len(c) : c[i] = ":"}
      <4>1. q = FirstOf(S)
        BY <3>3, <3>5 DEF ColonIn
      <4>2. S \subseteq Nat /\ S \subseteq 1 .. Len(c)
        BY <3>4
      <4> HIDE DEF S
      <4>3. q # 0
        BY <1>2, <2>9, <2>11, <3>1, <3>5 DEF NotAMessage
      <4>4. S # {}
        BY <4>1, <4>2, <4>3, FirstOfOK
      <4>5. FirstOf(S) \in S
        BY <4>2, <4>4, FirstOfOK
      <4> QED
        BY <4>1, <4>2, <4>5
    <3>7. NameIn(t, k) \in Seq(Chars)
      <4>1. \A i \in 1 .. (q - 1) : c[i] \in Chars
        BY <3>4, <3>6, ElementOfSeq
      <4>2. 1 \in Int /\ q - 1 \in Int
        BY <3>4, <3>6
      <4>3. SubSeq(c, 1, q - 1) \in Seq(Chars)
        BY <4>1, <4>2, SubSeqProperties
      <4> QED
        BY <3>3, <3>5, <4>3 DEF NameIn
    <3>8. LastLine(t, j) \in 1 .. K
      <4>1. CASE j = J
        <5>1. LastLine(t, j) = blank - 1
          BY <2>7, <2>9, <2>10, <4>1 DEF LastLine
        <5> QED
          BY <2>5, <2>8, <3>2, <5>1
      <4>2. CASE j # J
        <5>1. LastLine(t, j) = first[j + 1] - 1
          BY <2>7, <2>9, <2>10, <4>2 DEF LastLine
        <5>2. j + 1 \in 1 .. J /\ j < j + 1
          BY <2>11, <4>2
        <5>3. first[j + 1] \in 1 .. (blank - 1) /\ first[j] < first[j + 1]
          BY <2>11, <5>2
        <5> QED
          BY <2>5, <2>8, <3>1, <3>2, <5>1, <5>3
      <4> QED
        BY <4>1, <4>2
    <3>9. ValueIn(t, j) \in Seq(Chars)
      <4>1. PICK b : b = lines[k].start + q
        OBVIOUS
      <4>2. PICK e : e = lines[LastLine(t, j)].last
        OBVIOUS
      <4>3. b \in Nat /\ b >= 1 /\ e \in 0 .. N
        BY <2>2, <2>6, <3>2, <3>4, <3>6, <3>8, <4>1, <4>2
      <4>4. b \in Int /\ e \in Int /\ \A i \in b .. e : t[i] \in Chars
        BY <2>2, <4>3
      <4>5. SubSeq(t, b, e) \in Seq(Chars)
        BY <4>4, SubSeqProperties
      <4> QED
        BY <2>3, <2>9, <3>1, <3>5, <4>1, <4>2, <4>5 DEF ValueIn
    <3> QED
      BY <3>1, <3>7, <3>9 DEF Fields
  <2>14. Parse(t) = [ok |-> TRUE,
                     fields |-> [j \in DOMAIN FieldStarts(t) |->
                                   [name |-> NameIn(t, FieldStarts(t)[j]), value |-> ValueIn(t, j)]],
                     body |-> SubSeq(t, Lines(t)[BlankLine(t)].next, Len(t))]
    BY <1>2, ParseParts
  <2>15. Parse(t).fields = [j \in 1 .. J |-> [name |-> NameIn(t, first[j]), value |-> ValueIn(t, j)]]
    BY <2>9, <2>11, <2>14
  <2>16. Parse(t).fields \in Seq(Fields)
    <3>1. Parse(t).fields \in [1 .. J -> Fields]
      BY <2>13, <2>15
    <3> QED
      BY <2>11, <3>1, SeqDef
  <2>17. Parse(t).body \in Seq(Chars)
    <3>1. PICK b : b = lines[blank].next
      OBVIOUS
    <3>2. b \in Int /\ N \in Int /\ \A i \in b .. N : t[i] \in Chars
      BY <2>2, <2>6, <2>8, <3>1
    <3>3. SubSeq(t, b, N) \in Seq(Chars)
      BY <3>2, SubSeqProperties
    <3> QED
      BY <2>1, <2>3, <2>7, <2>14, <3>1, <3>3
  <2> QED
    BY <2>16, <2>17
<1> QED
  BY <1>1, <1>2

-----------------------------------------------------------------------------
(* The edits of an answer and the modifications made of them. *)

HeaderKinds == {"AddHeader", "InsertHeader", "ChangeHeader", "InsertRawHeader"}
OtherKinds == {"ReplaceBody", "ChangeFrom", "DeleteRecipient", "AddRecipient", "Quarantine"}

\* An address, or the mark of one that was never set or was taken back.
Addresses == STRING \cup {Unset}

\* Modifications: of the header the name is text, of the envelope an address.
Mods == [kind : HeaderKinds, name : Seq(Chars), value : Seq(Chars), index : Int]
          \cup [kind : OtherKinds, name : Seq(Chars) \cup Addresses, value : Seq(Chars), index : Int]

\* The slots of a list with o original and a added entries.
Slots(o, a) == {Original(i) : i \in 1 .. o} \cup {Added(i) : i \in 1 .. a}

\* The type of struct Edits: every slot names an entry that exists.
EditsOK(s, e) ==
  e \in [changes : Seq([at : DOMAIN s.headers, value : Seq(Chars)]),
         deletes : Seq(DOMAIN s.headers),
         added : Seq(Fields),
         headers : Seq(Slots(Len(s.headers), Len(e.added))),
         from : Addresses,
         toDeletes : Seq(DOMAIN s.to),
         toAdded : Seq(Addresses),
         to : Seq(Slots(Len(s.to), Len(e.toAdded)))]

\* What the code needs to know of a session.
SessionOK(s) == s.headers \in Seq(Fields) /\ s.to \in Seq(Addresses) /\ s.body \in Seq(Chars)

\* More entries, more slots.
LEMMA SlotsGrow ==
  ASSUME NEW o \in Nat, NEW a \in Nat
  PROVE  Slots(o, a) \subseteq Slots(o, a + 1) /\ Added(a + 1) \in Slots(o, a + 1)
BY DEF Slots, Original, Added

\* A slot is inserted at its index or, without one, at the end.
LEMMA InsertSlotOK ==
  ASSUME NEW S, NEW list \in Seq(S), NEW index \in -1 .. Len(list), NEW slot \in S
  PROVE  /\ InsertSlot(list, index, slot) \in Seq(S)
         /\ Len(InsertSlot(list, index, slot)) = Len(list) + 1
<1>1. CASE index = -1
  BY <1>1, AppendProperties DEF InsertSlot
<1>2. CASE index # -1
  <2>1. index \in 0 .. Len(list) /\ Len(list) \in Nat
    BY <1>2
  <2>2. PICK l : l = SubSeq(list, 1, index)
    OBVIOUS
  <2>3. PICK r : r = SubSeq(list, index + 1, Len(list))
    OBVIOUS
  <2>4. \A i \in 1 .. Len(list) : list[i] \in S
    BY ElementOfSeq
  <2>5. l \in Seq(S) /\ Len(l) = index
    <3>1. \A i \in 1 .. index : list[i] \in S
      BY <2>1, <2>4
    <3>2. 1 \in Int /\ index \in Int
      BY <2>1
    <3>3. l \in Seq(S) /\ Len(l) = IF 1 <= index THEN index - 1 + 1 ELSE 0
      BY <2>2, <3>1, <3>2, SubSeqProperties
    <3> QED
      BY <2>1, <3>3
  <2>6. r \in Seq(S) /\ Len(r) = Len(list) - index
    <3>1. \A i \in (index + 1) .. Len(list) : list[i] \in S
      BY <2>1, <2>4
    <3>2. index + 1 \in Int /\ Len(list) \in Int
      BY <2>1
    <3>3. r \in Seq(S) /\ Len(r) = IF index + 1 <= Len(list) THEN Len(list) - (index + 1) + 1 ELSE 0
      BY <2>3, <3>1, <3>2, SubSeqProperties
    <3> QED
      BY <2>1, <3>3
  <2>7. <<slot>> \in Seq(S) /\ Len(<<slot>>) = 1
    OBVIOUS
  <2>8. l \o <<slot>> \in Seq(S) /\ Len(l \o <<slot>>) = index + 1
    BY <2>5, <2>7, ConcatProperties
  <2>9. l \o <<slot>> \o r \in Seq(S) /\ Len(l \o <<slot>> \o r) = index + 1 + (Len(list) - index)
    BY <2>6, <2>8, ConcatProperties
  <2>10. InsertSlot(list, index, slot) = l \o <<slot>> \o r
    <3>1. (index + 1) - 1 = index
      BY <2>1
    <3> QED
      BY <1>2, <2>2, <2>3, <3>1 DEF InsertSlot, InsertAt
  <2>11. index + 1 + (Len(list) - index) = Len(list) + 1
    BY <2>1
  <2> QED
    BY <2>9, <2>10, <2>11, Zenon
<1> QED
  BY <1>1, <1>2

\* An entry taken out leaves the others.
LEMMA RemoveAtOK ==
  ASSUME NEW S, NEW list \in Seq(S), NEW p \in 1 .. Len(list)
  PROVE  RemoveAt(list, p) \in Seq(S) /\ Len(RemoveAt(list, p)) = Len(list) - 1
<1>1. Len(list) \in Nat /\ \A i \in 1 .. Len(list) : list[i] \in S
  BY ElementOfSeq
<1>2. PICK l : l = SubSeq(list, 1, p - 1)
  OBVIOUS
<1>3. PICK r : r = SubSeq(list, p + 1, Len(list))
  OBVIOUS
<1>4. l \in Seq(S) /\ Len(l) = p - 1
  <2>1. \A i \in 1 .. (p - 1) : list[i] \in S
    BY <1>1
  <2>2. 1 \in Int /\ p - 1 \in Int
    BY <1>1
  <2>3. l \in Seq(S) /\ Len(l) = IF 1 <= p - 1 THEN (p - 1) - 1 + 1 ELSE 0
    BY <1>2, <2>1, <2>2, SubSeqProperties
  <2> QED
    BY <1>1, <2>3
<1>5. r \in Seq(S) /\ Len(r) = Len(list) - p
  <2>1. \A i \in (p + 1) .. Len(list) : list[i] \in S
    BY <1>1
  <2>2. p + 1 \in Int /\ Len(list) \in Int
    BY <1>1
  <2>3. r \in Seq(S) /\ Len(r) = IF p + 1 <= Len(list) THEN Len(list) - (p + 1) + 1 ELSE 0
    BY <1>3, <2>1, <2>2, SubSeqProperties
  <2> QED
    BY <1>1, <2>3
<1>6. l \o r \in Seq(S) /\ Len(l \o r) = (p - 1) + (Len(list) - p)
  <2>1. l \o r \in Seq(S) /\ Len(l \o r) = Len(l) + Len(r)
    BY <1>4, <1>5, ConcatProperties
  <2> QED
    BY <1>4, <1>5, <2>1, Zenon
<1>7. RemoveAt(list, p) = l \o r
  BY <1>2, <1>3 DEF RemoveAt
<1> QED
  BY <1>1, <1>6, <1>7

\* Positions of a list, from the last to the first.
LEMMA DescendingPart ==
  ASSUME NEW n \in Nat, NEW S, S \subseteq 1 .. n
  PROVE  Descending(S) \in Seq(S)
<1>1. PICK a : a = Ascending(S)
  OBVIOUS
<1>2. a \in Seq(S)
  BY <1>1, AscendingPart
<1>3. PICK m : m = Len(a)
  OBVIOUS
<1>4. m \in Nat /\ \A i \in 1 .. m : a[i] \in S
  BY <1>2, <1>3, ElementOfSeq
<1>5. \A i \in 1 .. m : (m - i) + 1 \in 1 .. m
  BY <1>4
<1>6. [i \in 1 .. m |-> a[(m - i) + 1]] \in [1 .. m -> S]
  BY <1>4, <1>5
<1>7. [i \in 1 .. m |-> a[(m - i) + 1]] \in Seq(S)
  BY <1>4, <1>6, SeqDef
<1> QED
  BY <1>1, <1>3, <1>7 DEF Descending, Reverse

\* The occurrence of a header is a number.
LEMMA OccurrenceOK ==
  ASSUME NEW headers, NEW n \in Nat, NEW i \in 1 .. n
  PROVE  Occurrence(headers, i) \in Int
<1> DEFINE S == {j \in 1 .. i : SameName(headers[j].name, headers[i].name)}
<1>1. i \in Nat /\ S \subseteq 1 .. i
  OBVIOUS
<1> HIDE DEF S
<1>2. Cardinality(S) \in Nat
  BY <1>1, AscendingPart
<1> QED
  BY <1>2 DEF Occurrence, S

\* Changes and deletions of headers are modifications.
LEMMA HeaderEditsOK ==
  ASSUME NEW s, NEW e, SessionOK(s), EditsOK(s, e)
  PROVE  HeaderEdits(s, e) \in Seq(Mods)
<1>1. PICK n : n = Len(s.headers)
  OBVIOUS
<1>2. n \in Nat /\ DOMAIN s.headers = 1 .. n
  BY <1>1 DEF SessionOK
<1>3. PICK changes : changes = e.changes
  OBVIOUS
<1>4. PICK deletes : deletes = e.deletes
  OBVIOUS
<1>5. changes \in Seq([at : 1 .. n, value : Seq(Chars)]) /\ deletes \in Seq(1 .. n)
  BY <1>2, <1>3, <1>4 DEF EditsOK
<1>6. /\ Len(changes) \in Nat /\ DOMAIN changes = 1 .. Len(changes)
      /\ \A k \in 1 .. Len(changes) : changes[k] \in [at : 1 .. n, value : Seq(Chars)]
      /\ \A k \in DOMAIN deletes : deletes[k] \in 1 .. n
  <2> DEFINE C == [at : 1 .. n, value : Seq(Chars)]
  <2>1. changes \in Seq(C)
    BY <1>5
  <2> HIDE DEF C
  <2>2. /\ Len(changes) \in Nat /\ DOMAIN changes = 1 .. Len(changes)
        /\ \A k \in 1 .. Len(changes) : changes[k] \in C
    BY <2>1
  <2>3. \A k \in DOMAIN deletes : deletes[k] \in 1 .. n
    <3>1. deletes \in Seq(1 .. n)
      BY <1>5
    <3>2. DOMAIN deletes = 1 .. Len(deletes)
      BY <3>1
    <3> QED
      BY <3>1, <3>2, ElementOfSeq
  <2> QED
    BY <2>2, <2>3 DEF C
<1>7. PICK S : S = ChangedOrDeleted(e)
  OBVIOUS
<1>8. S = {changes[k].at : k \in DOMAIN changes} \cup {deletes[k] : k \in DOMAIN deletes}
  BY <1>3, <1>4, <1>7 DEF ChangedOrDeleted, ToSet
<1>9. S \subseteq 1 .. n
  BY <1>6, <1>8
<1>10. PICK order : order = Descending(S)
  OBVIOUS
<1>11. order \in Seq(S)
  BY <1>2, <1>9, <1>10, DescendingPart
<1>12. PICK m : m = Len(order)
  OBVIOUS
<1>13. m \in Nat /\ DOMAIN order = 1 .. m /\ \A k \in 1 .. m : order[k] \in S
  BY <1>11, <1>12
<1>14. ASSUME NEW i \in S
       PROVE  ChangedTo(e, i) \in Seq(Chars)
  <2>1. CASE i \in ToSet(deletes)
    BY <1>4, <2>1 DEF ChangedTo
  <2>2. CASE i \notin ToSet(deletes)
    <3> DEFINE C == {k \in 1 .. Len(changes) : changes[k].at = i}
    <3>1. C # {}
      BY <1>6, <1>8, <2>2 DEF ToSet
    <3>2. C \subseteq Nat /\ C \subseteq 1 .. Len(changes)
      BY <1>6
    <3>3. ChangedTo(e, i) = changes[FirstOf(C)].value
      BY <1>3, <1>4, <2>2 DEF ChangedTo, SelectInSeq, FirstOf
    <3> HIDE DEF C
    <3>4. FirstOf(C) \in 1 .. Len(changes)
      BY <3>1, <3>2, FirstOfOK
    <3>5. changes[FirstOf(C)] \in [at : 1 .. n, value : Seq(Chars)]
      BY <1>6, <3>4
    <3> QED
      BY <3>3, <3>5
  <2> QED
    BY <2>1, <2>2
<1>15. ASSUME NEW i \in S
       PROVE  Modify("ChangeHeader", s.headers[i].name, ChangedTo(e, i), Occurrence(s.headers, i))
                \in Mods
  <2>1. i \in 1 .. n
    BY <1>9
  <2>2. s.headers[i] \in Fields
    BY <1>1, <2>1, ElementOfSeq DEF SessionOK
  <2>3. s.headers[i].name \in Seq(Chars)
    BY <2>2 DEF Fields
  <2>4. Occurrence(s.headers, i) \in Int
    BY <1>2, <2>1, OccurrenceOK
  <2> QED
    BY <1>14, <2>3, <2>4 DEF Modify, Mods, HeaderKinds
<1> DEFINE M(k) == Modify("ChangeHeader", s.headers[order[k]].name, ChangedTo(e, order[k]),
                          Occurrence(s.headers, order[k]))
<1>16. \A k \in 1 .. m : M(k) \in Mods
  BY <1>13, <1>15
<1>17. HeaderEdits(s, e) = [k \in 1 .. m |-> M(k)]
  BY <1>7, <1>10, <1>13 DEF HeaderEdits
<1> HIDE DEF M
<1>18. [k \in 1 .. m |-> M(k)] \in [1 .. m -> Mods]
  BY <1>16
<1>19. [k \in 1 .. m |-> M(k)] \in Seq(Mods)
  BY <1>13, <1>18, SeqDef
<1> QED
  BY <1>17, <1>19

\* Insertions of added headers are modifications.
LEMMA InsertionsOK ==
  ASSUME NEW s, NEW e, SessionOK(s), EditsOK(s, e)
  PROVE  Insertions(e) \in Seq(Mods)
<1>1. PICK o : o = Len(s.headers)
  OBVIOUS
<1>2. PICK added : added = e.added
  OBVIOUS
<1>3. PICK headers : headers = e.headers
  OBVIOUS
<1>4. added \in Seq(Fields)
  BY <1>2 DEF EditsOK
<1>5. headers \in Seq(Slots(o, Len(added)))
  BY <1>1, <1>2, <1>3 DEF EditsOK
<1>6. PICK n : n = Len(headers)
  OBVIOUS
<1>7. n \in Nat /\ DOMAIN headers = 1 .. n /\ \A p \in 1 .. n : headers[p] \in Slots(o, Len(added))
  BY <1>5, <1>6
<1> DEFINE S == {p \in DOMAIN headers : headers[p].kind = "Added"}
<1>8. S \subseteq 1 .. n
  BY <1>7
<1>9. ASSUME NEW p \in S
      PROVE  /\ p \in 1 .. n
             /\ added[headers[p].at].name \in Seq(Chars) /\ added[headers[p].at].value \in Seq(Chars)
  <2>1. p \in 1 .. n /\ headers[p].kind = "Added" /\ headers[p] \in Slots(o, Len(added))
    BY <1>7
  <2>2. PICK i \in 1 .. Len(added) : headers[p] = Added(i)
    BY <2>1 DEF Slots, Original, Added
  <2>3. headers[p].at = i
    BY <2>2 DEF Added
  <2>4. added[i] \in Fields
    BY <1>4, ElementOfSeq
  <2> QED
    BY <2>1, <2>3, <2>4 DEF Fields
<1>10. PICK places : places = Ascending(S)
  OBVIOUS
<1>11. Insertions(e) =
         [k \in DOMAIN places |->
            Modify(IF places[k] = n THEN "AddHeader" ELSE "InsertHeader",
                   added[headers[places[k]].at].name, added[headers[places[k]].at].value,
                   places[k] - 1)]
  BY <1>2, <1>3, <1>6, <1>10 DEF Insertions
<1> HIDE DEF S
<1>12. places \in Seq(S)
  BY <1>7, <1>8, <1>10, AscendingPart
<1>13. PICK m : m = Len(places)
  OBVIOUS
<1>14. m \in Nat /\ DOMAIN places = 1 .. m /\ \A k \in 1 .. m : places[k] \in S
  BY <1>12, <1>13
<1> DEFINE M(p) == Modify(IF p = n THEN "AddHeader" ELSE "InsertHeader",
                          added[headers[p].at].name, added[headers[p].at].value, p - 1)
<1>15. ASSUME NEW p \in S
       PROVE  M(p) \in Mods
  <2>1. p - 1 \in Int
    BY <1>9
  <2>2. PICK kind \in {"AddHeader", "InsertHeader"} :
          kind = IF p = n THEN "AddHeader" ELSE "InsertHeader"
    OBVIOUS
  <2> QED
    BY <1>9, <2>1, <2>2 DEF Modify, Mods, HeaderKinds
<1>16. Insertions(e) = [k \in 1 .. m |-> M(places[k])]
  BY <1>11, <1>14
<1> HIDE DEF M
<1>17. [k \in 1 .. m |-> M(places[k])] \in [1 .. m -> Mods]
  BY <1>14, <1>15
<1>18. [k \in 1 .. m |-> M(places[k])] \in Seq(Mods)
  BY <1>14, <1>17, SeqDef
<1> QED
  BY <1>16, <1>18

\* Edits of the envelope are modifications.
LEMMA EnvelopeEditsOK ==
  ASSUME NEW s, NEW e, SessionOK(s), EditsOK(s, e)
  PROVE  EnvelopeEdits(s, e) \in Seq(Mods)
<1>1. PICK gone : gone = e.toDeletes
  OBVIOUS
<1>2. PICK new : new = e.toAdded
  OBVIOUS
<1>3. PICK to : to = s.to
  OBVIOUS
<1>4. to \in Seq(Addresses) /\ gone \in Seq(DOMAIN to) /\ new \in Seq(Addresses)
  BY <1>1, <1>2, <1>3 DEF EditsOK, SessionOK
<1>5. PICK kept : kept = Ascending({k \in DOMAIN new : new[k] # Unset})
  OBVIOUS
<1>6. PICK n : n = Len(new)
  OBVIOUS
<1>7. n \in Nat /\ DOMAIN new = 1 .. n /\ \A k \in 1 .. n : new[k] \in Addresses
  <2>1. new \in Seq(Addresses)
    BY <1>4
  <2> QED
    BY <1>6, <2>1, ElementOfSeq
<1>8. kept \in Seq(1 .. n)
  <2> DEFINE S == {k \in DOMAIN new : new[k] # Unset}
  <2>1. S \subseteq 1 .. n
    BY <1>7
  <2>2. kept = Ascending(S)
    BY <1>5
  <2> HIDE DEF S
  <2>3. kept \in Seq(S)
    BY <1>7, <2>1, <2>2, AscendingPart
  <2> QED
    BY <2>1, <2>3, SeqMonotonic
<1>9. PICK m : m = Len(kept)
  OBVIOUS
<1>10. m \in Nat /\ DOMAIN kept = 1 .. m /\ \A k \in 1 .. m : kept[k] \in 1 .. n
  <2>1. PICK T : T = 1 .. n
    OBVIOUS
  <2>2. kept \in Seq(T)
    BY <1>8, <2>1
  <2>3. m \in Nat /\ DOMAIN kept = 1 .. m /\ \A k \in 1 .. m : kept[k] \in T
    BY <1>9, <2>2
  <2> QED
    BY <2>1, <2>3
<1>11. PICK d : d = Len(gone)
  OBVIOUS
<1>12. d \in Nat /\ DOMAIN gone = 1 .. d /\ \A k \in 1 .. d : to[gone[k]] \in Addresses
  <2>1. gone \in Seq(DOMAIN to) /\ to \in Seq(Addresses)
    BY <1>4
  <2>2. d \in Nat /\ DOMAIN gone = 1 .. d /\ \A k \in 1 .. d : gone[k] \in DOMAIN to
    BY <1>11, <2>1, ElementOfSeq
  <2>3. DOMAIN to = 1 .. Len(to)
    BY <2>1
  <2>4. \A i \in DOMAIN to : to[i] \in Addresses
    BY <2>1, <2>3, ElementOfSeq
  <2> QED
    BY <2>2, <2>4
<1>13. \A a \in Addresses : /\ Modify("DeleteRecipient", a, <<>>, 0) \in Mods
                         /\ Modify("AddRecipient", a, <<>>, 0) \in Mods
  BY DEF Modify, Mods, OtherKinds
<1> DEFINE D == [k \in 1 .. d |-> Modify("DeleteRecipient", to[gone[k]], <<>>, 0)]
           A == [k \in 1 .. m |-> Modify("AddRecipient", new[kept[k]], <<>>, 0)]
<1>14. EnvelopeEdits(s, e) = D \o A
  BY <1>1, <1>2, <1>3, <1>5, <1>10, <1>12 DEF EnvelopeEdits
<1>15. D \in [1 .. d -> Mods]
  BY <1>12, <1>13
<1>16. A \in [1 .. m -> Mods]
  <2>1. \A k \in 1 .. m : new[kept[k]] \in Addresses
    BY <1>7, <1>10
  <2> QED
    BY <1>13, <2>1
<1> HIDE DEF D, A
<1>17. D \in Seq(Mods) /\ A \in Seq(Mods)
  BY <1>10, <1>12, <1>15, <1>16, SeqDef
<1> QED
  BY <1>14, <1>17, ConcatProperties

\* What Edits::modifications returns.
LEMMA ModificationsOK ==
  ASSUME NEW s, NEW e, SessionOK(s), EditsOK(s, e)
  PROVE  Modifications(s, e) \in Seq(Mods)
<1>1. PICK from \in Seq(Mods) :
        from = IF e.from = Unset THEN <<>> ELSE <<Modify("ChangeFrom", e.from, <<>>, 0)>>
  <2>1. e.from \in Addresses
    BY DEF EditsOK
  <2>2. Modify("ChangeFrom", e.from, <<>>, 0) \in Mods
    BY <2>1 DEF Modify, Mods, OtherKinds
  <2>3. PICK m \in Mods : m = Modify("ChangeFrom", e.from, <<>>, 0)
    BY <2>2
  <2>4. <<m>> \in Seq(Mods) /\ <<>> \in Seq(Mods)
    OBVIOUS
  <2> QED
    BY <2>3, <2>4
<1>2. HeaderEdits(s, e) \in Seq(Mods) /\ Insertions(e) \in Seq(Mods) /\ EnvelopeEdits(s, e) \in Seq(Mods)
  BY HeaderEditsOK, InsertionsOK, EnvelopeEditsOK
<1>3. HeaderEdits(s, e) \o Insertions(e) \in Seq(Mods)
  BY <1>2, ConcatProperties
<1>4. HeaderEdits(s, e) \o Insertions(e) \o from \in Seq(Mods)
  BY <1>3, ConcatProperties
<1>5. HeaderEdits(s, e) \o Insertions(e) \o from \o EnvelopeEdits(s, e) \in Seq(Mods)
  BY <1>2, <1>4, ConcatProperties
<1> QED
  BY <1>1, <1>5 DEF Modifications

\* What a replacement is translated to.
LEMMA ReplaceOK ==
  ASSUME NEW s, SessionOK(s), NEW fields \in Seq(Fields), NEW body \in Seq(Chars)
  PROVE  Replace(s, fields, body) \in Seq(Mods)
<1>1. PICK headers : headers = s.headers
  OBVIOUS
<1>2. PICK o : o = Len(headers)
  OBVIOUS
<1>3. PICK n : n = Len(fields)
  OBVIOUS
<1>4. o \in Nat /\ DOMAIN headers = 1 .. o /\ \A i \in 1 .. o : headers[i] \in Fields
  <2>1. headers \in Seq(Fields)
    BY <1>1 DEF SessionOK
  <2> QED
    BY <1>2, <2>1, ElementOfSeq
<1>5. n \in Nat /\ DOMAIN fields = 1 .. n /\ \A i \in 1 .. n : fields[i] \in Fields
  BY <1>3, ElementOfSeq
<1>6. PICK cursor : cursor = Cursors(s, fields)
  OBVIOUS
<1> DEFINE matched(k) == Match(s, fields[k], cursor[k - 1])
           G == DOMAIN headers \ {matched(k) : k \in DOMAIN fields}
           F == {k \in DOMAIN fields : matched(k) = 0}
<1>7. PICK gone : gone = Descending(G)
  OBVIOUS
<1>8. PICK new : new = Ascending(F)
  OBVIOUS
<1>9. PICK b \in Seq(Mods) : b = IF body = s.body THEN <<>> ELSE <<Modify("ReplaceBody", <<>>, body, 0)>>
  <2>1. <<>> \in Seq(Chars)
    OBVIOUS
  <2>2. Modify("ReplaceBody", <<>>, body, 0) \in Mods
    BY <2>1 DEF Modify, Mods, OtherKinds
  <2>3. PICK m \in Mods : m = Modify("ReplaceBody", <<>>, body, 0)
    BY <2>2
  <2>4. <<m>> \in Seq(Mods) /\ <<>> \in Seq(Mods)
    OBVIOUS
  <2> QED
    BY <2>3, <2>4
<1>10. Replace(s, fields, body) =
         [k \in DOMAIN gone |-> Modify("ChangeHeader", headers[gone[k]].name, <<>>,
                                       Occurrence(headers, gone[k]))]
           \o [k \in DOMAIN new |-> Modify("InsertRawHeader", fields[new[k]].name,
                                           fields[new[k]].value, new[k] - 1)]
           \o b
  BY <1>1, <1>6, <1>7, <1>8, <1>9 DEF Replace
<1>11. G \subseteq 1 .. o /\ F \subseteq 1 .. n
  BY <1>4, <1>5
<1> HIDE DEF G, F
<1>12. gone \in Seq(G)
  BY <1>4, <1>7, <1>11, DescendingPart
<1>13. new \in Seq(F)
  BY <1>5, <1>8, <1>11, AscendingPart
<1>14. PICK g : g = Len(gone)
  OBVIOUS
<1>15. PICK l : l = Len(new)
  OBVIOUS
<1>16. g \in Nat /\ DOMAIN gone = 1 .. g /\ \A k \in 1 .. g : gone[k] \in 1 .. o
  <2>1. g \in Nat /\ DOMAIN gone = 1 .. g /\ \A k \in 1 .. g : gone[k] \in G
    BY <1>12, <1>14
  <2> QED
    BY <1>11, <2>1
<1>17. l \in Nat /\ DOMAIN new = 1 .. l /\ \A k \in 1 .. l : new[k] \in 1 .. n
  <2>1. l \in Nat /\ DOMAIN new = 1 .. l /\ \A k \in 1 .. l : new[k] \in F
    BY <1>13, <1>15
  <2> QED
    BY <1>11, <2>1
<1>18. \A i \in 1 .. o : Modify("ChangeHeader", headers[i].name, <<>>, Occurrence(headers, i)) \in Mods
  <2>1. TAKE i \in 1 .. o
  <2>2. headers[i].name \in Seq(Chars)
    BY <1>4 DEF Fields
  <2>3. Occurrence(headers, i) \in Int
    BY <1>4, OccurrenceOK
  <2> QED
    BY <2>2, <2>3 DEF Modify, Mods, HeaderKinds
<1>19. \A i \in 1 .. n : Modify("InsertRawHeader", fields[i].name, fields[i].value, i - 1) \in Mods
  <2>1. TAKE i \in 1 .. n
  <2>2. fields[i].name \in Seq(Chars) /\ fields[i].value \in Seq(Chars)
    BY <1>5 DEF Fields
  <2>3. i - 1 \in Int
    BY <1>5
  <2> QED
    BY <2>2, <2>3 DEF Modify, Mods, HeaderKinds
<1> DEFINE D == [k \in 1 .. g |-> Modify("ChangeHeader", headers[gone[k]].name, <<>>,
                                         Occurrence(headers, gone[k]))]
           A == [k \in 1 .. l |-> Modify("InsertRawHeader", fields[new[k]].name,
                                         fields[new[k]].value, new[k] - 1)]
<1>20. Replace(s, fields, body) = D \o A \o b
  BY <1>10, <1>16, <1>17
<1>21. D \in [1 .. g -> Mods]
  BY <1>16, <1>18
<1>22. A \in [1 .. l -> Mods]
  BY <1>17, <1>19
<1> HIDE DEF D, A
<1>23. D \in Seq(Mods) /\ A \in Seq(Mods)
  BY <1>16, <1>17, <1>21, <1>22, SeqDef
<1>24. D \o A \in Seq(Mods)
  BY <1>23, ConcatProperties
<1>25. D \o A \o b \in Seq(Mods)
  BY <1>24, ConcatProperties
<1> QED
  BY <1>20, <1>25

\* What raw_replacement returns.
LEMMA RawReplacementOK ==
  ASSUME NEW s, SessionOK(s), NEW text \in Seq(Chars)
  PROVE  RawReplacement(s, text) \in [ok : BOOLEAN, mods : Seq(Mods)]
<1>1. Parse(text).fields \in Seq(Fields) /\ Parse(text).body \in Seq(Chars)
  BY ParsedIsText
<1>2. PICK result : result = Replace(s, Parse(text).fields, Parse(text).body)
  OBVIOUS
<1>3. result \in Seq(Mods)
  BY <1>1, <1>2, ReplaceOK
<1>4. RawReplacement(s, text) \in {[ok |-> TRUE, mods |-> result], NoRaw}
  BY <1>2 DEF RawReplacement
<1>5. NoRaw \in [ok : BOOLEAN, mods : Seq(Mods)]
  BY DEF NoRaw
<1>6. [ok |-> TRUE, mods |-> result] \in [ok : BOOLEAN, mods : Seq(Mods)]
  BY <1>3
<1> QED
  BY <1>4, <1>5, <1>6

-----------------------------------------------------------------------------
(* The invariant. *)

Phases == {"set", "add", "delete", "mta", "done", "dropped", "refused"}

\* A header modification is one that CanSend let through.
Sound(m) == m.kind \in HeaderKinds => HeaderName(m.name) /\ HeaderValue(m.value)

\* The counters and the phase.
ProgressInv == /\ session \in Sessions /\ hasRaw \in BOOLEAN
               /\ phase \in Phases /\ count \in 0 .. MaxModifications
               /\ response \in {"null", "object", "badObject", "scalar"}

\* The replacement's modifications.
RawInv == raw \in [ok : BOOLEAN, mods : Seq(Mods)]

\* The decision, and what the MTA does with it: nothing is applied while operations are
\* still taken, so a decision starts at its first modification.
DecisionInv == /\ verdict \in {"none", "Continue", "Reply", "Discard", "Shutdown"}
               /\ mods \in Seq(Mods) /\ \A k \in 1 .. Len(mods) : Sound(mods[k])
               /\ applied \in 0 .. Len(mods)
               /\ Operating => applied = 0
               /\ DOMAIN mta = {"headers", "body", "from", "to"}

TranslateIInv == ProgressInv /\ EditsOK(session, edits) /\ RawInv /\ DecisionInv

\* A session of the model is one the code can have.
LEMMA SessionsOK ==
  ASSUME NEW s \in Sessions
  PROVE  SessionOK(s)
<1>1. s.to \in Seq(STRING) /\ STRING \subseteq Addresses
  BY TranslationAssumption DEF Addresses
<1>2. s.to \in Seq(Addresses)
  BY <1>1, SeqMonotonic
<1> QED
  BY <1>2, TranslationAssumption DEF SessionOK

\* The edits keep their type when a part is replaced by another of its type: more changes.
LEMMA WithChanges ==
  ASSUME NEW s, NEW e, EditsOK(s, e), NEW c \in Seq([at : DOMAIN s.headers, value : Seq(Chars)])
  PROVE  EditsOK(s, [e EXCEPT !.changes = c])
BY DEF EditsOK

\* A new sender.
LEMMA WithFrom ==
  ASSUME NEW s, NEW e, EditsOK(s, e), NEW a \in Addresses
  PROVE  EditsOK(s, [e EXCEPT !.from = a])
BY DEF EditsOK

\* A header more, and the slots it is in.
LEMMA WithHeaders ==
  ASSUME NEW s, NEW e, EditsOK(s, e), NEW a \in Seq(Fields), NEW h \in Seq(Slots(Len(s.headers), Len(a)))
  PROVE  EditsOK(s, [e EXCEPT !.added = a, !.headers = h])
BY DEF EditsOK

\* Fewer header slots, and perhaps a deletion.
LEMMA WithoutHeader ==
  ASSUME NEW s, NEW e, EditsOK(s, e), NEW h \in Seq(Slots(Len(s.headers), Len(e.added))),
         NEW d \in Seq(DOMAIN s.headers)
  PROVE  /\ EditsOK(s, [e EXCEPT !.headers = h])
         /\ EditsOK(s, [[e EXCEPT !.headers = h] EXCEPT !.deletes = d])
BY DEF EditsOK

\* A recipient more, and the slots it is in.
LEMMA WithRecipients ==
  ASSUME NEW s, NEW e, EditsOK(s, e), NEW a \in Seq(Addresses), NEW t \in Seq(Slots(Len(s.to), Len(a)))
  PROVE  EditsOK(s, [e EXCEPT !.toAdded = a, !.to = t])
BY DEF EditsOK

\* Fewer recipient slots, and a deletion or an addition taken back.
LEMMA WithoutRecipient ==
  ASSUME NEW s, NEW e, EditsOK(s, e), NEW t \in Seq(Slots(Len(s.to), Len(e.toAdded))),
         NEW d \in Seq(DOMAIN s.to), NEW a \in Seq(Addresses), Len(a) = Len(e.toAdded)
  PROVE  /\ EditsOK(s, [[e EXCEPT !.to = t] EXCEPT !.toDeletes = d])
         /\ EditsOK(s, [[e EXCEPT !.to = t] EXCEPT !.toAdded = a])
BY DEF EditsOK

\* The edits' lists, by their types.
LEMMA EditsParts ==
  ASSUME NEW s, NEW e, EditsOK(s, e)
  PROVE  /\ e.changes \in Seq([at : DOMAIN s.headers, value : Seq(Chars)])
         /\ e.deletes \in Seq(DOMAIN s.headers)
         /\ e.added \in Seq(Fields)
         /\ e.headers \in Seq(Slots(Len(s.headers), Len(e.added)))
         /\ e.toDeletes \in Seq(DOMAIN s.to)
         /\ e.toAdded \in Seq(Addresses)
         /\ e.to \in Seq(Slots(Len(s.to), Len(e.toAdded)))
BY DEF EditsOK

\* A slot that names an original entry names one of the session's.
LEMMA SlotNames ==
  ASSUME NEW o, NEW a, NEW slot \in Slots(o, a)
  PROVE  /\ slot.kind \in {"Original", "Added"}
         /\ slot.kind = "Original" => slot.at \in 1 .. o
         /\ slot.kind # "Original" => slot.at \in 1 .. a
BY DEF Slots, Original, Added

\* The MTA keeps the parts of its message.
LEMMA ModificationKeepsParts ==
  ASSUME NEW m, NEW t
  PROVE  DOMAIN WithModification(m, t) = DOMAIN t
<1>1. CASE m.kind = "ChangeHeader"
  BY <1>1 DEF WithModification
<1>2. CASE m.kind = "InsertHeader"
  BY <1>2 DEF WithModification
<1>3. CASE m.kind = "AddHeader"
  BY <1>3 DEF WithModification
<1>4. CASE m.kind = "InsertRawHeader"
  BY <1>4 DEF WithModification
<1>5. CASE m.kind = "ReplaceBody"
  BY <1>5 DEF WithModification
<1>6. CASE m.kind = "ChangeFrom"
  BY <1>6 DEF WithModification
<1>7. CASE m.kind = "DeleteRecipient"
  BY <1>7 DEF WithModification
<1>8. CASE m.kind = "AddRecipient"
  BY <1>8 DEF WithModification
<1>9. CASE m.kind \notin {"ChangeHeader", "InsertHeader", "AddHeader", "InsertRawHeader", "ReplaceBody",
                          "ChangeFrom", "DeleteRecipient", "AddRecipient"}
  BY <1>9 DEF WithModification
<1> QED
  BY <1>1, <1>2, <1>3, <1>4, <1>5, <1>6, <1>7, <1>8, <1>9

-----------------------------------------------------------------------------
(* The steps. *)

\* An operation of a list is taken while operations are taken, and within their bound.
LEMMA InListOK ==
  ASSUME ProgressInv, NEW list \in {"set", "add", "delete"}, InList(list)
  PROVE  /\ Operating /\ phase' \in {"set", "add", "delete"}
         /\ count' \in 0 .. MaxModifications
<1>1. Operating /\ phase' \in {"set", "add", "delete"}
  BY DEF InList, Operating
<1>2. MaxOperations[hasRaw] \in 0 .. MaxModifications /\ MaxModifications \in Nat
  BY TranslationAssumption DEF ProgressInv
<1>3. count' \in 0 .. MaxModifications
  BY <1>2 DEF InList, ProgressInv
<1> QED
  BY <1>1, <1>3

\* A step that takes an operation and leaves the decision alone keeps the rest.
LEMMA OperationStep ==
  ASSUME TranslateIInv, Operating, phase' \in {"set", "add", "delete", "refused"},
         count' \in 0 .. MaxModifications, response' \in {"null", "object", "badObject", "scalar"},
         UNCHANGED <<session, hasRaw, decision, applied, mta>>
  PROVE  ProgressInv' /\ DecisionInv'
<1>1. ProgressInv'
  BY DEF TranslateIInv, ProgressInv, Phases
<1>2. mods' = mods /\ verdict' = verdict /\ applied' = applied /\ mta' = mta
  BY DEF decision
<1>3. applied = 0
  BY DEF TranslateIInv, DecisionInv
<1>4. DecisionInv'
  BY <1>2, <1>3 DEF TranslateIInv, DecisionInv
<1> QED
  BY <1>1, <1>4

\* An edit.
LEMMA EditStep ==
  ASSUME TranslateIInv, NEW list \in {"set", "add", "delete"}, InList(list),
         NEW o, NEW e, EditsOK(session, e), Edit(o, e)
  PROVE  TranslateIInv'
<1>1. /\ Operating /\ phase' \in {"set", "add", "delete"}
      /\ count' \in 0 .. MaxModifications
  BY InListOK DEF TranslateIInv
<1>2. UNCHANGED <<session, hasRaw, decision, applied, mta>> /\ response' = response /\ raw' = raw
  BY DEF Edit
<1>3. response' \in {"null", "object", "badObject", "scalar"}
  BY <1>2 DEF TranslateIInv, ProgressInv
<1>4. ProgressInv' /\ DecisionInv'
  BY <1>1, <1>2, <1>3, OperationStep
<1>5. EditsOK(session, edits)'
  <2>1. edits' = e /\ session' = session
    BY DEF Edit
  <2> QED
    BY <2>1 DEF EditsOK
<1>6. RawInv'
  BY <1>2 DEF TranslateIInv, RawInv
<1> QED
  BY <1>4, <1>5, <1>6 DEF TranslateIInv

\* SetHeader keeps the invariant.
LEMMA SetHeaderStep ==
  ASSUME TranslateIInv, NEW i \in 0 .. MaxHeaders, NEW v \in NewValues, SetHeader(i, v)
  PROVE  TranslateIInv'
<1>1. PICK S : S = [at : DOMAIN session.headers, value : Seq(Chars)]
  OBVIOUS
<1>2. edits.changes \in Seq(S)
  BY <1>1, EditsParts DEF TranslateIInv
<1>3. [at |-> i + 1, value |-> v] \in S
  <2>1. v \in Seq(Chars)
    BY TranslationAssumption
  <2>2. session.headers \in Seq(Fields)
    BY SessionsOK DEF TranslateIInv, ProgressInv, SessionOK
  <2>3. i < Len(session.headers) /\ i \in Nat
    BY TranslationAssumption DEF SetHeader
  <2>4. i + 1 \in DOMAIN session.headers
    BY <2>2, <2>3
  <2> QED
    BY <1>1, <2>1, <2>4
<1>4. PICK c \in Seq(S) : c = Append(edits.changes, [at |-> i + 1, value |-> v])
  BY <1>2, <1>3, AppendProperties
<1>5. EditsOK(session, [edits EXCEPT !.changes = c])
  BY <1>1, WithChanges DEF TranslateIInv
<1>6. /\ InList("set")
      /\ Edit([kind |-> "setHeader", index |-> i, arg |-> Sent(v)], [edits EXCEPT !.changes = c])
  BY <1>4 DEF SetHeader
<1> QED
  BY <1>5, <1>6, EditStep

\* SetFrom keeps the invariant.
LEMMA SetFromStep ==
  ASSUME TranslateIInv, NEW a \in NewAddresses, SetFrom(a)
  PROVE  TranslateIInv'
<1>1. a \in Addresses
  BY TranslationAssumption DEF Addresses
<1>2. EditsOK(session, [edits EXCEPT !.from = a])
  BY <1>1, WithFrom DEF TranslateIInv
<1> QED
  BY <1>2, EditStep DEF SetFrom

\* AddHeader keeps the invariant.
LEMMA AddHeaderStep ==
  ASSUME TranslateIInv, NEW i \in -1 .. MaxHeaders, NEW h \in Headers, AddHeader(i, h)
  PROVE  TranslateIInv'
<1>1. PICK o : o = Len(session.headers)
  OBVIOUS
<1>2. PICK added : added = edits.added
  OBVIOUS
<1>3. PICK n : n = Len(added)
  OBVIOUS
<1>4. added \in Seq(Fields) /\ edits.headers \in Seq(Slots(o, n))
  BY <1>1, <1>2, <1>3, EditsParts DEF TranslateIInv
<1>5. n \in Nat
  BY <1>3, <1>4
<1>6. o \in Nat
  <2>1. session.headers \in Seq(Fields)
    BY SessionsOK DEF TranslateIInv, ProgressInv, SessionOK
  <2> QED
    BY <1>1, <2>1
<1>7. h \in Fields
  BY TranslationAssumption DEF Headers, Fields
<1>8. PICK a \in Seq(Fields) : a = Append(added, h)
  BY <1>4, <1>7, AppendProperties
<1>9. Len(a) = n + 1
  BY <1>3, <1>4, <1>7, <1>8, AppendProperties
<1>10. edits.headers \in Seq(Slots(o, n + 1)) /\ Added(n + 1) \in Slots(o, n + 1)
  <2>1. Slots(o, n) \subseteq Slots(o, n + 1) /\ Added(n + 1) \in Slots(o, n + 1)
    BY <1>5, <1>6, SlotsGrow
  <2> QED
    BY <1>4, <2>1, SeqMonotonic
<1>11. PICK l : l = InsertSlot(edits.headers, i, Added(n + 1))
  OBVIOUS
<1>12. l \in Seq(Slots(o, n + 1))
  <2>1. Len(edits.headers) \in Nat
    BY <1>10
  <2>2. i \in -1 .. Len(edits.headers)
    BY <2>1, TranslationAssumption DEF AddHeader
  <2> QED
    BY <1>10, <1>11, <2>2, InsertSlotOK
<1>13. l \in Seq(Slots(Len(session.headers), Len(a)))
  BY <1>1, <1>9, <1>12
<1>14. EditsOK(session, [edits EXCEPT !.added = a, !.headers = l])
  BY <1>13, WithHeaders DEF TranslateIInv
<1>15. /\ InList("add")
       /\ Edit([kind |-> "addHeader", index |-> i, arg |-> [h EXCEPT !.value = Sent(@)]],
               [edits EXCEPT !.added = a, !.headers = l])
  BY <1>2, <1>3, <1>8, <1>11 DEF AddHeader
<1> QED
  BY <1>14, <1>15, EditStep

\* AddTo keeps the invariant.
LEMMA AddToStep ==
  ASSUME TranslateIInv, NEW i \in -1 .. MaxRecipients, NEW x \in NewAddresses, AddTo(i, x)
  PROVE  TranslateIInv'
<1>1. PICK o : o = Len(session.to)
  OBVIOUS
<1>2. PICK added : added = edits.toAdded
  OBVIOUS
<1>3. PICK n : n = Len(added)
  OBVIOUS
<1>4. added \in Seq(Addresses) /\ edits.to \in Seq(Slots(o, n))
  BY <1>1, <1>2, <1>3, EditsParts DEF TranslateIInv
<1>5. n \in Nat
  BY <1>3, <1>4
<1>6. o \in Nat
  <2>1. session.to \in Seq(Addresses)
    BY SessionsOK DEF TranslateIInv, ProgressInv, SessionOK
  <2> QED
    BY <1>1, <2>1
<1>7. x \in Addresses
  BY TranslationAssumption DEF Addresses
<1>8. PICK a \in Seq(Addresses) : a = Append(added, x)
  BY <1>4, <1>7, AppendProperties
<1>9. Len(a) = n + 1
  BY <1>3, <1>4, <1>7, <1>8, AppendProperties
<1>10. edits.to \in Seq(Slots(o, n + 1)) /\ Added(n + 1) \in Slots(o, n + 1)
  <2>1. Slots(o, n) \subseteq Slots(o, n + 1) /\ Added(n + 1) \in Slots(o, n + 1)
    BY <1>5, <1>6, SlotsGrow
  <2> QED
    BY <1>4, <2>1, SeqMonotonic
<1>11. PICK l : l = InsertSlot(edits.to, i, Added(n + 1))
  OBVIOUS
<1>12. l \in Seq(Slots(o, n + 1))
  <2>1. Len(edits.to) \in Nat
    BY <1>10
  <2>2. i \in -1 .. Len(edits.to)
    BY <2>1, TranslationAssumption DEF AddTo
  <2> QED
    BY <1>10, <1>11, <2>2, InsertSlotOK
<1>13. l \in Seq(Slots(Len(session.to), Len(a)))
  BY <1>1, <1>9, <1>12
<1>14. EditsOK(session, [edits EXCEPT !.toAdded = a, !.to = l])
  BY <1>13, WithRecipients DEF TranslateIInv
<1>15. /\ InList("add")
       /\ Edit([kind |-> "addTo", index |-> i, arg |-> x], [edits EXCEPT !.toAdded = a, !.to = l])
  BY <1>2, <1>3, <1>8, <1>11 DEF AddTo
<1> QED
  BY <1>14, <1>15, EditStep

\* DeleteHeader keeps the invariant.
LEMMA DeleteHeaderStep ==
  ASSUME TranslateIInv, NEW i \in 0 .. MaxHeaders, DeleteHeader(i)
  PROVE  TranslateIInv'
<1>1. PICK S : S = Slots(Len(session.headers), Len(edits.added))
  OBVIOUS
<1>2. edits.headers \in Seq(S) /\ edits.deletes \in Seq(DOMAIN session.headers)
  BY <1>1, EditsParts DEF TranslateIInv
<1>3. i + 1 \in 1 .. Len(edits.headers)
  <2>1. Len(edits.headers) \in Nat
    BY <1>2
  <2>2. i < Len(edits.headers) /\ i \in Nat
    BY TranslationAssumption DEF DeleteHeader
  <2> QED
    BY <2>1, <2>2
<1>4. PICK h \in Seq(S) : h = RemoveAt(edits.headers, i + 1)
  BY <1>2, <1>3, RemoveAtOK
<1>5. PICK slot \in S : slot = edits.headers[i + 1]
  BY <1>2, <1>3, ElementOfSeq
<1>6. PICK rest : rest = [edits EXCEPT !.headers = h]
  OBVIOUS
<1>7. /\ InList("delete")
      /\ Edit([kind |-> "deleteHeader", index |-> i],
              IF slot.kind = "Original" THEN [rest EXCEPT !.deletes = Append(@, slot.at)] ELSE rest)
  BY <1>4, <1>5, <1>6 DEF DeleteHeader
<1>8. EditsOK(session, rest)
  BY <1>1, <1>2, <1>6, WithoutHeader DEF TranslateIInv
<1>9. CASE slot.kind = "Original"
  <2>1. slot.at \in DOMAIN session.headers
    <3>1. session.headers \in Seq(Fields)
      BY SessionsOK DEF TranslateIInv, ProgressInv, SessionOK
    <3>2. DOMAIN session.headers = 1 .. Len(session.headers)
      BY <3>1
    <3>3. slot.at \in 1 .. Len(session.headers)
      BY <1>1, <1>9, SlotNames
    <3> QED
      BY <3>2, <3>3
  <2>2. rest.deletes = edits.deletes
    BY <1>6 DEF TranslateIInv, EditsOK
  <2>3. PICK d \in Seq(DOMAIN session.headers) : d = Append(rest.deletes, slot.at)
    BY <1>2, <2>1, <2>2, AppendProperties
  <2>4. EditsOK(session, [rest EXCEPT !.deletes = d])
    BY <1>1, <1>6, WithoutHeader DEF TranslateIInv
  <2>5. Edit([kind |-> "deleteHeader", index |-> i], [rest EXCEPT !.deletes = d])
    BY <1>7, <1>9, <2>3
  <2> QED
    BY <1>7, <2>4, <2>5, EditStep
<1>10. CASE slot.kind # "Original"
  <2>1. Edit([kind |-> "deleteHeader", index |-> i], rest)
    BY <1>7, <1>10
  <2> QED
    BY <1>7, <1>8, <2>1, EditStep
<1> QED
  BY <1>9, <1>10

\* DeleteTo keeps the invariant.
LEMMA DeleteToStep ==
  ASSUME TranslateIInv, NEW i \in 0 .. MaxRecipients, DeleteTo(i)
  PROVE  TranslateIInv'
<1>1. PICK S : S = Slots(Len(session.to), Len(edits.toAdded))
  OBVIOUS
<1>2. /\ edits.to \in Seq(S) /\ edits.toDeletes \in Seq(DOMAIN session.to)
      /\ edits.toAdded \in Seq(Addresses)
  BY <1>1, EditsParts DEF TranslateIInv
<1>3. i + 1 \in 1 .. Len(edits.to)
  <2>1. Len(edits.to) \in Nat
    BY <1>2
  <2>2. i < Len(edits.to) /\ i \in Nat
    BY TranslationAssumption DEF DeleteTo
  <2> QED
    BY <2>1, <2>2
<1>4. PICK t \in Seq(S) : t = RemoveAt(edits.to, i + 1)
  BY <1>2, <1>3, RemoveAtOK
<1>5. PICK slot \in S : slot = edits.to[i + 1]
  BY <1>2, <1>3, ElementOfSeq
<1>6. PICK rest : rest = [edits EXCEPT !.to = t]
  OBVIOUS
<1>7. /\ InList("delete")
      /\ Edit([kind |-> "deleteTo", index |-> i],
              IF slot.kind = "Original" THEN [rest EXCEPT !.toDeletes = Append(@, slot.at)]
              ELSE [rest EXCEPT !.toAdded[slot.at] = Unset])
  BY <1>4, <1>5, <1>6 DEF DeleteTo
<1>8. rest.toDeletes = edits.toDeletes /\ rest.toAdded = edits.toAdded
  BY <1>6 DEF TranslateIInv, EditsOK
<1>9. CASE slot.kind = "Original"
  <2>1. slot.at \in DOMAIN session.to
    <3>1. session.to \in Seq(Addresses)
      BY SessionsOK DEF TranslateIInv, ProgressInv, SessionOK
    <3>2. DOMAIN session.to = 1 .. Len(session.to)
      BY <3>1
    <3>3. slot.at \in 1 .. Len(session.to)
      BY <1>1, <1>9, SlotNames
    <3> QED
      BY <3>2, <3>3
  <2>2. PICK d \in Seq(DOMAIN session.to) : d = Append(rest.toDeletes, slot.at)
    BY <1>2, <1>8, <2>1, AppendProperties
  <2>3. EditsOK(session, [rest EXCEPT !.toDeletes = d])
    BY <1>1, <1>2, <1>6, WithoutRecipient DEF TranslateIInv
  <2>4. Edit([kind |-> "deleteTo", index |-> i], [rest EXCEPT !.toDeletes = d])
    BY <1>7, <1>9, <2>2
  <2> QED
    BY <1>7, <2>3, <2>4, EditStep
<1>10. CASE slot.kind # "Original"
  <2>1. slot.at \in 1 .. Len(edits.toAdded)
    BY <1>1, <1>10, SlotNames
  <2>2. Unset \in Addresses
    BY DEF Addresses
  <2>3. PICK a : a = [edits.toAdded EXCEPT ![slot.at] = Unset]
    OBVIOUS
  <2>4. a \in Seq(Addresses) /\ Len(a) = Len(edits.toAdded)
    BY <1>2, <2>1, <2>2, <2>3, ExceptSeq
  <2>5. EditsOK(session, [rest EXCEPT !.toAdded = a])
    BY <1>1, <1>2, <1>6, <2>4, WithoutRecipient DEF TranslateIInv
  <2>6. Edit([kind |-> "deleteTo", index |-> i], [rest EXCEPT !.toAdded = a])
    BY <1>7, <1>8, <1>10, <2>3
  <2> QED
    BY <1>7, <2>5, <2>6, EditStep
<1> QED
  BY <1>9, <1>10

\* Ignore keeps the invariant.
LEMMA IgnoreStep ==
  ASSUME TranslateIInv, NEW list \in {"set", "add", "delete"}, Ignore(list)
  PROVE  TranslateIInv'
<1>1. EditsOK(session, edits)
  BY DEF TranslateIInv
<1> QED
  BY <1>1, EditStep DEF Ignore

\* TakeRaw keeps the invariant.
LEMMA TakeRawStep ==
  ASSUME TranslateIInv, NEW o, NEW text \in Seq(Chars), TakeRaw(o, text)
  PROVE  TranslateIInv'
<1>1. PICK result : result = RawReplacement(session, text)
  OBVIOUS
<1>2. result \in [ok : BOOLEAN, mods : Seq(Mods)]
  BY <1>1, SessionsOK, RawReplacementOK DEF TranslateIInv, ProgressInv
<1>3. /\ phase = "set" /\ count < MaxOperations[hasRaw] /\ count' = count + 1 /\ raw' = result
      /\ phase' \in {phase, "refused"}
      /\ UNCHANGED <<session, hasRaw, edits, response, decision, applied, mta>>
  BY <1>1 DEF TakeRaw
<1>4. count' \in 0 .. MaxModifications
  <2>1. MaxOperations[hasRaw] \in 0 .. MaxModifications /\ MaxModifications \in Nat
    BY TranslationAssumption DEF TranslateIInv, ProgressInv
  <2> QED
    BY <1>3, <2>1 DEF TranslateIInv, ProgressInv
<1>5. ProgressInv' /\ DecisionInv'
  <2>1. Operating /\ phase' \in {"set", "add", "delete", "refused"}
    BY <1>3 DEF Operating
  <2>2. response' \in {"null", "object", "badObject", "scalar"}
    BY <1>3 DEF TranslateIInv, ProgressInv
  <2> QED
    BY <1>3, <1>4, <2>1, <2>2, OperationStep
<1>6. EditsOK(session, edits)'
  BY <1>3 DEF TranslateIInv, EditsOK
<1>7. RawInv'
  BY <1>2, <1>3 DEF RawInv
<1> QED
  BY <1>5, <1>6, <1>7 DEF TranslateIInv

\* The message sent back as it was written is text.
LEMMA EchoIsText ==
  ASSUME ProgressInv
  PROVE  Echo.fields \in Seq(Fields) /\ Echo.ending \in Seq(Chars) /\ Echo.body \in Seq(Chars)
<1>1. PICK headers : headers = session.headers
  OBVIOUS
<1>2. headers \in Seq(Fields) /\ session.body \in Seq(Chars)
  BY <1>1, SessionsOK DEF ProgressInv, SessionOK
<1>3. PICK n : n = Len(headers)
  OBVIOUS
<1>4. n \in Nat /\ DOMAIN headers = 1 .. n /\ \A i \in 1 .. n : headers[i] \in Fields
  BY <1>2, <1>3, ElementOfSeq
<1>5. ASSUME NEW v \in Seq(Chars), NEW leading
      PROVE  ColonText(v, leading) \in Seq(Chars)
  <2>1. <<"sp">> \in Seq(Chars)
    BY DEF Chars, Blanks
  <2>2. <<"sp">> \o v \in Seq(Chars)
    BY <2>1, ConcatProperties
  <2> QED
    BY <2>2 DEF ColonText
<1>6. ASSUME NEW f \in Fields, NEW leading
      PROVE  [f EXCEPT !.value = ColonText(@, leading)] \in Fields
  <2>1. PICK v : v = ColonText(f.value, leading)
    OBVIOUS
  <2>2. v \in Seq(Chars)
    BY <1>5, <2>1 DEF Fields
  <2>3. [f EXCEPT !.value = v] \in Fields
    BY <2>2 DEF Fields
  <2> QED
    BY <2>1, <2>3
<1> DEFINE F(i) == [headers[i] EXCEPT !.value = ColonText(@, session.leading)]
<1>7. \A i \in 1 .. n : F(i) \in Fields
  BY <1>4, <1>6
<1>8. Echo.fields = [i \in 1 .. n |-> F(i)]
  BY <1>1, <1>4 DEF Echo, RawFields
<1> HIDE DEF F
<1>9. [i \in 1 .. n |-> F(i)] \in [1 .. n -> Fields]
  BY <1>7
<1>10. [i \in 1 .. n |-> F(i)] \in Seq(Fields)
  BY <1>4, <1>9, SeqDef
<1>11. Echo.ending = <<"cr", "lf">> /\ Echo.body = session.body
  BY DEF Echo
<1>12. <<"cr", "lf">> \in Seq(Chars)
  BY DEF Chars, Breaks
<1> QED
  BY <1>2, <1>8, <1>10, <1>11, <1>12

\* SetRaw keeps the invariant.
LEMMA SetRawStep ==
  ASSUME TranslateIInv, NEW r \in Replacements \cup {Echo}, SetRaw(r)
  PROVE  TranslateIInv'
<1>1. r.fields \in Seq(Fields) /\ r.ending \in Seq(Chars) /\ r.body \in Seq(Chars)
  <2>1. CASE r \in Replacements
    <3>1. r.fields \in Seq(Fields) /\ {r.ending, r.body} \subseteq Seq(Chars)
      BY <2>1, TranslationAssumption
    <3> QED
      BY <3>1
  <2>2. CASE r = Echo
    BY <2>2, EchoIsText DEF TranslateIInv
  <2> QED
    BY <2>1, <2>2
<1>2. PICK text : text = Text(r.fields, r.ending, r.body)
  OBVIOUS
<1>3. text \in Seq(Chars)
  BY <1>1, <1>2, TextIsText
<1>4. PICK o : o = [kind |-> "setRaw", arg |-> Seen(r), echo |-> r = Echo]
  OBVIOUS
<1>5. TakeRaw(o, text)
  BY <1>2, <1>4 DEF SetRaw
<1> QED
  BY <1>3, <1>5, TakeRawStep

\* SetBadRaw keeps the invariant.
LEMMA SetBadRawStep ==
  ASSUME TranslateIInv, NEW text \in BadReplacements, SetBadRaw(text)
  PROVE  TranslateIInv'
<1>1. text \in Seq(Chars)
  BY TranslationAssumption
<1> QED
  BY <1>1, TakeRawStep DEF SetBadRaw

\* The operations on /action and /response keep the invariant.
LEMMA AnswerStep ==
  ASSUME TranslateIInv, InList("set"), response' \in {"null", "object", "badObject", "scalar"},
         UNCHANGED <<session, hasRaw, edits, raw, decision, applied, mta>>
  PROVE  TranslateIInv'
<1>1. /\ Operating /\ phase' \in {"set", "add", "delete"}
      /\ count' \in 0 .. MaxModifications
  BY InListOK DEF TranslateIInv
<1>2. ProgressInv' /\ DecisionInv'
  BY <1>1, OperationStep
<1>3. EditsOK(session, edits)'
  BY DEF TranslateIInv, EditsOK
<1>4. RawInv'
  BY DEF TranslateIInv, RawInv
<1> QED
  BY <1>2, <1>3, <1>4 DEF TranslateIInv

\* A refusal keeps the invariant: nothing has been decided, and nothing is.
LEMMA RefusedStep ==
  ASSUME TranslateIInv, Operating, Refused
  PROVE  TranslateIInv'
<1>1. /\ phase' = "refused"
      /\ UNCHANGED <<session, hasRaw, count, edits, raw, response, decision, applied, mta>>
  BY DEF Refused
<1>2. ProgressInv' /\ DecisionInv'
  <2>1. count' \in 0 .. MaxModifications /\ response' \in {"null", "object", "badObject", "scalar"}
    BY <1>1 DEF TranslateIInv, ProgressInv
  <2> QED
    BY <1>1, <2>1, OperationStep
<1>3. EditsOK(session, edits)'
  BY <1>1 DEF TranslateIInv, EditsOK
<1>4. RawInv'
  BY <1>1 DEF TranslateIInv, RawInv
<1> QED
  BY <1>2, <1>3, <1>4 DEF TranslateIInv

\* What can be put on the wire is sound.
LEMMA CanSendIsSound ==
  ASSUME NEW m \in Mods, CanSend(m)
  PROVE  Sound(m)
<1>1. CASE m.kind \in {"AddHeader", "InsertHeader", "ChangeHeader"}
  BY <1>1 DEF CanSend, Sound
<1>2. CASE m.kind = "InsertRawHeader"
  BY <1>2 DEF CanSend, Sound
<1>3. CASE m.kind \notin HeaderKinds
  BY <1>3 DEF Sound
<1> QED
  BY <1>1, <1>2, <1>3 DEF HeaderKinds

\* An action has a verdict or none.
LEMMA VerdictOK == VerdictOf \in {"none", "Continue", "Reply", "Discard", "Shutdown"}
BY DEF VerdictOf

\* Decide keeps the invariant: every modification has been checked before one is sent.
LEMMA DecideStep ==
  ASSUME TranslateIInv, Decide
  PROVE  TranslateIInv'
<1>1. PICK all : all = AllEdits
  OBVIOUS
<1>2. all \in Seq(Mods)
  <2>1. Modifications(session, edits) \in Seq(Mods)
    BY SessionsOK, ModificationsOK DEF TranslateIInv, ProgressInv
  <2>2. raw.mods \in Seq(Mods)
    BY DEF TranslateIInv, RawInv
  <2> QED
    BY <1>1, <2>1, <2>2, ConcatProperties DEF AllEdits
<1>3. Len(all) \in Nat /\ DOMAIN all = 1 .. Len(all)
  BY <1>2
<1>4. \A k \in 1 .. Len(all) : Sound(all[k])
  <2>1. \A k \in 1 .. Len(all) : CanSend(all[k])
    BY <1>1, <1>3 DEF Decide, EditsAccepted
  <2>2. \A k \in 1 .. Len(all) : all[k] \in Mods
    BY <1>2, ElementOfSeq
  <2> QED
    BY <2>1, <2>2, CanSendIsSound
<1>5. PICK q : q = Modify("Quarantine", <<>>, <<>>, 0)
  OBVIOUS
<1>6. q \in Mods /\ Sound(q)
  <2>1. <<>> \in Seq(Chars)
    OBVIOUS
  <2>2. q \in Mods
    BY <1>5, <2>1 DEF Modify, Mods, OtherKinds
  <2>3. q.kind = "Quarantine"
    BY <1>5 DEF Modify
  <2> QED
    BY <2>2, <2>3 DEF Sound, HeaderKinds
<1>7. PICK l : l = IF action = "quarantine" THEN <<q>> ELSE <<>>
  OBVIOUS
<1>8. l \in Seq(Mods) /\ \A k \in 1 .. Len(l) : Sound(l[k])
  <2>1. CASE action = "quarantine"
    <3>1. l = <<q>> /\ <<q>> \in Seq(Mods) /\ Len(<<q>>) = 1 /\ <<q>>[1] = q
      BY <1>6, <1>7, <2>1
    <3>2. \A k \in 1 .. 1 : k = 1
      OBVIOUS
    <3> QED
      BY <1>6, <3>1, <3>2
  <2>2. CASE action # "quarantine"
    <3>1. l = <<>> /\ Len(<<>>) = 0 /\ <<>> \in Seq(Mods)
      BY <1>7, <2>2
    <3>2. 1 .. 0 = {}
      OBVIOUS
    <3> QED
      BY <3>1, <3>2
  <2> QED
    BY <2>1, <2>2
<1>9. mods' = all \o l
  BY <1>1, <1>5, <1>7 DEF Decide
<1>10. mods' \in Seq(Mods) /\ Len(mods') \in Nat
  <2>1. mods' \in Seq(Mods)
    BY <1>2, <1>8, <1>9, ConcatProperties
  <2> QED
    BY <2>1
<1>11. \A k \in 1 .. Len(mods') : Sound(mods'[k])
  <2>1. TAKE k \in 1 .. Len(mods')
  <2>2. /\ Len(mods') = Len(all) + Len(l)
        /\ mods'[k] = IF k <= Len(all) THEN all[k] ELSE l[k - Len(all)]
    <3>1. /\ Len(all \o l) = Len(all) + Len(l)
          /\ \A i \in 1 .. Len(all) + Len(l) :
               (all \o l)[i] = IF i <= Len(all) THEN all[i] ELSE l[i - Len(all)]
      BY <1>2, <1>8, ConcatProperties
    <3> QED
      BY <1>9, <3>1
  <2>3. Len(l) \in Nat
    BY <1>8
  <2>4. k <= Len(all) => k \in 1 .. Len(all)
    BY <1>3, <2>2
  <2>5. ~(k <= Len(all)) => k - Len(all) \in 1 .. Len(l)
    BY <1>3, <2>2, <2>3
  <2> QED
    BY <1>4, <1>8, <2>2, <2>4, <2>5
<1>12. /\ Operating /\ phase' = "mta" /\ verdict' = VerdictOf
       /\ UNCHANGED <<session, hasRaw, count, edits, raw, response, applied, mta>>
  BY DEF Decide, Complete
<1>13. ProgressInv'
  BY <1>12 DEF TranslateIInv, ProgressInv, Phases
<1>14. EditsOK(session, edits)'
  BY <1>12 DEF TranslateIInv, EditsOK
<1>15. RawInv'
  BY <1>12 DEF TranslateIInv, RawInv
<1>16. DecisionInv'
  <2>1. applied' = 0 /\ applied' \in 0 .. Len(mods')
    BY <1>10, <1>12 DEF TranslateIInv, DecisionInv
  <2>2. verdict' \in {"none", "Continue", "Reply", "Discard", "Shutdown"}
    BY <1>12, VerdictOK
  <2>3. DOMAIN mta' = {"headers", "body", "from", "to"}
    BY <1>12 DEF TranslateIInv, DecisionInv
  <2> QED
    BY <1>10, <1>11, <2>1, <2>2, <2>3 DEF DecisionInv
<1> QED
  BY <1>13, <1>14, <1>15, <1>16 DEF TranslateIInv

\* The MTA's steps keep the invariant.
LEMMA MtaStep ==
  ASSUME TranslateIInv, MtaApplies \/ MtaDone
  PROVE  TranslateIInv'
<1>1. Len(mods) \in Nat
  BY DEF TranslateIInv, DecisionInv
<1>2. CASE MtaApplies
  <2>1. /\ phase = "mta" /\ applied < Len(mods) /\ applied' = applied + 1
        /\ mta' = WithModification(mods[applied + 1], mta)
        /\ UNCHANGED <<session, hasRaw, phase, count, edits, raw, response, decision>>
    BY <1>2 DEF MtaApplies
  <2>2. ProgressInv'
    BY <2>1 DEF TranslateIInv, ProgressInv
  <2>3. EditsOK(session, edits)'
    BY <2>1 DEF TranslateIInv, EditsOK
  <2>4. RawInv'
    BY <2>1 DEF TranslateIInv, RawInv
  <2>5. DecisionInv'
    <3>1. mods' = mods /\ verdict' = verdict
      BY <2>1 DEF decision
    <3>2. applied' \in 0 .. Len(mods)
      BY <1>1, <2>1 DEF TranslateIInv, DecisionInv
    <3>3. DOMAIN mta' = DOMAIN mta
      BY <2>1, ModificationKeepsParts
    <3>4. ~Operating'
      BY <2>1 DEF Operating
    <3> QED
      BY <3>1, <3>2, <3>3, <3>4 DEF TranslateIInv, DecisionInv
  <2> QED
    BY <2>2, <2>3, <2>4, <2>5 DEF TranslateIInv
<1>3. CASE MtaDone
  <2>1. /\ phase' \in {"done", "dropped"}
        /\ UNCHANGED <<session, hasRaw, count, edits, raw, response, decision, applied, mta>>
    BY <1>3 DEF MtaDone
  <2>2. ProgressInv'
    BY <2>1 DEF TranslateIInv, ProgressInv, Phases
  <2>3. EditsOK(session, edits)'
    BY <2>1 DEF TranslateIInv, EditsOK
  <2>4. RawInv'
    BY <2>1 DEF TranslateIInv, RawInv
  <2>5. DecisionInv'
    <3>1. mods' = mods /\ verdict' = verdict
      BY <2>1 DEF decision
    <3>2. ~Operating'
      BY <2>1 DEF Operating
    <3> QED
      BY <2>1, <3>1, <3>2 DEF TranslateIInv, DecisionInv
  <2> QED
    BY <2>2, <2>3, <2>4, <2>5 DEF TranslateIInv
<1> QED
  BY <1>2, <1>3

\* An answer starts with no edit.
LEMMA TranslateInitOK ==
  ASSUME TranslateInit
  PROVE  TranslateIInv
<1>1. session \in Sessions /\ SessionOK(session)
  BY SessionsOK DEF TranslateInit
<1>2. ProgressInv
  <2>1. count = 0 /\ 0 \in 0 .. MaxModifications
    BY TranslationAssumption DEF TranslateInit
  <2> QED
    BY <1>1, <2>1 DEF TranslateInit, ProgressInv, Phases
<1>3. ASSUME NEW o \in Nat, NEW T, NEW list \in Seq(T), o = Len(list)
      PROVE  [i \in DOMAIN list |-> Original(i)] \in Seq(Slots(o, 0))
  <2>1. DOMAIN list = 1 .. o
    BY <1>3
  <2>2. [i \in 1 .. o |-> Original(i)] \in [1 .. o -> Slots(o, 0)]
    BY DEF Slots
  <2>3. [i \in 1 .. o |-> Original(i)] \in Seq(Slots(o, 0))
    BY <2>2, SeqDef
  <2> QED
    BY <2>1, <2>3
<1>4. EditsOK(session, edits)
  <2>1. PICK h : h = [i \in DOMAIN session.headers |-> Original(i)]
    OBVIOUS
  <2>2. PICK t : t = [i \in DOMAIN session.to |-> Original(i)]
    OBVIOUS
  <2>3. h \in Seq(Slots(Len(session.headers), 0))
    <3>1. session.headers \in Seq(Fields)
      BY <1>1 DEF SessionOK
    <3>2. Len(session.headers) \in Nat
      BY <3>1
    <3> QED
      BY <1>3, <2>1, <3>1, <3>2
  <2>4. t \in Seq(Slots(Len(session.to), 0))
    <3>1. session.to \in Seq(Addresses)
      BY <1>1 DEF SessionOK
    <3>2. Len(session.to) \in Nat
      BY <3>1
    <3> QED
      BY <1>3, <2>2, <3>1, <3>2
  <2>5. edits = [changes |-> <<>>, deletes |-> <<>>, added |-> <<>>, headers |-> h,
                 from |-> Unset, toDeletes |-> <<>>, toAdded |-> <<>>, to |-> t]
    BY <2>1, <2>2 DEF TranslateInit, NewEdits
  <2>6. Len(edits.added) = 0 /\ Len(edits.toAdded) = 0
    BY <2>5
  <2>7. Unset \in Addresses
    BY DEF Addresses
  <2> QED
    BY <2>3, <2>4, <2>5, <2>6, <2>7 DEF EditsOK
<1>5. RawInv
  BY DEF TranslateInit, NoRaw, RawInv
<1>6. DecisionInv
  <2>1. mods = <<>> /\ <<>> \in Seq(Mods) /\ Len(<<>>) = 0 /\ 1 .. 0 = {}
    BY DEF TranslateInit
  <2>2. applied = 0 /\ verdict = "none" /\ DOMAIN mta = {"headers", "body", "from", "to"}
    BY DEF TranslateInit
  <2> QED
    BY <2>1, <2>2 DEF DecisionInv
<1> QED
  BY <1>2, <1>4, <1>5, <1>6 DEF TranslateIInv

\* Every step keeps the invariant.
LEMMA TranslateStep ==
  ASSUME TranslateIInv, [TranslateNext]_translateVars
  PROVE  TranslateIInv'
<1>1. ASSUME NEW i \in 0 .. MaxHeaders, NEW v \in NewValues, SetHeader(i, v)
      PROVE  TranslateIInv'
  BY <1>1, SetHeaderStep
<1>2. ASSUME NEW a \in NewAddresses, SetFrom(a)
      PROVE  TranslateIInv'
  BY <1>2, SetFromStep
<1>3. ASSUME NEW i \in -1 .. MaxHeaders, NEW h \in Headers, AddHeader(i, h)
      PROVE  TranslateIInv'
  BY <1>3, AddHeaderStep
<1>4. ASSUME NEW i \in -1 .. MaxRecipients, NEW a \in NewAddresses, AddTo(i, a)
      PROVE  TranslateIInv'
  BY <1>4, AddToStep
<1>5. ASSUME NEW i \in 0 .. MaxHeaders, DeleteHeader(i)
      PROVE  TranslateIInv'
  BY <1>5, DeleteHeaderStep
<1>6. ASSUME NEW i \in 0 .. MaxRecipients, DeleteTo(i)
      PROVE  TranslateIInv'
  BY <1>6, DeleteToStep
<1>7. ASSUME NEW list \in {"set", "add", "delete"}, Ignore(list)
      PROVE  TranslateIInv'
  BY <1>7, IgnoreStep
<1>8. ASSUME NEW r \in Replacements \cup {Echo}, SetRaw(r)
      PROVE  TranslateIInv'
  BY <1>8, SetRawStep
<1>9. ASSUME NEW text \in BadReplacements, SetBadRaw(text)
      PROVE  TranslateIInv'
  BY <1>9, SetBadRawStep
<1>10. ASSUME NEW a \in Actions, SetAction(a)
       PROVE  TranslateIInv'
  <2>1. InList("set") /\ UNCHANGED <<session, hasRaw, edits, raw, decision, applied, mta>>
    BY <1>10 DEF SetAction
  <2>2. response' \in {"null", "object", "badObject", "scalar"}
    BY <1>10 DEF SetAction, TranslateIInv, ProgressInv
  <2> QED
    BY <2>1, <2>2, AnswerStep
<1>11. ASSUME NEW v \in Answers, SetResponse(v)
       PROVE  TranslateIInv'
  <2>1. InList("set") /\ UNCHANGED <<session, hasRaw, edits, raw, decision, applied, mta>>
    BY <1>11 DEF SetResponse
  <2>2. response' \in {"null", "object", "badObject", "scalar"}
    BY <1>11, TranslationAssumption DEF SetResponse
  <2> QED
    BY <2>1, <2>2, AnswerStep
<1>12. ASSUME NEW good \in BOOLEAN, SetResponseField(good)
       PROVE  TranslateIInv'
  <2>1. InList("set") /\ UNCHANGED <<session, hasRaw, edits, raw, decision, applied, mta>>
    BY <1>12 DEF SetResponseField
  <2>2. response' \in {"null", "object", "badObject", "scalar"}
    BY <1>12 DEF SetResponseField
  <2> QED
    BY <2>1, <2>2, AnswerStep
<1>13. CASE RefuseOperation
  BY <1>13, RefusedStep DEF RefuseOperation
<1>14. CASE Decide
  BY <1>14, DecideStep
<1>15. CASE RefuseDecision
  BY <1>15, RefusedStep DEF RefuseDecision, Complete
<1>16. CASE MtaApplies \/ MtaDone
  BY <1>16, MtaStep
<1>17. CASE UNCHANGED translateVars
  BY <1>17 DEF translateVars, decision, TranslateIInv, ProgressInv, EditsOK, RawInv, DecisionInv,
               Operating
<1> QED
  BY <1>1, <1>2, <1>3, <1>4, <1>5, <1>6, <1>7, <1>8, <1>9, <1>10, <1>11, <1>12, <1>13, <1>14, <1>15,
     <1>16, <1>17 DEF TranslateNext

\* The inductive invariant: through any mixture of operations the edits name entries that
\* exist, a replacement's modifications and a decision's are texts and addresses, and every
\* header modification of a decision passed the check of m.frames().
THEOREM TranslateInvariant == TranslateSpec => []TranslateIInv
<1>1. TranslateInit => TranslateIInv
  BY TranslateInitOK
<1>2. TranslateIInv /\ [TranslateNext]_translateVars => TranslateIInv'
  BY TranslateStep
<1> QED
  BY <1>1, <1>2, PTL DEF TranslateSpec

\* Every variable of the translation has its type; in particular every deletion names an
\* original header, and the MTA never applies more modifications than the decision has.
THEOREM TranslateTypeCorrect == TranslateSpec => []TranslateTypeOK
<1>1. TranslateIInv => TranslateTypeOK
  <2>1. SUFFICES ASSUME TranslateIInv
                 PROVE  TranslateTypeOK
    OBVIOUS
  <2>2. PICK S : S = Slots(Len(session.headers), Len(edits.added))
    OBVIOUS
  <2>3. edits.headers \in Seq(S) /\ edits.deletes \in Seq(DOMAIN session.headers)
    BY <2>1, <2>2, EditsParts DEF TranslateIInv
  <2>4. S \subseteq [kind : {"Original", "Added"}, at : Nat]
    <3>1. edits.added \in Seq(Fields)
      BY <2>1, EditsParts DEF TranslateIInv
    <3>2. session.headers \in Seq(Fields)
      BY <2>1, SessionsOK DEF TranslateIInv, ProgressInv, SessionOK
    <3>3. Len(edits.added) \in Nat /\ Len(session.headers) \in Nat
      BY <3>1, <3>2
    <3> QED
      BY <2>2, <3>3 DEF Slots, Original, Added
  <2>5. edits.headers \in Seq([kind : {"Original", "Added"}, at : Nat])
    BY <2>3, <2>4, SeqMonotonic
  <2> QED
    BY <2>1, <2>3, <2>5 DEF TranslateIInv, ProgressInv, DecisionInv, Phases, TranslateTypeOK
<1> QED
  BY <1>1, TranslateInvariant, PTL

\* A header modification that reaches the MTA is one header field whatever its value holds:
\* the line and folds that are written for it are read back as the same name and value and
\* no second field (header_value, raw_replacement and Edits::modifications together).
THEOREM HeaderEditsAreOneField == TranslateSpec => []OneFieldEach
<1>1. TranslateIInv => OneFieldEach
  <2>1. SUFFICES ASSUME TranslateIInv, NEW k \in DOMAIN mods,
                        mods[k].kind \in {"AddHeader", "InsertHeader", "ChangeHeader", "InsertRawHeader"}
                 PROVE  LET f == [name |-> mods[k].name, value |-> mods[k].value]
                        IN Parse(Text(<<f>>, <<"cr", "lf">>, <<>>)).fields = <<f>>
    BY DEF OneFieldEach
  <2>2. PICK f : f = [name |-> mods[k].name, value |-> mods[k].value]
    OBVIOUS
  <2>3. mods \in Seq(Mods) /\ \A i \in 1 .. Len(mods) : Sound(mods[i])
    BY <2>1 DEF TranslateIInv, DecisionInv
  <2>4. k \in 1 .. Len(mods)
    BY <2>1, <2>3
  <2>5. mods[k] \in Mods
    BY <2>3, <2>4, ElementOfSeq
  <2>6. mods[k].name \in Seq(Chars) /\ mods[k].value \in Seq(Chars)
    BY <2>1, <2>5 DEF Mods, OtherKinds
  <2>7. f \in Fields
    BY <2>2, <2>6 DEF Fields
  <2>8. HeaderName(mods[k].name) /\ HeaderValue(mods[k].value)
    BY <2>1, <2>3, <2>4 DEF Sound, HeaderKinds
  <2>9. f.name = mods[k].name /\ f.value = mods[k].value
    BY <2>2
  <2>10. HeaderName(f.name) /\ HeaderValue(f.value)
    BY <2>8, <2>9
  <2>11. Parse(Text(<<f>>, <<"cr", "lf">>, <<>>)).fields = <<f>>
    BY <2>7, <2>10, OneFieldReadBack
  <2> QED
    BY <2>2, <2>11
<1> QED
  BY <1>1, TranslateInvariant, PTL

-----------------------------------------------------------------------------
(* The message sent back. *)

\* What is looked up for a value that raw_message wrote is that value.
LEMMA LookedUp ==
  ASSUME NEW v \in Seq(Chars), NEW leading
  PROVE  Lookup(ColonText(v, leading), leading) = [ok |-> TRUE, value |-> v]
<1>1. CASE leading \/ StartsWith(v, Breaks)
  <2>1. ColonText(v, leading) = v
    BY <1>1 DEF ColonText
  <2> QED
    BY <1>1, <2>1 DEF Lookup
<1>2. CASE ~(leading \/ StartsWith(v, Breaks))
  <2>1. PICK w : w = <<"sp">> \o v
    OBVIOUS
  <2>2. ColonText(v, leading) = w
    BY <1>2, <2>1 DEF ColonText
  <2>3. <<"sp">> \in Seq(Chars)
    BY DEF Chars, Blanks
  <2>4. w \in Seq(Chars) /\ w # <<>> /\ Head(w) = "sp" /\ Tail(w) = v
    <3>1. w \in Seq(Chars) /\ Len(w) = Len(v) + 1 /\ w[1] = "sp"
          /\ \A p \in 1 .. Len(v) : w[p + 1] = v[p]
      <4>1. PICK x \in Seq(Chars) : x = <<"sp">> /\ Len(x) = 1 /\ x[1] = "sp"
        BY <2>3
      <4>2. /\ x \o v \in Seq(Chars) /\ Len(x \o v) = Len(x) + Len(v)
            /\ Len(x) \in Nat /\ Len(v) \in Nat
            /\ \A p \in 1 .. Len(x) : (x \o v)[p] = x[p]
            /\ \A p \in 1 .. Len(v) : (x \o v)[Len(x) + p] = v[p]
        BY Concatenated
      <4> QED
        BY <2>1, <4>1, <4>2
    <3>2. w # <<>> /\ Head(w) = "sp"
      BY <3>1
    <3>3. Tail(w) \in Seq(Chars) /\ Len(Tail(w)) = Len(v) /\ \A p \in 1 .. Len(v) : Tail(w)[p] = w[p + 1]
      BY <3>1, <3>2
    <3>4. Tail(w) = v
      BY <3>1, <3>3, SeqEqual
    <3> QED
      BY <3>1, <3>2, <3>4
  <2>5. ~StartsWith(w, Breaks) /\ StartsWith(w, {"sp"})
    BY <2>4 DEF StartsWith, Breaks
  <2> QED
    BY <1>2, <2>2, <2>4, <2>5 DEF Lookup
<1> QED
  BY <1>1, <1>2

\* Behind a leading space a value has the folds it had.
LEMMA ColonTextFolds ==
  ASSUME NEW v \in Seq(Chars), FoldsOnly(v), NEW leading
  PROVE  ColonText(v, leading) \in Seq(Chars) /\ FoldsOnly(ColonText(v, leading))
<1>1. CASE leading \/ StartsWith(v, Breaks)
  BY <1>1 DEF ColonText
<1>2. CASE ~(leading \/ StartsWith(v, Breaks))
  <2>1. PICK x \in Seq(Chars) : x = <<"sp">> /\ Len(x) = 1 /\ x[1] = "sp"
    <3>1. <<"sp">> \in Seq(Chars)
      BY DEF Chars, Blanks
    <3> QED
      BY <3>1
  <2>2. PICK w : w = x \o v
    OBVIOUS
  <2>3. PICK m \in Nat : m = Len(v) /\ DOMAIN v = 1 .. m
    OBVIOUS
  <2>4. w \in Seq(Chars) /\ Len(w) = m + 1 /\ w[1] = "sp" /\ \A p \in 1 .. m : w[1 + p] = v[p]
    <3>1. /\ x \o v \in Seq(Chars) /\ Len(x \o v) = Len(x) + Len(v)
          /\ Len(x) \in Nat /\ Len(v) \in Nat
          /\ \A p \in 1 .. Len(x) : (x \o v)[p] = x[p]
          /\ \A p \in 1 .. Len(v) : (x \o v)[Len(x) + p] = v[p]
      BY Concatenated
    <3> QED
      BY <2>1, <2>2, <2>3, <3>1
  <2>5. DOMAIN w = 1 .. (m + 1)
    BY <2>4
  <2>6. ASSUME NEW i \in 1 .. (m + 1), w[i] = "lf" PROVE i < m + 1 /\ w[i + 1] \in Blanks
    <3>1. i # 1
      BY <2>4, <2>6
    <3>2. PICK p \in 1 .. m : i = 1 + p
      <4>1. i - 1 \in 1 .. m /\ i = 1 + (i - 1)
        BY <3>1
      <4> QED
        BY <4>1
    <3>3. v[p] = "lf"
      BY <2>4, <2>6, <3>2
    <3>4. p < m /\ v[p + 1] \in Blanks
      BY <2>3, <3>3 DEF FoldsOnly
    <3>5. p + 1 \in 1 .. m /\ i + 1 = 1 + (p + 1)
      BY <3>2, <3>4
    <3>6. w[i + 1] = v[p + 1]
      BY <2>4, <3>5
    <3> QED
      BY <3>2, <3>4, <3>6
  <2>7. FoldsOnly(w)
    BY <2>4, <2>5, <2>6 DEF FoldsOnly
  <2>8. ColonText(v, leading) = w
    BY <1>2, <2>1, <2>2 DEF ColonText
  <2> QED
    BY <2>4, <2>7, <2>8
<1> QED
  BY <1>1, <1>2

\* Fields that are found under the headers they were made of.
Echoes(s, headers, fields, n) ==
  /\ headers = s.headers /\ headers \in Seq(Fields) /\ Len(headers) = n /\ Len(fields) = n
  /\ DOMAIN headers = 1 .. n /\ DOMAIN fields = 1 .. n /\ n \in Nat
  /\ \A i \in 1 .. n : headers[i] = [name |-> fields[i].name, value |-> headers[i].value]
  /\ \A i \in 1 .. n : Lookup(fields[i].value, s.leading) = [ok |-> TRUE, value |-> headers[i].value]

\* The k-th field matches the k-th header when the cursor is right before it.
LEMMA EchoMatches ==
  ASSUME NEW s, NEW headers, NEW fields, NEW n, Echoes(s, headers, fields, n), NEW k \in 1 .. n
  PROVE  Match(s, fields[k], k - 1) = k
<1>1. n \in Nat /\ Len(headers) = n
  BY DEF Echoes
<1>2. PICK wanted : wanted = Lookup(fields[k].value, s.leading)
  OBVIOUS
<1>3. wanted.ok = TRUE /\ wanted.value = headers[k].value
  <2>1. wanted = [ok |-> TRUE, value |-> headers[k].value]
    BY <1>2 DEF Echoes
  <2> QED
    BY <2>1
<1>4. PICK I : I = {i \in k .. n : headers[i] = [name |-> fields[k].name, value |-> wanted.value]}
  OBVIOUS
<1>5. k \in I /\ I \subseteq Nat
  <2>1. k \in k .. n /\ k .. n \subseteq Nat
    BY <1>1
  <2>2. headers[k] = [name |-> fields[k].name, value |-> wanted.value]
    BY <1>3 DEF Echoes
  <2> QED
    BY <1>4, <2>1, <2>2
<1>6. FirstOf(I) \in I /\ FirstOf(I) <= k
  BY <1>5, FirstOfOK
<1>7. FirstOf(I) \in k .. n
  BY <1>4, <1>6
<1>8. FirstOf(I) = k
  BY <1>1, <1>6, <1>7
<1>9. (k - 1) + 1 = k
  BY <1>1
<1>10. Match(s, fields[k], k - 1) = FirstOf(I)
  BY <1>1, <1>2, <1>3, <1>4, <1>9 DEF Match, SelectInSubSeq, FirstOf, Echoes
<1> QED
  BY <1>8, <1>10

\* The cursor stands at the field just matched, all along the echo.
LEMMA EchoCursors ==
  ASSUME NEW s, NEW headers, NEW fields, NEW n, Echoes(s, headers, fields, n)
  PROVE  \A k \in 0 .. n : Cursors(s, fields)[k] = k
<1>1. n \in Nat /\ Len(fields) = n
  BY DEF Echoes
<1>2. \A k \in 1 .. n : Match(s, fields[k], k - 1) = k
  BY EchoMatches
<1> DEFINE G(c) == [k \in 0 .. n |->
                      IF k = 0 THEN 0
                      ELSE LET m == Match(s, fields[k], c[k - 1]) IN IF m = 0 THEN c[k - 1] ELSE m]
<1>3. \E c : c = G(c)
  <2>1. PICK id : id = [k \in 0 .. n |-> k]
    OBVIOUS
  <2>2. ASSUME NEW k \in 0 .. n PROVE G(id)[k] = k
    <3>1. CASE k = 0
      BY <3>1
    <3>2. CASE k # 0
      <4>1. k \in 1 .. n /\ k - 1 \in 0 .. n
        BY <1>1, <3>2
      <4>2. id[k - 1] = k - 1
        BY <2>1, <4>1
      <4>3. Match(s, fields[k], id[k - 1]) = k
        BY <1>2, <4>1, <4>2
      <4> QED
        BY <3>2, <4>3
    <3> QED
      BY <3>1, <3>2
  <2>3. DOMAIN G(id) = 0 .. n /\ DOMAIN id = 0 .. n
    BY <2>1
  <2>4. G(id) = [k \in 0 .. n |-> G(id)[k]]
    OBVIOUS
  <2> HIDE DEF G
  <2>5. id = G(id)
    BY <2>1, <2>2, <2>4
  <2> QED
    BY <2>5
<1>4. PICK c : c = (CHOOSE d : d = G(d))
  OBVIOUS
<1>5. c = G(c)
  BY <1>3, <1>4
<1>6. Cursors(s, fields) = c
  BY <1>1, <1>4 DEF Cursors
<1>7. c[0] = 0 /\ \A k \in 1 .. n : c[k] = LET m == Match(s, fields[k], c[k - 1])
                                          IN IF m = 0 THEN c[k - 1] ELSE m
  <2>1. 0 \in 0 .. n /\ \A k \in 1 .. n : k \in 0 .. n /\ k # 0
    BY <1>1
  <2> QED
    BY <1>5, <2>1
<1> HIDE DEF G
<1> DEFINE B == {k \in 0 .. n : c[k] # k}
<1>8. B = {}
  <2>1. SUFFICES ASSUME B # {}
                 PROVE  FALSE
    OBVIOUS
  <2>2. B \subseteq Nat
    OBVIOUS
  <2>3. PICK k \in B : \A l \in B : k <= l
    <3> HIDE DEF B
    <3> QED
      BY <2>1, <2>2, SmallestNumber
  <2>4. k \in 0 .. n /\ c[k] # k
    OBVIOUS
  <2>5. k # 0
    BY <1>7, <2>4
  <2>6. k \in 1 .. n /\ k - 1 \in 0 .. n /\ ~(k <= k - 1)
    BY <1>1, <2>4, <2>5
  <2>7. c[k - 1] = k - 1
    BY <2>3, <2>6
  <2>8. Match(s, fields[k], c[k - 1]) = k
    BY <1>2, <2>6, <2>7
  <2>9. c[k] = k
    BY <1>7, <2>5, <2>6, <2>8
  <2> QED
    BY <2>4, <2>9
<1> QED
  BY <1>6, <1>8

\* Nothing in order, either way.
LEMMA NothingInOrder == Ascending({}) = <<>> /\ Descending({}) = <<>>
<1>1. Ascending({}) = <<>>
  <2>1. Cardinality({}) = 0
    BY FS_EmptySet
  <2>2. 1 .. 0 = {}
    OBVIOUS
  <2> QED
    BY <2>1, <2>2 DEF Ascending
<1>2. Reverse(<<>>) = <<>>
  BY DEF Reverse
<1> QED
  BY <1>1, <1>2 DEF Descending

\* So every header is retained, no field is new, and the body is the one the session has.
LEMMA EchoReplacesNothing ==
  ASSUME NEW s, NEW headers, NEW fields, NEW n, Echoes(s, headers, fields, n)
  PROVE  Replace(s, fields, s.body) = <<>>
<1>1. n \in Nat /\ headers = s.headers /\ DOMAIN headers = 1 .. n /\ DOMAIN fields = 1 .. n
  BY DEF Echoes
<1>2. PICK cursor : cursor = Cursors(s, fields)
  OBVIOUS
<1> DEFINE matched(k) == Match(s, fields[k], cursor[k - 1])
<1>3. \A k \in 1 .. n : matched(k) = k
  <2> SUFFICES ASSUME NEW k \in 1 .. n PROVE matched(k) = k
    OBVIOUS
  <2>1. k - 1 \in 0 .. n
    BY <1>1
  <2>2. cursor[k - 1] = k - 1
    BY <1>2, <2>1, EchoCursors
  <2>3. Match(s, fields[k], k - 1) = k
    BY EchoMatches
  <2> QED
    BY <2>2, <2>3
<1> HIDE DEF matched
<1>4. DOMAIN s.headers \ {matched(k) : k \in DOMAIN fields} = {}
  BY <1>1, <1>3
<1>5. {k \in DOMAIN fields : matched(k) = 0} = {}
  <2>1. \A k \in 1 .. n : k # 0
    OBVIOUS
  <2> QED
    BY <1>1, <1>3, <2>1
<1>6. DOMAIN <<>> = {}
  OBVIOUS
<1> DEFINE gone == Descending(DOMAIN s.headers \ {matched(k) : k \in DOMAIN fields})
           new == Ascending({k \in DOMAIN fields : matched(k) = 0})
<1>7. gone = <<>> /\ new = <<>>
  BY <1>4, <1>5, NothingInOrder
<1>8. Replace(s, fields, s.body) =
        [k \in DOMAIN gone |-> Modify("ChangeHeader", s.headers[gone[k]].name, <<>>,
                                      Occurrence(s.headers, gone[k]))]
          \o [k \in DOMAIN new |-> Modify("InsertRawHeader", fields[new[k]].name,
                                          fields[new[k]].value, new[k] - 1)]
          \o <<>>
  BY <1>2 DEF Replace, matched
<1> HIDE DEF gone, new
<1>9. [k \in DOMAIN gone |-> Modify("ChangeHeader", s.headers[gone[k]].name, <<>>,
                                    Occurrence(s.headers, gone[k]))] = <<>>
  BY <1>6, <1>7
<1>10. [k \in DOMAIN new |-> Modify("InsertRawHeader", fields[new[k]].name,
                                    fields[new[k]].value, new[k] - 1)] = <<>>
  BY <1>6, <1>7
<1>11. <<>> \o <<>> \o <<>> = <<>>
  OBVIOUS
<1> QED
  BY <1>8, <1>9, <1>10, <1>11

\* The fields of the echo are those of the session's headers.
LEMMA EchoFields ==
  ASSUME ProgressInv, NEW s, s = session,
         \A i \in DOMAIN s.headers : HeaderName(s.headers[i].name) /\ FoldsOnly(s.headers[i].value)
  PROVE  /\ \E n : Echoes(s, s.headers, Echo.fields, n) /\ n <= MaxHeaders
         /\ \A i \in DOMAIN Echo.fields : /\ HeaderName(Echo.fields[i].name)
                                          /\ FoldsOnly(Echo.fields[i].value)
<1>1. PICK headers : headers = s.headers
  OBVIOUS
<1>2. headers \in Seq(Fields) /\ Len(headers) <= MaxHeaders
  BY <1>1, TranslationAssumption DEF ProgressInv
<1>3. PICK n \in Nat : n = Len(headers)
  BY <1>2
<1>4. DOMAIN headers = 1 .. n /\ \A i \in 1 .. n : headers[i] \in Fields
  BY <1>2, <1>3, ElementOfSeq
<1>5. PICK fields : fields = [i \in 1 .. n |-> [headers[i] EXCEPT !.value = ColonText(@, s.leading)]]
  OBVIOUS
<1>6. Echo.fields = fields
  BY <1>1, <1>4, <1>5 DEF Echo, RawFields
<1>7. ASSUME NEW i \in 1 .. n
      PROVE  /\ fields[i].name = headers[i].name
             /\ fields[i].value = ColonText(headers[i].value, s.leading)
             /\ headers[i] = [name |-> fields[i].name, value |-> headers[i].value]
             /\ headers[i].value \in Seq(Chars)
             /\ HeaderName(headers[i].name) /\ FoldsOnly(headers[i].value)
  <2>1. PICK h \in Fields : h = headers[i]
    BY <1>4
  <2>2. PICK v : v = ColonText(h.value, s.leading)
    OBVIOUS
  <2>3. fields[i] = [h EXCEPT !.value = v]
    BY <1>5, <2>1, <2>2
  <2>4. /\ h = [name |-> h.name, value |-> h.value] /\ h.value \in Seq(Chars)
        /\ [h EXCEPT !.value = v].name = h.name /\ [h EXCEPT !.value = v].value = v
    BY DEF Fields
  <2>5. HeaderName(h.name) /\ FoldsOnly(h.value)
    BY <1>1, <1>4, <2>1
  <2> QED
    BY <2>1, <2>2, <2>3, <2>4, <2>5
<1>8. fields \in [1 .. n -> Fields] /\ Len(fields) = n /\ DOMAIN fields = 1 .. n
  <2>1. Echo.fields \in Seq(Fields)
    BY EchoIsText
  <2>2. fields \in Seq(Fields) /\ DOMAIN fields = 1 .. n
    BY <1>5, <1>6, <2>1
  <2>3. Len(fields) \in Nat /\ DOMAIN fields = 1 .. Len(fields)
    BY <2>2
  <2>4. Len(fields) = n
    BY <2>2
  <2> QED
    BY <2>2, <2>4
<1>9. Echoes(s, headers, fields, n)
  <2>1. \A i \in 1 .. n : Lookup(fields[i].value, s.leading) = [ok |-> TRUE, value |-> headers[i].value]
    BY <1>7, LookedUp
  <2> QED
    BY <1>1, <1>2, <1>3, <1>4, <1>7, <1>8, <2>1 DEF Echoes
<1>10. \A i \in 1 .. n : HeaderName(fields[i].name) /\ FoldsOnly(fields[i].value)
  BY <1>7, ColonTextFolds
<1> QED
  BY <1>1, <1>2, <1>3, <1>6, <1>8, <1>9, <1>10

\* A text within the limit is within it in base64 too.
LEMMA SizeFits ==
  ASSUME NEW b \in Nat, b <= MessageBytes
  PROVE  SizeAccepted(b)
<1>1. MessageBytes \in Nat
  BY TranslationAssumption
<1>2. PICK m \in Nat : m = MessageBytes
  BY <1>1
<1>3. (b + 2) \div 3 <= (m + 2) \div 3
  BY <1>2
<1>4. (b + 2) \div 3 \in Nat /\ (m + 2) \div 3 \in Nat
  OBVIOUS
<1>5. 4 * ((b + 2) \div 3) <= 4 * ((m + 2) \div 3)
  BY <1>3, <1>4
<1> QED
  BY <1>2, <1>5 DEF SizeAccepted

\* What raw_replacement makes of the echo.
LEMMA EchoReplacement ==
  ASSUME ProgressInv, NEW text, text = Text(Echo.fields, Echo.ending, Echo.body),
         \A i \in DOMAIN session.headers : /\ HeaderName(session.headers[i].name)
                                           /\ FoldsOnly(session.headers[i].value),
         Len(text) <= MessageBytes
  PROVE  RawReplacement(session, text) = [ok |-> TRUE, mods |-> <<>>]
<1>1. PICK s : s = session
  OBVIOUS
<1>2. PICK fields : fields = Echo.fields
  OBVIOUS
<1>3. Echo.ending = <<"cr", "lf">> /\ Echo.body = s.body
  BY <1>1 DEF Echo
<1>4. fields \in Seq(Fields) /\ s.body \in Seq(Chars) /\ text \in Seq(Chars)
  <2>1. Echo.fields \in Seq(Fields) /\ Echo.ending \in Seq(Chars) /\ Echo.body \in Seq(Chars)
    BY EchoIsText
  <2>2. text \in Seq(Chars)
    BY <2>1, TextIsText
  <2> QED
    BY <1>2, <1>3, <2>1, <2>2
<1>5. /\ \E n : Echoes(s, s.headers, fields, n) /\ n <= MaxHeaders
      /\ \A i \in DOMAIN fields : HeaderName(fields[i].name) /\ FoldsOnly(fields[i].value)
  <2>1. \A i \in DOMAIN s.headers : HeaderName(s.headers[i].name) /\ FoldsOnly(s.headers[i].value)
    BY <1>1
  <2>2. /\ \E n : Echoes(s, s.headers, Echo.fields, n) /\ n <= MaxHeaders
        /\ \A i \in DOMAIN Echo.fields : /\ HeaderName(Echo.fields[i].name)
                                         /\ FoldsOnly(Echo.fields[i].value)
    BY <1>1, <2>1, EchoFields
  <2> QED
    BY <1>2, <2>2
<1>6. PICK n : Echoes(s, s.headers, fields, n) /\ n <= MaxHeaders
  BY <1>5
<1>7. Replace(s, fields, s.body) = <<>>
  BY <1>6, EchoReplacesNothing
<1>8. text = Text(fields, <<"cr", "lf">>, s.body)
  BY <1>2, <1>3
<1>9. Parse(text) = [ok |-> TRUE, fields |-> fields, body |-> s.body]
  <2>1. Parse(Text(fields, <<"cr", "lf">>, s.body)) = [ok |-> TRUE, fields |-> fields, body |-> s.body]
    BY <1>4, <1>5, MessageReadBack
  <2> QED
    BY <1>8, <2>1
<1>10. PICK parsed : parsed = Parse(text)
  OBVIOUS
<1>11. parsed.ok = TRUE /\ parsed.fields = fields /\ parsed.body = s.body
  BY <1>9, <1>10
<1>12. Len(text) \in Nat
  BY <1>4
<1>13. SizeAccepted(Len(text))
  BY <1>12, SizeFits
<1>14. Len(fields) <= MaxHeaders
  BY <1>6 DEF Echoes
<1>15. Len(<<>>) <= MaxModifications
  <2>1. MaxModifications \in Nat /\ Len(<<>>) = 0
    BY TranslationAssumption
  <2> QED
    BY <2>1
<1>16. PICK result : result = Replace(s, parsed.fields, parsed.body)
  OBVIOUS
<1>17. result = <<>>
  BY <1>7, <1>11, <1>16
<1>18. RawReplacement(s, text) =
         IF /\ SizeAccepted(Len(text)) /\ parsed.ok
            /\ Len(parsed.fields) <= MaxHeaders
            /\ Len(result) <= MaxModifications
         THEN [ok |-> TRUE, mods |-> result]
         ELSE NoRaw
  BY <1>10, <1>16 DEF RawReplacement
<1>19. RawReplacement(s, text) = [ok |-> TRUE, mods |-> <<>>]
  BY <1>11, <1>13, <1>14, <1>15, <1>17, <1>18
<1> QED
  BY <1>1, <1>19

\* While the last operation is the echo, the replacement is what raw_replacement made of it.
EchoInv == op.kind = "setRaw" /\ op.echo =>
             raw = RawReplacement(session, Text(Echo.fields, Echo.ending, Echo.body))

\* An operation that is no replacement says nothing of the echo.
LEMMA OtherOperation ==
  ASSUME op'.kind # "setRaw"
  PROVE  EchoInv'
BY DEF EchoInv

\* A step that takes no operation leaves the echo as it was.
LEMMA NoOperation ==
  ASSUME EchoInv, UNCHANGED <<session, op, raw>>
  PROVE  EchoInv'
<1>1. Echo' = Echo
  BY DEF Echo, RawFields
<1>2. session' = session /\ op' = op /\ raw' = raw
  OBVIOUS
<1> QED
  BY <1>1, <1>2 DEF EchoInv

\* SetRaw stores what raw_replacement makes of the text.
LEMMA EchoTaken ==
  ASSUME NEW r, SetRaw(r)
  PROVE  EchoInv'
<1>1. PICK text : text = Text(r.fields, r.ending, r.body)
  OBVIOUS
<1>2. raw' = RawReplacement(session, text) /\ session' = session
  BY <1>1 DEF SetRaw, TakeRaw
<1>3. op' = [kind |-> "setRaw", arg |-> Seen(r), echo |-> r = Echo]
  BY DEF SetRaw, TakeRaw
<1>4. op'.echo <=> r = Echo
  BY <1>3
<1>5. Echo' = Echo
  BY <1>2 DEF Echo, RawFields
<1>6. SUFFICES ASSUME op'.echo
               PROVE  raw' = RawReplacement(session', Text(Echo'.fields, Echo'.ending, Echo'.body))
  BY DEF EchoInv
<1>7. r = Echo
  BY <1>4, <1>6
<1>8. text = Text(Echo'.fields, Echo'.ending, Echo'.body)
  BY <1>1, <1>5, <1>7
<1> QED
  BY <1>2, <1>8

\* Every step keeps it.
LEMMA EchoStep ==
  ASSUME EchoInv, [TranslateNext]_translateVars
  PROVE  EchoInv'
<1>1. ASSUME NEW i, NEW v, SetHeader(i, v)
      PROVE  EchoInv'
  BY <1>1, OtherOperation DEF SetHeader, Edit
<1>2. ASSUME NEW a, SetFrom(a)
      PROVE  EchoInv'
  BY <1>2, OtherOperation DEF SetFrom, Edit
<1>3. ASSUME NEW i, NEW h, AddHeader(i, h)
      PROVE  EchoInv'
  BY <1>3, OtherOperation DEF AddHeader, Edit
<1>4. ASSUME NEW i, NEW a, AddTo(i, a)
      PROVE  EchoInv'
  BY <1>4, OtherOperation DEF AddTo, Edit
<1>5. ASSUME NEW i, DeleteHeader(i)
      PROVE  EchoInv'
  BY <1>5, OtherOperation DEF DeleteHeader, Edit
<1>6. ASSUME NEW i, DeleteTo(i)
      PROVE  EchoInv'
  BY <1>6, OtherOperation DEF DeleteTo, Edit
<1>7. ASSUME NEW list, Ignore(list)
      PROVE  EchoInv'
  BY <1>7, OtherOperation DEF Ignore, Edit
<1>8. ASSUME NEW r, SetRaw(r)
      PROVE  EchoInv'
  BY <1>8, EchoTaken
<1>9. ASSUME NEW text, SetBadRaw(text)
      PROVE  EchoInv'
  BY <1>9, OtherOperation DEF SetBadRaw, TakeRaw
<1>10. ASSUME NEW a, SetAction(a)
       PROVE  EchoInv'
  BY <1>10, OtherOperation DEF SetAction
<1>11. ASSUME NEW v, SetResponse(v)
       PROVE  EchoInv'
  BY <1>11, OtherOperation DEF SetResponse
<1>12. ASSUME NEW good, SetResponseField(good)
       PROVE  EchoInv'
  BY <1>12, OtherOperation DEF SetResponseField
<1>13. CASE RefuseOperation \/ RefuseDecision
  <2>1. UNCHANGED <<session, op, raw>>
    BY <1>13 DEF RefuseOperation, RefuseDecision, Refused
  <2> QED
    BY <2>1, NoOperation
<1>14. CASE Decide \/ MtaApplies \/ MtaDone
  <2>1. UNCHANGED <<session, op, raw>>
    BY <1>14 DEF Decide, MtaApplies, MtaDone
  <2> QED
    BY <2>1, NoOperation
<1>15. CASE UNCHANGED translateVars
  BY <1>15, NoOperation DEF translateVars
<1> QED
  BY <1>1, <1>2, <1>3, <1>4, <1>5, <1>6, <1>7, <1>8, <1>9, <1>10, <1>11, <1>12, <1>13, <1>14, <1>15
  DEF TranslateNext

\* A scanner that sends the raw message back as it got it causes no edit at all, whatever the
\* headers, however they are folded and with either form of the leading space: raw_message
\* writes what raw_replacement reads back, finds and keeps.
THEOREM EchoChangesNothing == TranslateSpec => []EchoIsNoop
<1>1. TranslateInit => EchoInv
  BY DEF TranslateInit, EchoInv
<1>2. EchoInv /\ [TranslateNext]_translateVars => EchoInv'
  BY EchoStep
<1>3. TranslateIInv /\ EchoInv => EchoIsNoop
  <2>1. SUFFICES ASSUME TranslateIInv, EchoInv, op.kind = "setRaw", op.echo,
                        \A i \in DOMAIN session.headers : /\ HeaderName(session.headers[i].name)
                                                          /\ FoldsOnly(session.headers[i].value),
                        Len(Text(Echo.fields, Echo.ending, Echo.body)) <= MessageBytes
                 PROVE  raw = [ok |-> TRUE, mods |-> <<>>]
    BY DEF EchoIsNoop
  <2>2. PICK text : text = Text(Echo.fields, Echo.ending, Echo.body)
    OBVIOUS
  <2>3. raw = RawReplacement(session, text)
    BY <2>1, <2>2 DEF EchoInv
  <2>4. ProgressInv /\ Len(text) <= MessageBytes
    BY <2>1, <2>2 DEF TranslateIInv
  <2>5. RawReplacement(session, text) = [ok |-> TRUE, mods |-> <<>>]
    BY <2>1, <2>2, <2>4, EchoReplacement
  <2> QED
    BY <2>3, <2>5
<1> QED
  BY <1>1, <1>2, <1>3, TranslateInvariant, PTL DEF TranslateSpec
=============================================================================
