-------------------------- MODULE HookReplayProofs --------------------------
(***************************************************************************)
(* What the MTA makes of the modifications, for every value of the         *)
(* constants of HookTranslation: the headers after any number of them are  *)
(* the entries of a list at a set of its places, a set that loses places   *)
(* from the last to the first and then gains them from the first to the    *)
(* last, so that a position always means the same place.                   *)
(***************************************************************************)
EXTENDS HookTranslationProofs

-----------------------------------------------------------------------------
(* Sublists. *)

\* The entries of a list at a set of places, in order.
Picked(list, S) == [k \in 1 .. Cardinality(S) |-> list[Ascending(S)[k]]]

\* Places that start with 1 .. b are listed as these, then the others.
LEMMA AscendingPrefix ==
  ASSUME NEW n \in Nat, NEW S, S \subseteq 1 .. n, NEW b \in Nat, 1 .. b \subseteq S
  PROVE  /\ b <= Cardinality(S) /\ Cardinality(S) \in Nat
         /\ \A k \in 1 .. b : Ascending(S)[k] = k
         /\ \A k \in 1 .. Cardinality(S) : k > b => Ascending(S)[k] > b
<1>1. IsFiniteSet(S) /\ Cardinality(S) \in Nat
  BY AscendingPart
<1>2. S \subseteq Int
  OBVIOUS
<1>3. PICK c : c = Cardinality(S)
  OBVIOUS
<1>4. PICK a : a = Ascending(S)
  OBVIOUS
<1>5. /\ \A k \in 1 .. c : a[k] \in S
      /\ \A k, l \in 1 .. c : k < l => a[k] < a[l]
      /\ \A p \in S : Rank(S, p) \in 1 .. c /\ a[Rank(S, p)] = p
  BY <1>1, <1>2, <1>3, <1>4, AscendingOK
<1>6. ASSUME NEW k \in 1 .. b PROVE Rank(S, k) = k
  <2>1. {q \in S : q <= k} = 1 .. k
    <3>1. \A q \in S : q \in 1 .. n
      OBVIOUS
    <3>2. 1 .. k \subseteq S /\ k \in Nat
      OBVIOUS
    <3>3. ASSUME NEW q \in S, q <= k PROVE q \in 1 .. k
      BY <3>1, <3>2, <3>3
    <3>4. ASSUME NEW q \in 1 .. k PROVE q \in S /\ q <= k
      BY <3>2
    <3> QED
      BY <3>3, <3>4
  <2>2. Cardinality(1 .. k) = k
    <3>1. 1 \in Int /\ k \in Int
      OBVIOUS
    <3>2. Cardinality(1 .. k) = IF 1 > k THEN 0 ELSE k - 1 + 1
      BY <3>1, FS_Interval
    <3> QED
      BY <3>2
  <2> QED
    BY <2>1, <2>2 DEF Rank
<1>7. \A k \in 1 .. b : k \in S
  OBVIOUS
<1>8. \A k \in 1 .. b : k \in 1 .. c /\ a[k] = k
  BY <1>5, <1>6, <1>7
<1>9. b <= c
  BY <1>1, <1>3, <1>8
<1>10. ASSUME NEW k \in 1 .. c, k > b PROVE a[k] > b
  <2>1. CASE b = 0
    <3>1. a[k] \in 1 .. n
      BY <1>5
    <3> QED
      BY <2>1, <3>1
  <2>2. CASE b # 0
    <3>1. b \in 1 .. b /\ b \in 1 .. c
      BY <1>1, <1>3, <1>9, <2>2
    <3>2. a[b] = b /\ a[b] < a[k]
      BY <1>5, <1>8, <1>10, <3>1
    <3> QED
      BY <3>2
  <2> QED
    BY <2>1, <2>2
<1> QED
  BY <1>1, <1>3, <1>4, <1>8, <1>9, <1>10

\* Without its p-th member, which is p, a set of places is listed as before up to it and
\* shifted behind it.
LEMMA AscendingWithout ==
  ASSUME NEW n \in Nat, NEW S, S \subseteq 1 .. n, NEW p \in S, 1 .. (p - 1) \subseteq S
  PROVE  /\ p <= Cardinality(S) /\ Cardinality(S) \in Nat
         /\ Cardinality(S \ {p}) = Cardinality(S) - 1
         /\ \A k \in 1 .. (p - 1) : Ascending(S \ {p})[k] = k
         /\ \A k \in p .. (Cardinality(S) - 1) : Ascending(S \ {p})[k] = Ascending(S)[k + 1]
<1>1. IsFiniteSet(S) /\ Cardinality(S) \in Nat
  BY AscendingPart
<1>2. PICK T : T = S \ {p}
  OBVIOUS
<1>3. T \subseteq 1 .. n /\ 1 .. (p - 1) \subseteq T
  BY <1>2
<1>4. IsFiniteSet(T) /\ Cardinality(T) \in Nat /\ Cardinality(T) = Cardinality(S) - 1
  BY <1>1, <1>2, <1>3, AscendingPart, FS_RemoveElement
<1>5. 1 .. p \subseteq S /\ p \in Nat /\ p - 1 \in Nat
  OBVIOUS
<1>6. /\ p <= Cardinality(S)
      /\ \A k \in 1 .. p : Ascending(S)[k] = k
      /\ \A k \in 1 .. Cardinality(S) : k > p => Ascending(S)[k] > p
  BY <1>5, AscendingPrefix
<1>7. \A k \in 1 .. (p - 1) : Ascending(T)[k] = k
  BY <1>3, <1>5, AscendingPrefix
<1>8. ASSUME NEW k \in p .. (Cardinality(S) - 1)
      PROVE  Ascending(T)[k] = Ascending(S)[k + 1]
  <2>1. PICK q : q = Ascending(S)[k + 1]
    OBVIOUS
  <2>2. k + 1 \in 1 .. Cardinality(S) /\ k + 1 > p /\ k \in Nat
    BY <1>1, <1>5
  <2>3. q \in S /\ Rank(S, q) = k + 1 /\ q > p
    <3>1. S \subseteq Int
      OBVIOUS
    <3>2. \A j \in 1 .. Cardinality(S) : Ascending(S)[j] \in S /\ Rank(S, Ascending(S)[j]) = j
      BY <1>1, <3>1, AscendingOK
    <3>3. q \in S /\ Rank(S, q) = k + 1
      BY <2>1, <2>2, <3>2
    <3>4. q > p
      BY <1>6, <2>1, <2>2
    <3> QED
      BY <3>3, <3>4
  <2>4. q \in T
    BY <1>2, <2>3
  <2>5. Rank(T, q) = k
    <3>1. PICK U : U = {r \in S : r <= q}
      OBVIOUS
    <3>2. U \subseteq 1 .. n /\ p \in U
      <4>1. p \in 1 .. n /\ q \in 1 .. n
        BY <2>3
      <4>2. p <= q
        BY <2>3, <4>1
      <4> QED
        BY <3>1, <4>2
    <3>3. IsFiniteSet(U) /\ Cardinality(U) = k + 1
      BY <2>3, <3>1, <3>2, AscendingPart DEF Rank
    <3>4. {r \in T : r <= q} = U \ {p}
      BY <1>2, <3>1
    <3>5. Cardinality(U \ {p}) = (k + 1) - 1
      BY <3>2, <3>3, FS_RemoveElement
    <3> QED
      BY <2>2, <3>4, <3>5 DEF Rank
  <2>6. \A r \in T : Ascending(T)[Rank(T, r)] = r
    <3>1. T \subseteq Int
      BY <1>3
    <3> QED
      BY <1>4, <3>1, AscendingOK
  <2> QED
    BY <2>1, <2>4, <2>5, <2>6
<1> QED
  BY <1>1, <1>2, <1>4, <1>6, <1>7, <1>8

\* A set of places is finite, and Ascending lists its members.
LEMMA PlacesOK ==
  ASSUME NEW n \in Nat, NEW S, S \subseteq 1 .. n
  PROVE  /\ IsFiniteSet(S) /\ Cardinality(S) \in Nat
         /\ \A k \in 1 .. Cardinality(S) : Ascending(S)[k] \in S
<1>1. IsFiniteSet(S) /\ Cardinality(S) \in Nat
  BY AscendingPart
<1>2. S \subseteq Int
  OBVIOUS
<1> QED
  BY <1>1, <1>2, AscendingOK

\* A sublist is a list of the same entries.
LEMMA PickedOK ==
  ASSUME NEW E, NEW list \in Seq(E), NEW S, S \subseteq 1 .. Len(list)
  PROVE  /\ Picked(list, S) \in Seq(E) /\ Cardinality(S) \in Nat
         /\ Len(Picked(list, S)) = Cardinality(S) /\ DOMAIN Picked(list, S) = 1 .. Cardinality(S)
<1>0. PICK n \in Nat : n = Len(list) /\ \A k \in 1 .. n : list[k] \in E
  BY ElementOfSeq
<1>1. PICK c : c = Cardinality(S)
  OBVIOUS
<1>2. PICK a : a = Ascending(S)
  OBVIOUS
<1>3. c \in Nat /\ \A k \in 1 .. c : a[k] \in 1 .. n
  <2>1. Cardinality(S) \in Nat /\ \A k \in 1 .. Cardinality(S) : Ascending(S)[k] \in S
    BY <1>0, PlacesOK
  <2> QED
    BY <1>0, <1>1, <1>2, <2>1
<1>4. [k \in 1 .. c |-> list[a[k]]] \in [1 .. c -> E]
  BY <1>0, <1>3
<1>5. PICK x : x = [k \in 1 .. c |-> list[a[k]]]
  OBVIOUS
<1>6. x \in Seq(E) /\ Len(x) = c /\ DOMAIN x = 1 .. c
  <2>1. x \in [1 .. c -> E]
    BY <1>4, <1>5
  <2>2. x \in Seq(E)
    BY <1>3, <2>1, SeqDef
  <2>3. DOMAIN x = 1 .. c
    BY <2>1
  <2>4. DOMAIN x = 1 .. Len(x) /\ Len(x) \in Nat
    BY <2>2
  <2> QED
    BY <1>3, <2>2, <2>3, <2>4
<1> QED
  BY <1>1, <1>2, <1>3, <1>5, <1>6 DEF Picked

\* All of a list.
LEMMA PickedAll ==
  ASSUME NEW E, NEW list \in Seq(E)
  PROVE  Picked(list, 1 .. Len(list)) = list
<1>1. PICK n : n = Len(list)
  OBVIOUS
<1>2. n \in Nat /\ list \in [1 .. n -> E] /\ DOMAIN list = 1 .. n
  BY <1>1
<1>3. Cardinality(1 .. n) = n
  <2>1. 1 \in Int /\ n \in Int
    BY <1>2
  <2>2. Cardinality(1 .. n) = IF 1 > n THEN 0 ELSE n - 1 + 1
    BY <2>1, FS_Interval
  <2> QED
    BY <1>2, <2>2
<1>4. \A k \in 1 .. n : Ascending(1 .. n)[k] = k
  BY <1>2, AscendingPrefix
<1>5. Picked(list, 1 .. n) = [k \in 1 .. n |-> list[k]]
  BY <1>3, <1>4 DEF Picked
<1> QED
  BY <1>1, <1>2, <1>5

\* A list's start is in every sublist that leaves nothing of it out.
LEMMA PickedPrefix ==
  ASSUME NEW n \in Nat, NEW list, NEW S, S \subseteq 1 .. n, NEW b \in Nat, 1 .. b \subseteq S
  PROVE  \A k \in 1 .. b : Picked(list, S)[k] = list[k]
<1>1. b <= Cardinality(S) /\ Cardinality(S) \in Nat /\ \A k \in 1 .. b : Ascending(S)[k] = k
  BY AscendingPrefix
<1>2. \A k \in 1 .. b : k \in 1 .. Cardinality(S)
  BY <1>1
<1> QED
  BY <1>1, <1>2 DEF Picked

\* Two lists agree at the places picked.
AlikeAt(f, g, S) == f \in Seq(Fields) /\ S \subseteq 1 .. Len(f) /\ \A q \in S : f[q] = g[q]

\* Sublists of two lists that agree at the places picked.
LEMMA PickedSame ==
  ASSUME NEW f, NEW g, NEW S, AlikeAt(f, g, S)
  PROVE  Picked(f, S) = Picked(g, S)
<1>0. Len(f) \in Nat /\ S \subseteq 1 .. Len(f) /\ \A q \in S : f[q] = g[q]
  BY DEF AlikeAt
<1>1. PICK c : c = Cardinality(S)
  OBVIOUS
<1>2. PICK a : a = Ascending(S)
  OBVIOUS
<1>3. \A k \in 1 .. c : a[k] \in S
  BY <1>0, <1>1, <1>2, PlacesOK
<1>4. [k \in 1 .. c |-> f[a[k]]] = [k \in 1 .. c |-> g[a[k]]]
  BY <1>0, <1>3
<1> QED
  BY <1>1, <1>2, <1>4 DEF Picked

\* What is behind an entry moves up when the entry is taken out.
LEMMA RemoveAtEntries ==
  ASSUME NEW E, NEW list \in Seq(E), NEW p \in 1 .. Len(list)
  PROVE  RemoveAt(list, p) = [k \in 1 .. (Len(list) - 1) |-> IF k < p THEN list[k] ELSE list[k + 1]]
<1>1. PICK n : n = Len(list)
  OBVIOUS
<1>2. n \in Nat /\ p \in 1 .. n /\ \A i \in 1 .. n : list[i] \in E
  BY <1>1, ElementOfSeq
<1>3. PICK l : l = SubSeq(list, 1, p - 1)
  OBVIOUS
<1>4. PICK r : r = SubSeq(list, p + 1, n)
  OBVIOUS
<1>5. l \in Seq(E) /\ Len(l) = p - 1 /\ \A i \in 1 .. (p - 1) : l[i] = list[i]
  <2>1. \A i \in 1 .. (p - 1) : list[i] \in E
    BY <1>2
  <2>2. 1 \in Int /\ p - 1 \in Int
    BY <1>2
  <2>3. /\ l \in Seq(E) /\ Len(l) = IF 1 <= p - 1 THEN (p - 1) - 1 + 1 ELSE 0
        /\ \A i \in 1 .. (p - 1) - 1 + 1 : l[i] = list[1 + i - 1]
    BY <1>3, <2>1, <2>2, SubSeqProperties
  <2> QED
    BY <1>2, <2>3
<1>6. r \in Seq(E) /\ Len(r) = n - p /\ \A i \in 1 .. (n - p) : r[i] = list[p + i]
  <2>1. \A i \in (p + 1) .. n : list[i] \in E
    BY <1>2
  <2>2. p + 1 \in Int /\ n \in Int
    BY <1>2
  <2>3. /\ r \in Seq(E) /\ Len(r) = IF p + 1 <= n THEN n - (p + 1) + 1 ELSE 0
        /\ \A i \in 1 .. n - (p + 1) + 1 : r[i] = list[(p + 1) + i - 1]
    BY <1>4, <2>1, <2>2, SubSeqProperties
  <2> QED
    BY <1>2, <2>3
<1>7. PICK x : x = l \o r
  OBVIOUS
<1>8. /\ x \in Seq(E) /\ Len(x) = n - 1
      /\ \A i \in 1 .. (n - 1) : x[i] = IF i < p THEN l[i] ELSE r[i - (p - 1)]
  <2>1. /\ x \in Seq(E) /\ Len(x) = Len(l) + Len(r)
        /\ \A i \in 1 .. Len(l) + Len(r) : x[i] = IF i <= Len(l) THEN l[i] ELSE r[i - Len(l)]
    BY <1>5, <1>6, <1>7, ConcatProperties
  <2> QED
    BY <1>2, <1>5, <1>6, <2>1
<1>9. ASSUME NEW i \in 1 .. (n - 1) PROVE x[i] = IF i < p THEN list[i] ELSE list[i + 1]
  <2>1. CASE i < p
    BY <1>2, <1>5, <1>8, <2>1
  <2>2. CASE ~(i < p)
    <3>1. i - (p - 1) \in 1 .. (n - p) /\ p + (i - (p - 1)) = i + 1
      BY <1>2, <2>2
    <3> QED
      BY <1>6, <1>8, <2>2, <3>1
  <2> QED
    BY <2>1, <2>2
<1>10. DOMAIN x = 1 .. (n - 1) /\ x = [i \in DOMAIN x |-> x[i]]
  BY <1>8
<1> QED
  BY <1>1, <1>3, <1>4, <1>7, <1>9, <1>10 DEF RemoveAt

\* Place p is picked, and all before it.
CutAt(list, S, p) ==
  list \in Seq(Fields) /\ S \subseteq 1 .. Len(list) /\ p \in S /\ 1 .. (p - 1) \subseteq S

\* Taking out the p-th entry of a sublist takes place p out of it.
LEMMA PickedRemove ==
  ASSUME NEW list, NEW S, NEW p, CutAt(list, S, p)
  PROVE  RemoveAt(Picked(list, S), p) = Picked(list, S \ {p})
<1> USE DEF CutAt
<1>e. PICK E : E = Fields
  OBVIOUS
<1>n. PICK n : n = Len(list)
  OBVIOUS
<1>a. list \in Seq(E) /\ S \subseteq 1 .. n /\ p \in S /\ 1 .. (p - 1) \subseteq S
  BY <1>e, <1>n
<1> HIDE DEF CutAt
<1>0. n \in Nat /\ p \in 1 .. n
  BY <1>n, <1>a
<1> USE <1>n, <1>a
<1>1. PICK c : c = Cardinality(S)
  OBVIOUS
<1>2. PICK x : x = Picked(list, S)
  OBVIOUS
<1>3. x \in Seq(E) /\ c \in Nat /\ Len(x) = c
  <2>1. /\ Picked(list, S) \in Seq(E) /\ Cardinality(S) \in Nat
        /\ Len(Picked(list, S)) = Cardinality(S) /\ DOMAIN Picked(list, S) = 1 .. Cardinality(S)
    BY PickedOK
  <2> QED
    BY <1>1, <1>2, <2>1
<1>4. /\ p <= c /\ Cardinality(S \ {p}) = c - 1
      /\ \A k \in 1 .. (p - 1) : Ascending(S \ {p})[k] = k
      /\ \A k \in p .. (c - 1) : Ascending(S \ {p})[k] = Ascending(S)[k + 1]
  <2>1. /\ p <= Cardinality(S) /\ Cardinality(S) \in Nat
        /\ Cardinality(S \ {p}) = Cardinality(S) - 1
        /\ \A k \in 1 .. (p - 1) : Ascending(S \ {p})[k] = k
        /\ \A k \in p .. (Cardinality(S) - 1) : Ascending(S \ {p})[k] = Ascending(S)[k + 1]
    BY <1>0, AscendingWithout
  <2> QED
    BY <1>1, <2>1
<1>5. p \in 1 .. c /\ p - 1 \in Nat
  BY <1>3, <1>4
<1>6. RemoveAt(x, p) = [k \in 1 .. (c - 1) |-> IF k < p THEN x[k] ELSE x[k + 1]]
  BY <1>3, <1>5, RemoveAtEntries
<1>7. \A k \in 1 .. (p - 1) : x[k] = list[k]
  <2>1. PICK b \in Nat : b = p - 1
    BY <1>5
  <2>2. 1 .. b \subseteq S
    BY <2>1
  <2>3. b <= Cardinality(S) /\ \A k \in 1 .. b : Ascending(S)[k] = k
    BY <1>0, <2>2, AscendingPrefix
  <2>4. \A k \in 1 .. b : k \in 1 .. c
    BY <1>1, <1>3, <2>3
  <2> QED
    BY <1>1, <1>2, <2>1, <2>3, <2>4 DEF Picked
<1>8. \A k \in 1 .. c : x[k] = list[Ascending(S)[k]]
  BY <1>1, <1>2 DEF Picked
<1>9. ASSUME NEW k \in 1 .. (c - 1)
      PROVE  (IF k < p THEN x[k] ELSE x[k + 1]) = list[Ascending(S \ {p})[k]]
  <2>1. CASE k < p
    <3>1. k \in 1 .. (p - 1)
      BY <1>5, <2>1
    <3> QED
      BY <1>4, <1>7, <2>1, <3>1
  <2>2. CASE ~(k < p)
    <3>1. k \in p .. (c - 1) /\ k + 1 \in 1 .. c
      BY <1>3, <1>5, <2>2
    <3> QED
      BY <1>4, <1>8, <2>2, <3>1
  <2> QED
    BY <2>1, <2>2
<1>10. Picked(list, S \ {p}) = [k \in 1 .. (c - 1) |-> list[Ascending(S \ {p})[k]]]
  BY <1>4 DEF Picked
<1> QED
  BY <1>2, <1>6, <1>9, <1>10

\* The list with x at place p, and what was there and behind it one place down.
Widened(list, p, x) ==
  [k \in 1 .. (Len(list) + 1) |-> IF k < p THEN list[k] ELSE IF k = p THEN x ELSE list[k - 1]]

\* What is behind a new entry moves down.
LEMMA InsertAtEntries ==
  ASSUME NEW E, NEW list \in Seq(E), NEW p \in 1 .. (Len(list) + 1), NEW x \in E
  PROVE  /\ InsertAt(list, p, x) \in Seq(E)
         /\ InsertAt(list, p, x) = Widened(list, p, x)
<1>1. PICK n : n = Len(list)
  OBVIOUS
<1>2. n \in Nat /\ p \in 1 .. (n + 1) /\ \A i \in 1 .. n : list[i] \in E
  BY <1>1, ElementOfSeq
<1>3. PICK l : l = SubSeq(list, 1, p - 1)
  OBVIOUS
<1>4. PICK r : r = SubSeq(list, p, n)
  OBVIOUS
<1>5. l \in Seq(E) /\ Len(l) = p - 1 /\ \A i \in 1 .. (p - 1) : l[i] = list[i]
  <2>1. \A i \in 1 .. (p - 1) : list[i] \in E
    BY <1>2
  <2>2. 1 \in Int /\ p - 1 \in Int
    BY <1>2
  <2>3. /\ l \in Seq(E) /\ Len(l) = IF 1 <= p - 1 THEN (p - 1) - 1 + 1 ELSE 0
        /\ \A i \in 1 .. (p - 1) - 1 + 1 : l[i] = list[1 + i - 1]
    BY <1>3, <2>1, <2>2, SubSeqProperties
  <2> QED
    BY <1>2, <2>3
<1>6. r \in Seq(E) /\ Len(r) = n - p + 1 /\ \A i \in 1 .. (n - p + 1) : r[i] = list[p + i - 1]
  <2>1. \A i \in p .. n : list[i] \in E
    BY <1>2
  <2>2. p \in Int /\ n \in Int
    BY <1>2
  <2>3. /\ r \in Seq(E) /\ Len(r) = IF p <= n THEN n - p + 1 ELSE 0
        /\ \A i \in 1 .. n - p + 1 : r[i] = list[p + i - 1]
    BY <1>4, <2>1, <2>2, SubSeqProperties
  <2> QED
    BY <1>2, <2>3
<1>7. PICK y : y = l \o <<x>>
  OBVIOUS
<1>8. /\ y \in Seq(E) /\ Len(y) = p
      /\ \A i \in 1 .. p : y[i] = IF i < p THEN l[i] ELSE x
  <2>1. <<x>> \in Seq(E) /\ Len(<<x>>) = 1 /\ <<x>>[1] = x
    OBVIOUS
  <2>2. /\ y \in Seq(E) /\ Len(y) = Len(l) + 1
        /\ \A i \in 1 .. Len(l) + 1 : y[i] = IF i <= Len(l) THEN l[i] ELSE <<x>>[i - Len(l)]
    BY <1>5, <1>7, <2>1, ConcatProperties
  <2>3. Len(y) = p
    BY <1>2, <1>5, <2>2
  <2>4. \A i \in 1 .. p : i < p => y[i] = l[i]
    BY <1>2, <1>5, <2>2
  <2>5. y[p] = x
    <3>1. p \in 1 .. Len(l) + 1 /\ ~(p <= Len(l)) /\ p - Len(l) = 1
      BY <1>2, <1>5
    <3> QED
      BY <2>1, <2>2, <3>1
  <2> QED
    BY <1>2, <2>2, <2>3, <2>4, <2>5
<1>9. PICK z : z = y \o r
  OBVIOUS
<1>10. /\ z \in Seq(E) /\ Len(z) = n + 1
       /\ \A i \in 1 .. (n + 1) : z[i] = IF i <= p THEN y[i] ELSE r[i - p]
  <2>1. /\ z \in Seq(E) /\ Len(z) = Len(y) + Len(r)
        /\ \A i \in 1 .. Len(y) + Len(r) : z[i] = IF i <= Len(y) THEN y[i] ELSE r[i - Len(y)]
    BY <1>6, <1>8, <1>9, ConcatProperties
  <2> QED
    BY <1>2, <1>6, <1>8, <2>1
<1>11. ASSUME NEW i \in 1 .. (n + 1)
       PROVE  z[i] = IF i < p THEN list[i] ELSE IF i = p THEN x ELSE list[i - 1]
  <2>1. CASE i <= p
    BY <1>2, <1>5, <1>8, <1>10, <2>1
  <2>2. CASE ~(i <= p)
    <3>1. i - p \in 1 .. (n - p + 1) /\ p + (i - p) - 1 = i - 1
      BY <1>2, <2>2
    <3> QED
      BY <1>2, <1>6, <1>10, <2>2, <3>1
  <2> QED
    BY <2>1, <2>2
<1>12. DOMAIN z = 1 .. (n + 1) /\ z = [i \in DOMAIN z |-> z[i]]
  BY <1>10
<1>13. InsertAt(list, p, x) = z
  BY <1>1, <1>3, <1>4, <1>7, <1>9 DEF InsertAt
<1>14. z = Widened(list, p, x)
  BY <1>1, <1>11, <1>12 DEF Widened
<1> QED
  BY <1>10, <1>13, <1>14

\* Putting the p-th entry of a list into a sublist that has all entries before it puts
\* place p into it.
LEMMA PickedInsert ==
  ASSUME NEW E, NEW list \in Seq(E), NEW n, n = Len(list), NEW S, S \subseteq 1 .. n,
         NEW p \in 1 .. n, p \notin S, 1 .. (p - 1) \subseteq S
  PROVE  /\ p - 1 <= Cardinality(S) /\ Cardinality(S) \in Nat
         /\ Cardinality(S \cup {p}) = Cardinality(S) + 1
         /\ InsertAt(Picked(list, S), p, list[p]) = Picked(list, S \cup {p})
<1>0. n \in Nat /\ \A k \in 1 .. n : list[k] \in E
  BY ElementOfSeq
<1>1. PICK T : T = S \cup {p}
  OBVIOUS
<1>2. T \subseteq 1 .. n /\ p \in T /\ 1 .. (p - 1) \subseteq T /\ T \ {p} = S
  BY <1>1
<1>3. PICK c : c = Cardinality(S)
  OBVIOUS
<1>4. c \in Nat /\ Picked(list, S) \in Seq(E) /\ Len(Picked(list, S)) = c
  <2>1. /\ Picked(list, S) \in Seq(E) /\ Cardinality(S) \in Nat
        /\ Len(Picked(list, S)) = Cardinality(S) /\ DOMAIN Picked(list, S) = 1 .. Cardinality(S)
    BY PickedOK
  <2> QED
    BY <1>3, <2>1
<1>5. /\ p <= Cardinality(T) /\ Cardinality(T) \in Nat /\ c = Cardinality(T) - 1
      /\ \A k \in 1 .. (p - 1) : Ascending(S)[k] = k
      /\ \A k \in p .. (Cardinality(T) - 1) : Ascending(S)[k] = Ascending(T)[k + 1]
  <2>1. /\ p <= Cardinality(T) /\ Cardinality(T) \in Nat
        /\ Cardinality(T \ {p}) = Cardinality(T) - 1
        /\ \A k \in 1 .. (p - 1) : Ascending(T \ {p})[k] = k
        /\ \A k \in p .. (Cardinality(T) - 1) : Ascending(T \ {p})[k] = Ascending(T)[k + 1]
    BY <1>0, <1>2, AscendingWithout
  <2> QED
    BY <1>2, <1>3, <2>1
<1>6. Cardinality(T) = c + 1 /\ p \in 1 .. (c + 1)
  BY <1>4, <1>5
<1>7. \A k \in 1 .. p : Ascending(T)[k] = k
  <2>1. 1 .. p \subseteq T /\ p \in Nat
    BY <1>2
  <2> QED
    BY <1>0, <1>2, <2>1, AscendingPrefix
<1>8. PICK x : x = Picked(list, S)
  OBVIOUS
<1>9. InsertAt(x, p, list[p]) = [k \in 1 .. (c + 1) |->
        IF k < p THEN x[k] ELSE IF k = p THEN list[p] ELSE x[k - 1]]
  <2>1. x \in Seq(E) /\ Len(x) = c /\ list[p] \in E
    BY <1>0, <1>4, <1>8
  <2>2. p \in 1 .. (Len(x) + 1)
    BY <1>6, <2>1
  <2>3. PICK y \in E : y = list[p]
    BY <2>1
  <2>4. /\ InsertAt(x, p, y) \in Seq(E)
        /\ InsertAt(x, p, y) = Widened(x, p, y)
    BY <2>1, <2>2, InsertAtEntries
  <2> QED
    BY <2>1, <2>3, <2>4 DEF Widened
<1>10. \A k \in 1 .. c : x[k] = list[Ascending(S)[k]]
  BY <1>3, <1>8 DEF Picked
<1>11. ASSUME NEW k \in 1 .. (c + 1)
       PROVE  (IF k < p THEN x[k] ELSE IF k = p THEN list[p] ELSE x[k - 1]) = list[Ascending(T)[k]]
  <2>1. CASE k < p
    <3>1. k \in 1 .. (p - 1) /\ k \in 1 .. c /\ k \in 1 .. p
      BY <1>4, <1>6, <2>1
    <3> QED
      BY <1>5, <1>7, <1>10, <2>1, <3>1
  <2>2. CASE k = p
    BY <1>7, <2>2
  <2>3. CASE k > p
    <3>1. k - 1 \in p .. (Cardinality(T) - 1) /\ k - 1 \in 1 .. c /\ (k - 1) + 1 = k
      BY <1>4, <1>6, <2>3
    <3>2. x[k - 1] = list[Ascending(T)[k]]
      BY <1>5, <1>10, <3>1
    <3> QED
      BY <2>3, <3>2
  <2> QED
    BY <2>1, <2>2, <2>3
<1>12. Picked(list, T) = [k \in 1 .. (c + 1) |-> list[Ascending(T)[k]]]
  BY <1>6 DEF Picked
<1>13. InsertAt(x, p, list[p]) = Picked(list, T)
  BY <1>9, <1>11, <1>12
<1> QED
  BY <1>1, <1>3, <1>4, <1>6, <1>8, <1>13

-----------------------------------------------------------------------------
(* Occurrences. *)

\* Names that differ in case only are one name.
LEMMA SameNameOK ==
  ASSUME NEW l \in Seq(Chars), NEW m \in Seq(Chars), NEW n \in Seq(Chars)
  PROVE  /\ SameName(m, m)
         /\ SameName(l, m) /\ SameName(m, n) => SameName(l, n)
<1>1. SameName(m, m)
  BY DEF SameName
<1>2. ASSUME SameName(l, m), SameName(m, n) PROVE SameName(l, n)
  <2>1. DOMAIN l = 1 .. Len(l) /\ DOMAIN m = 1 .. Len(m)
    OBVIOUS
  <2>2. Len(l) = Len(m) /\ Len(m) = Len(n) /\ DOMAIN l = DOMAIN m
    BY <1>2, <2>1 DEF SameName
  <2>3. \A i \in DOMAIN l : LowerChar(l[i]) = LowerChar(m[i]) /\ LowerChar(m[i]) = LowerChar(n[i])
    BY <1>2, <2>2 DEF SameName
  <2> QED
    BY <2>2, <2>3 DEF SameName
<1> QED
  BY <1>1, <1>2

\* Two occurrences of a name have different numbers.
LEMMA OccurrencesDiffer ==
  ASSUME NEW list \in Seq(Fields), NEW i \in 1 .. Len(list), NEW p \in 1 .. Len(list), p < i,
         SameName(list[p].name, list[i].name)
  PROVE  Occurrence(list, p) # Occurrence(list, i)
<1>1. \A k \in 1 .. Len(list) : list[k].name \in Seq(Chars)
  <2>1. \A k \in 1 .. Len(list) : list[k] \in Fields
    BY ElementOfSeq
  <2> QED
    BY <2>1 DEF Fields
<1>2. PICK S : S = {j \in 1 .. p : SameName(list[j].name, list[p].name)}
  OBVIOUS
<1>3. PICK T : T = {j \in 1 .. i : SameName(list[j].name, list[i].name)}
  OBVIOUS
<1>4. i \in Nat /\ T \subseteq 1 .. i /\ \A j \in 1 .. p : j \in 1 .. i /\ j \in 1 .. Len(list)
  BY <1>3
<1>5. S \subseteq T
  <2>1. ASSUME NEW j \in S PROVE j \in T
    <3>1. j \in 1 .. i /\ j \in 1 .. Len(list) /\ SameName(list[j].name, list[p].name)
      BY <1>2, <1>4
    <3>2. SameName(list[j].name, list[i].name)
      BY <1>1, <3>1, SameNameOK
    <3> QED
      BY <1>3, <3>1, <3>2
  <2> QED
    BY <2>1
<1>6. i \in T /\ i \notin S
  <2>1. SameName(list[i].name, list[i].name)
    BY <1>1, SameNameOK
  <2> QED
    BY <1>2, <1>3, <2>1
<1>7. IsFiniteSet(T)
  BY <1>4, AscendingPart
<1>8. Cardinality(S) # Cardinality(T)
  <2>1. S \in SUBSET T
    BY <1>5
  <2> QED
    BY <1>6, <1>7, <2>1, FS_Subset
<1> QED
  BY <1>2, <1>3, <1>8 DEF Occurrence

\* A header is found by the occurrence it had in the list the session saw, as long as
\* nothing up to it has changed.
LEMMA LocatedAt ==
  ASSUME NEW headers \in Seq(Fields), NEW now \in Seq(Fields),
         NEW i \in 1 .. Len(headers), i <= Len(now), \A q \in 1 .. i : now[q] = headers[q]
  PROVE  Located(now, headers[i].name, Occurrence(headers, i)) = i
<1>1. PICK name : name = headers[i].name
  OBVIOUS
<1>2. PICK o : o = Occurrence(headers, i)
  OBVIOUS
<1>3. PICK n \in Nat : n = Len(now) /\ DOMAIN now = 1 .. n
  OBVIOUS
<1>4. i \in 1 .. n /\ i \in Nat /\ now[i] = headers[i]
  BY <1>3
<1>5. \A k \in 1 .. n : now[k].name \in Seq(Chars)
  <2>1. \A k \in 1 .. Len(now) : now[k] \in Fields
    BY ElementOfSeq
  <2> QED
    BY <1>3, <2>1 DEF Fields
<1>6. PICK I : I = {p \in 1 .. n : SameName(now[p].name, name) /\ Occurrence(now, p) = o}
  OBVIOUS
<1>7. Located(now, name, o) = FirstOf(I)
  <2>1. PICK seq : seq = [p \in 1 .. n |-> p]
    OBVIOUS
  <2>2. Len(seq) = n /\ \A p \in 1 .. n : seq[p] = p
    BY <1>3, <2>1
  <2>3. {p \in 1 .. Len(seq) : SameName(now[seq[p]].name, name) /\ Occurrence(now, seq[p]) = o} = I
    BY <1>6, <2>2
  <2> QED
    BY <1>3, <2>1, <2>3 DEF Located, SelectInSeq, FirstOf
<1>8. i \in I
  <2>1. SameName(now[i].name, name)
    BY <1>1, <1>4, <1>5, SameNameOK
  <2>2. {j \in 1 .. i : SameName(now[j].name, now[i].name)}
          = {j \in 1 .. i : SameName(headers[j].name, headers[i].name)}
    BY <1>4
  <2>3. Occurrence(now, i) = o
    BY <1>2, <2>2 DEF Occurrence
  <2> QED
    BY <1>4, <1>6, <2>1, <2>3
<1>9. ASSUME NEW p \in I PROVE ~(p < i)
  <2> SUFFICES ASSUME p < i PROVE FALSE
    OBVIOUS
  <2>1. p \in 1 .. n /\ SameName(now[p].name, now[i].name) /\ Occurrence(now, p) = Occurrence(now, i)
    BY <1>1, <1>4, <1>6, <1>8
  <2> QED
    BY <1>3, <1>4, <2>1, OccurrencesDiffer
<1>10. FirstOf(I) = i
  <2>1. I \subseteq Nat /\ I # {}
    BY <1>6, <1>8
  <2>2. FirstOf(I) \in I /\ \A k \in I : FirstOf(I) <= k
    BY <2>1, FirstOfOK
  <2>3. FirstOf(I) \in Nat /\ FirstOf(I) <= i /\ ~(FirstOf(I) < i)
    BY <1>8, <1>9, <2>1, <2>2
  <2> QED
    BY <1>4, <2>3
<1> QED
  BY <1>1, <1>2, <1>7, <1>10

-----------------------------------------------------------------------------
(* Changes and deletions, from the last header to the first. *)

\* A list whose entries from b on have their new values, the places from b on that are
\* not cut, and the headers that this leaves.
Half(headers, new, b) == [q \in 1 .. Len(headers) |-> IF q < b THEN headers[q] ELSE new[q]]
Left(n, cut, b) == {q \in 1 .. n : q < b \/ q \notin cut}
Down(headers, new, cut, b) == Picked(Half(headers, new, b), Left(Len(headers), cut, b))

\* What the new values and the places to cut are: one of each for every header.
NewList(headers, new, cut) ==
  new \in Seq(Fields) /\ Len(new) = Len(headers) /\ cut \subseteq 1 .. Len(headers)

\* The headers on the way down: all in front of b are as they were.
LEMMA DownOK ==
  ASSUME NEW headers \in Seq(Fields), NEW new, NEW cut, NewList(headers, new, cut),
         NEW b \in 1 .. (Len(headers) + 1)
  PROVE  /\ Half(headers, new, b) \in Seq(Fields) /\ Len(Half(headers, new, b)) = Len(headers)
         /\ Down(headers, new, cut, b) \in Seq(Fields)
         /\ Len(Down(headers, new, cut, b)) = Cardinality(Left(Len(headers), cut, b))
         /\ b - 1 <= Len(Down(headers, new, cut, b))
         /\ \A q \in 1 .. (b - 1) : Down(headers, new, cut, b)[q] = headers[q]
<1>1. PICK n \in Nat : n = Len(headers) /\ \A q \in 1 .. n : headers[q] \in Fields
  BY ElementOfSeq
<1>2. \A q \in 1 .. n : new[q] \in Fields
  BY <1>1, ElementOfSeq DEF NewList
<1>3. PICK h : h = Half(headers, new, b)
  OBVIOUS
<1>4. h = [q \in 1 .. n |-> IF q < b THEN headers[q] ELSE new[q]]
  BY <1>1, <1>3 DEF Half
<1>5. h \in Seq(Fields) /\ Len(h) = n
  <2>1. h \in [1 .. n -> Fields]
    BY <1>1, <1>2, <1>4
  <2>2. h \in Seq(Fields)
    BY <1>1, <2>1, SeqDef
  <2>3. DOMAIN h = 1 .. n /\ DOMAIN h = 1 .. Len(h) /\ Len(h) \in Nat
    BY <2>1, <2>2
  <2> QED
    BY <1>1, <2>2, <2>3
<1>6. PICK S : S = Left(n, cut, b)
  OBVIOUS
<1>7. PICK c \in Nat : c = b - 1
  BY <1>1
<1>8. S \subseteq 1 .. Len(h) /\ 1 .. c \subseteq S
  BY <1>1, <1>5, <1>6, <1>7 DEF Left
<1>9. /\ Picked(h, S) \in Seq(Fields) /\ Cardinality(S) \in Nat
      /\ Len(Picked(h, S)) = Cardinality(S) /\ DOMAIN Picked(h, S) = 1 .. Cardinality(S)
  BY <1>5, <1>8, PickedOK
<1>10. c <= Cardinality(S) /\ \A k \in 1 .. c : Ascending(S)[k] = k
  BY <1>1, <1>5, <1>8, AscendingPrefix
<1>11. \A q \in 1 .. c : Picked(h, S)[q] = headers[q]
  <2>1. TAKE q \in 1 .. c
  <2>2. q \in 1 .. Cardinality(S) /\ Ascending(S)[q] = q
    BY <1>9, <1>10
  <2>3. h[q] = headers[q]
    BY <1>1, <1>4, <1>7
  <2> QED
    BY <2>2, <2>3 DEF Picked
<1> QED
  BY <1>1, <1>3, <1>5, <1>6, <1>7, <1>9, <1>10, <1>11 DEF Down

\* A header with another value, and a list with that header.
Valued(f, v) == [f EXCEPT !.value = v]
ValuedAt(list, i, v) == [list EXCEPT ![i].value = v]

\* At places S, which has all before i, g is f with another value at i.
OneChanged(f, g, S, i, v) ==
  /\ f \in Seq(Fields) /\ g \in Seq(Fields) /\ Len(f) = Len(g)
  /\ S \subseteq 1 .. Len(f) /\ i \in S /\ 1 .. (i - 1) \subseteq S
  /\ g[i] = Valued(f[i], v) /\ \A q \in S : q # i => g[q] = f[q]

\* Changing a header of a list that leaves out nothing before it changes it at its place.
LEMMA PickedChange ==
  ASSUME NEW f, NEW g, NEW S, NEW i, NEW v, OneChanged(f, g, S, i, v)
  PROVE  ValuedAt(Picked(f, S), i, v) = Picked(g, S)
<1>0. PICK n : n = Len(f)
  OBVIOUS
<1> USE DEF OneChanged
<1>1. PICK c : c = Cardinality(S)
  OBVIOUS
<1>2. PICK x : x = Picked(f, S)
  OBVIOUS
<1>3. x \in Seq(Fields) /\ c \in Nat /\ DOMAIN x = 1 .. c
  <2>1. /\ Picked(f, S) \in Seq(Fields) /\ Cardinality(S) \in Nat
        /\ Len(Picked(f, S)) = Cardinality(S) /\ DOMAIN Picked(f, S) = 1 .. Cardinality(S)
    <3>1. f \in Seq(Fields) /\ S \subseteq 1 .. Len(f)
      OBVIOUS
    <3> QED
      BY <3>1, PickedOK
  <2> QED
    BY <1>1, <1>2, <2>1
<1>4. PICK a : a = Ascending(S)
  OBVIOUS
<1>5. i \in 1 .. c /\ a[i] = i /\ \A k \in 1 .. c : a[k] \in S /\ (k # i => a[k] # i)
  <2>0. n \in Nat /\ S \subseteq 1 .. n
    BY <1>0
  <2>1. n \in Nat /\ S \subseteq 1 .. n /\ S \subseteq Int /\ i \in Nat /\ 1 .. i \subseteq S /\ i \in 1 .. i
    BY <2>0
  <2>2. i <= Cardinality(S) /\ \A k \in 1 .. i : Ascending(S)[k] = k
    BY <2>1, AscendingPrefix
  <2>3. IsFiniteSet(S)
    BY <2>1, AscendingPart
  <2>4. /\ \A k \in 1 .. Cardinality(S) : Ascending(S)[k] \in S
        /\ \A k, l \in 1 .. Cardinality(S) : k < l => Ascending(S)[k] < Ascending(S)[l]
    BY <2>1, <2>3, AscendingOK
  <2>5. i \in 1 .. c /\ a[i] = i
    BY <1>1, <1>3, <1>4, <2>1, <2>2
  <2>6. ASSUME NEW k \in 1 .. c, k # i PROVE a[k] # i
    <3> HIDE DEF OneChanged
    <3>0. \A q \in S : q \in Nat
      BY <2>0
    <3>1. a[k] \in Nat /\ (k < i \/ i < k)
      <4>1. a[k] \in S
        BY <1>1, <1>4, <2>4
      <4>2. k \in Int
        BY <1>3
      <4>3. i \in Int
        BY <2>1
      <4> QED
        BY <2>6, <3>0, <4>1, <4>2, <4>3
    <3>2. k < i => a[k] < a[i]
      BY <1>1, <1>4, <2>4, <2>5
    <3>3. i < k => a[i] < a[k]
      BY <1>1, <1>4, <2>4, <2>5
    <3> QED
      BY <2>1, <2>5, <3>1, <3>2, <3>3
  <2> QED
    BY <1>1, <1>4, <2>4, <2>5, <2>6
<1>6. \A k \in 1 .. c : x[k] = f[a[k]]
  BY <1>1, <1>2, <1>4 DEF Picked
<1>7. i \in S /\ g[i] = Valued(f[i], v) /\ \A q \in S : q # i => g[q] = f[q]
  OBVIOUS
<1> HIDE DEF OneChanged
<1>8. ValuedAt(x, i, v) = [k \in 1 .. c |-> IF k = i THEN Valued(x[i], v) ELSE x[k]]
  BY <1>3, <1>5 DEF ValuedAt, Valued
<1>9. \A k \in 1 .. c : (IF k = i THEN Valued(x[i], v) ELSE x[k]) = g[a[k]]
  BY <1>5, <1>6, <1>7
<1>10. Picked(g, S) = [k \in 1 .. c |-> g[a[k]]]
  BY <1>1, <1>4 DEF Picked
<1> QED
  BY <1>2, <1>8, <1>9, <1>10

\* The headers down to b are changed, and header i is the next one, to become v.
OneStep(headers, new, cut, b, i, v) ==
  /\ headers \in Seq(Fields) /\ NewList(headers, new, cut)
  /\ b \in 1 .. (Len(headers) + 1) /\ i \in 1 .. (b - 1)
  /\ \A q \in (i + 1) .. (b - 1) : new[q] = headers[q] /\ q \notin cut
  /\ v = <<>> => i \in cut
  /\ v # <<>> => i \notin cut /\ new[i] = Valued(headers[i], v)

\* The change or deletion of header i in another list.
ChangedIn(now, headers, i, v) ==
  ChangeAt(now, Located(now, headers[i].name, Occurrence(headers, i)), v)

\* One step down: the change or deletion of header i, when nothing between i and b changes,
\* is made at i.
LEMMA ChangeDown ==
  ASSUME NEW headers \in Seq(Fields), NEW new, NEW cut, NEW b \in Nat, NEW i \in Nat, NEW v,
         OneStep(headers, new, cut, b, i, v)
  PROVE  ChangedIn(Down(headers, new, cut, b), headers, i, v) = Down(headers, new, cut, i)
<1>0. /\ headers \in Seq(Fields) /\ NewList(headers, new, cut)
      /\ b \in 1 .. (Len(headers) + 1) /\ i \in 1 .. (b - 1)
      /\ \A q \in (i + 1) .. (b - 1) : new[q] = headers[q] /\ q \notin cut
      /\ v = <<>> => i \in cut
      /\ v # <<>> => i \notin cut /\ new[i] = Valued(headers[i], v)
  BY DEF OneStep
<1>1. PICK n \in Nat : n = Len(headers)
  BY <1>0
<1>2. i \in 1 .. n /\ i \in Nat /\ b \in Nat /\ i < b /\ i \in 1 .. (n + 1) /\ b <= n + 1
  BY <1>0, <1>1
<1>3. PICK now : now = Down(headers, new, cut, b)
  OBVIOUS
<1>4. PICK h : h = Half(headers, new, b)
  OBVIOUS
<1>5. PICK g : g = Half(headers, new, i)
  OBVIOUS
<1>6. PICK S : S = Left(n, cut, b)
  OBVIOUS
<1>7. PICK T : T = Left(n, cut, i)
  OBVIOUS
<1>8. h \in Seq(Fields) /\ Len(h) = n /\ now \in Seq(Fields) /\ b - 1 <= Len(now)
      /\ \A q \in 1 .. (b - 1) : now[q] = headers[q]
  BY <1>0, <1>1, <1>2, <1>3, <1>4, DownOK
<1>9. g \in Seq(Fields) /\ Len(g) = n
  BY <1>0, <1>1, <1>2, <1>5, DownOK
<1>10. Located(now, headers[i].name, Occurrence(headers, i)) = i
  <2>1. i \in 1 .. Len(headers) /\ i <= Len(now)
    BY <1>1, <1>2, <1>8
  <2>2. \A q \in 1 .. i : now[q] = headers[q]
    BY <1>2, <1>8
  <2> QED
    BY <1>0, <1>8, <2>1, <2>2, LocatedAt
<1>11. now = Picked(h, S) /\ Down(headers, new, cut, i) = Picked(g, T)
  BY <1>1, <1>3, <1>4, <1>5, <1>6, <1>7 DEF Down
<1>12. S \subseteq 1 .. n /\ i \in S /\ 1 .. (i - 1) \subseteq S
  BY <1>2, <1>6 DEF Left
<1>13. /\ \A q \in 1 .. n : h[q] = IF q < b THEN headers[q] ELSE new[q]
       /\ \A q \in 1 .. n : g[q] = IF q < i THEN headers[q] ELSE new[q]
  BY <1>1, <1>4, <1>5 DEF Half
<1>14. \A q \in 1 .. n : q # i => g[q] = h[q]
  <2>1. TAKE q \in 1 .. n
  <2>2. q \in (i + 1) .. (b - 1) => new[q] = headers[q]
    BY <1>0
  <2>3. q # i => q < i \/ q \in (i + 1) .. (b - 1) \/ q >= b
    BY <1>2
  <2>4. CASE q < i
    BY <1>2, <1>13, <2>4
  <2>5. CASE q \in (i + 1) .. (b - 1)
    <3>1. q < b /\ ~(q < i)
      BY <1>2, <2>5
    <3> QED
      BY <1>13, <2>2, <2>5, <3>1
  <2>6. CASE q >= b
    <3>1. ~(q < b) /\ ~(q < i)
      BY <1>2, <2>6
    <3> QED
      BY <1>13, <3>1
  <2> QED
    BY <2>3, <2>4, <2>5, <2>6
<1>15. \A q \in 1 .. n : q # i => (q \in S <=> q \in T)
  <2>1. TAKE q \in 1 .. n
  <2>2. q \in (i + 1) .. (b - 1) => q \notin cut
    BY <1>0
  <2>3. q # i => q < i \/ q \in (i + 1) .. (b - 1) \/ q >= b
    BY <1>2
  <2>4. (q \in S <=> q < b \/ q \notin cut) /\ (q \in T <=> q < i \/ q \notin cut)
    BY <1>6, <1>7 DEF Left
  <2>5. (q < i => q < b) /\ (q >= b => ~(q < b) /\ ~(q < i))
    BY <1>2
  <2> QED
    BY <2>2, <2>3, <2>4, <2>5
<1>16. T \subseteq 1 .. n
  BY <1>7 DEF Left
<1>17. CASE v = <<>>
  <2>1. i \notin T
    BY <1>0, <1>2, <1>7, <1>17 DEF Left
  <2>2. T = S \ {i}
    BY <1>12, <1>15, <1>16, <2>1
  <2>3. RemoveAt(Picked(h, S), i) = Picked(h, S \ {i})
    <3>1. h \in Seq(Fields) /\ n = Len(h)
      BY <1>8
    <3>2. CutAt(h, S, i)
      BY <1>12, <3>1 DEF CutAt
    <3> QED
      BY <3>2, PickedRemove
  <2>4. Picked(h, T) = Picked(g, T)
    <3>1. \A q \in T : h[q] = g[q]
      BY <1>14, <1>16, <2>1
    <3>2. AlikeAt(h, g, T)
      BY <1>8, <1>16, <3>1 DEF AlikeAt
    <3> QED
      BY <3>2, PickedSame
  <2>5. ChangeAt(now, i, v) = RemoveAt(now, i)
    BY <1>2, <1>17 DEF ChangeAt
  <2> QED
    BY <1>3, <1>10, <1>11, <2>2, <2>3, <2>4, <2>5 DEF ChangedIn
<1>18. CASE v # <<>>
  <2>1. T = S
    <3>1. i \in T
      BY <1>0, <1>2, <1>7, <1>18 DEF Left
    <3>2. \A q \in 1 .. n : q \in S <=> q \in T
      BY <1>12, <1>15, <3>1
    <3> QED
      BY <1>12, <1>16, <3>2
  <2>2. g[i] = Valued(h[i], v)
    BY <1>0, <1>2, <1>13, <1>18
  <2>3. \A q \in S : q # i => g[q] = h[q]
    BY <1>12, <1>14
  <2>4. ValuedAt(Picked(h, S), i, v) = Picked(g, S)
    <3>1. OneChanged(h, g, S, i, v)
      BY <1>8, <1>9, <1>12, <2>2, <2>3 DEF OneChanged
    <3> QED
      BY <3>1, PickedChange
  <2>5. ChangeAt(now, i, v) = ValuedAt(now, i, v)
    BY <1>2, <1>18 DEF ChangeAt, ValuedAt
  <2> QED
    BY <1>3, <1>10, <1>11, <2>1, <2>4, <2>5 DEF ChangedIn
<1> QED
  BY <1>17, <1>18

\* Descending lists a set of places without repetition, largest first, and leaves none out.
LEMMA DescendingOK ==
  ASSUME NEW n \in Nat, NEW S, S \subseteq 1 .. n
  PROVE  /\ Cardinality(S) \in Nat
         /\ Descending(S) \in Seq(S) /\ Len(Descending(S)) = Cardinality(S)
         /\ \A k \in 1 .. Cardinality(S) : Descending(S)[k] \in S
         /\ \A k, l \in 1 .. Cardinality(S) : k < l => Descending(S)[k] > Descending(S)[l]
         /\ \A p \in S : \E k \in 1 .. Cardinality(S) : Descending(S)[k] = p
<1>1. PICK a : a = Ascending(S)
  OBVIOUS
<1>2. PICK c : c = Cardinality(S)
  OBVIOUS
<1>3. PICK d : d = Descending(S)
  OBVIOUS
<1>4. /\ c \in Nat /\ a \in Seq(S) /\ Len(a) = c
      /\ \A k \in 1 .. c : a[k] \in S
      /\ \A k, l \in 1 .. c : k < l => a[k] < a[l]
      /\ \A p \in S : Rank(S, p) \in 1 .. c /\ a[Rank(S, p)] = p
  <2>1. S \subseteq Int
    OBVIOUS
  <2>2. IsFiniteSet(S) /\ Cardinality(S) \in Nat
    BY AscendingPart
  <2> QED
    BY <1>1, <1>2, <2>1, <2>2, AscendingOK
<1>5. d = [k \in 1 .. c |-> a[(c - k) + 1]]
  BY <1>1, <1>3, <1>4 DEF Descending, Reverse
<1>6. \A k \in 1 .. c : (c - k) + 1 \in 1 .. c
  BY <1>4
<1>7. d \in Seq(S) /\ Len(d) = c
  <2>1. d \in Seq(S)
    BY <1>3, DescendingPart
  <2>2. DOMAIN d = 1 .. c
    BY <1>5
  <2> QED
    BY <1>4, <2>1, <2>2
<1>8. \A k \in 1 .. c : d[k] \in S
  BY <1>4, <1>5, <1>6
<1>9. ASSUME NEW k \in 1 .. c, NEW l \in 1 .. c, k < l PROVE d[k] > d[l]
  <2>1. (c - l) + 1 < (c - k) + 1
    BY <1>4, <1>9
  <2>2. a[(c - l) + 1] < a[(c - k) + 1]
    BY <1>4, <1>6, <2>1
  <2>3. d[k] \in Int /\ d[l] \in Int
    <3>1. \A q \in S : q \in Int
      OBVIOUS
    <3> QED
      BY <1>8, <3>1
  <2> QED
    BY <1>5, <2>2, <2>3
<1>10. ASSUME NEW p \in S PROVE \E k \in 1 .. c : d[k] = p
  <2>1. PICK j \in 1 .. c : a[j] = p
    BY <1>4
  <2>2. (c - j) + 1 \in 1 .. c /\ (c - ((c - j) + 1)) + 1 = j
    BY <1>4
  <2>3. d[(c - j) + 1] = p
    BY <1>5, <2>1, <2>2
  <2> QED
    BY <2>2, <2>3
<1> QED
  BY <1>2, <1>3, <1>4, <1>7, <1>8, <1>9, <1>10

\* Nothing lies between one entry of Descending and the next, or before the first or behind
\* the last.
LEMMA DescendingGaps ==
  ASSUME NEW n \in Nat, NEW S, S \subseteq 1 .. n, NEW p \in S, NEW j \in 0 .. Cardinality(S),
         j = 0 \/ p < Descending(S)[j]
  PROVE  j < Cardinality(S) /\ p <= Descending(S)[j + 1]
<1>1. PICK c : c = Cardinality(S)
  OBVIOUS
<1>2. PICK d : d = Descending(S)
  OBVIOUS
<1>3. /\ c \in Nat /\ \A k \in 1 .. c : d[k] \in S
      /\ \A k, l \in 1 .. c : k < l => d[k] > d[l]
      /\ \A q \in S : \E k \in 1 .. c : d[k] = q
  BY <1>1, <1>2, DescendingOK
<1>4. PICK k \in 1 .. c : d[k] = p
  BY <1>3
<1>5. \A l \in 1 .. c : d[l] \in Int
  <2>1. \A q \in S : q \in Int
    OBVIOUS
  <2> QED
    BY <1>3, <2>1
<1>6. j < k
  <2>1. CASE j = 0
    BY <1>3, <2>1
  <2>2. CASE j # 0
    <3>1. j \in 1 .. c /\ p < d[j]
      BY <1>1, <1>2, <1>3, <2>2
    <3>2. k < j => d[k] > d[j]
      BY <1>3, <3>1
    <3>3. k # j /\ ~(k < j)
      BY <1>4, <1>5, <3>1, <3>2
    <3> QED
      BY <1>3, <3>1, <3>3
  <2> QED
    BY <2>1, <2>2
<1>7. j + 1 \in 1 .. c /\ (j + 1 = k \/ j + 1 < k) /\ j < c
  BY <1>1, <1>3, <1>6
<1>8. j + 1 < k => d[j + 1] > d[k]
  BY <1>3, <1>7
<1>9. p <= d[j + 1]
  BY <1>4, <1>5, <1>7, <1>8
<1> QED
  BY <1>1, <1>2, <1>7, <1>9

-----------------------------------------------------------------------------
(* One modification. *)

Inserting == {"AddHeader", "InsertHeader", "InsertRawHeader"}

\* An empty value stays empty on the wire, and no other becomes empty.
LEMMA SentOK ==
  ASSUME NEW v \in Seq(Chars)
  PROVE  /\ Sent(v) \in Seq(Chars) /\ Unspaced(v) \in Seq(Chars)
         /\ Sent(v) = <<>> <=> v = <<>>
<1>1. <<"sp">> \in Seq(Chars) /\ Len(<<"sp">>) = 1
  BY DEF Chars, Blanks
<1>2. PICK x : x = <<"sp">> \o v
  OBVIOUS
<1>3. x \in Seq(Chars) /\ Len(x) = 1 + Len(v) /\ Len(v) \in Nat
  BY <1>1, <1>2, ConcatProperties
<1>4. x # <<>>
  <2>1. Len(<<>>) = 0
    OBVIOUS
  <2>2. Len(x) # 0
    BY <1>3
  <2> QED
    BY <2>1, <2>2
<1>5. Sent(v) \in Seq(Chars) /\ (Sent(v) = <<>> <=> v = <<>>)
  BY <1>2, <1>3, <1>4 DEF Sent
<1>6. v # <<>> => Tail(v) \in Seq(Chars)
  BY HeadTailProperties
<1> QED
  BY <1>5, <1>6 DEF Unspaced, StartsWith

\* What a modification does to the headers.
LEMMA HeadersAfter ==
  ASSUME NEW m \in Mods, NEW t, "headers" \in DOMAIN t, t.headers \in Seq(Fields)
  PROVE  /\ m.kind \in OtherKinds => WithModification(m, t).headers = t.headers
         /\ m.kind = "ChangeHeader" => WithModification(m, t).headers
              = ChangeAt(t.headers, Located(t.headers, m.name, m.index), Sent(m.value))
         /\ m.kind \in Inserting /\ m.index \in Nat =>
              /\ WithModification(m, t).headers \in Seq(Fields)
              /\ Len(WithModification(m, t).headers) = Len(t.headers) + 1
<1>1. ASSUME m.kind \in OtherKinds PROVE WithModification(m, t).headers = t.headers
  BY <1>1 DEF WithModification, OtherKinds
<1>2. ASSUME m.kind = "ChangeHeader"
      PROVE  WithModification(m, t).headers
               = ChangeAt(t.headers, Located(t.headers, m.name, m.index), Sent(m.value))
  BY <1>2 DEF WithModification
<1>3. ASSUME m.kind \in Inserting, m.index \in Nat
      PROVE  /\ WithModification(m, t).headers \in Seq(Fields)
             /\ Len(WithModification(m, t).headers) = Len(t.headers) + 1
  <2>1. m.name \in Seq(Chars) /\ m.value \in Seq(Chars)
    <3>1. m \in [kind : HeaderKinds, name : Seq(Chars), value : Seq(Chars), index : Int]
      BY <1>3 DEF Mods, Inserting, OtherKinds
    <3> QED
      BY <3>1
  <2>2. PICK f \in Fields : f = [name |-> m.name, value |-> Sent(m.value)]
    BY <2>1, SentOK DEF Fields
  <2>3. PICK g \in Fields : g = [name |-> m.name, value |-> Unspaced(m.value)]
    BY <2>1, SentOK DEF Fields
  <2>4. PICK headers : headers = t.headers
    OBVIOUS
  <2>5. headers \in Seq(Fields) /\ Len(headers) \in Nat
    BY <2>4
  <2>6. CASE m.kind = "AddHeader"
    <3>1. WithModification(m, t).headers = Append(headers, f)
      BY <2>2, <2>4, <2>6 DEF WithModification
    <3>2. Append(headers, f) \in Seq(Fields) /\ Len(Append(headers, f)) = Len(headers) + 1
      BY <2>5, AppendProperties
    <3> QED
      BY <2>4, <3>1, <3>2
  <2>7. ASSUME NEW h \in Fields
        PROVE  /\ InsertIn(headers, m.index, h) \in Seq(Fields)
               /\ Len(InsertIn(headers, m.index, h)) = Len(headers) + 1
    <3>1. PICK p \in 1 .. (Len(headers) + 1) : p = IF m.index < Len(headers) THEN m.index + 1
                                                  ELSE Len(headers) + 1
      BY <1>3, <2>5
    <3>2. InsertAt(headers, p, h) \in Seq(Fields) /\ InsertAt(headers, p, h) = Widened(headers, p, h)
      BY <2>5, InsertAtEntries
    <3>3. DOMAIN Widened(headers, p, h) = 1 .. (Len(headers) + 1)
      BY DEF Widened
    <3>4. PICK x : x = InsertAt(headers, p, h)
      OBVIOUS
    <3>5. x \in Seq(Fields) /\ DOMAIN x = 1 .. (Len(headers) + 1)
      BY <3>2, <3>3, <3>4
    <3>6. Len(x) = Len(headers) + 1
      BY <2>5, <3>5
    <3> QED
      BY <3>1, <3>4, <3>5, <3>6 DEF InsertIn
  <2>8. CASE m.kind = "InsertHeader"
    <3>1. WithModification(m, t).headers = InsertIn(headers, m.index, f)
      BY <2>2, <2>4, <2>8 DEF WithModification
    <3> QED
      BY <2>4, <2>7, <3>1
  <2>9. CASE m.kind = "InsertRawHeader"
    <3>1. WithModification(m, t).headers = InsertIn(headers, m.index, g)
      BY <2>3, <2>4, <2>9 DEF WithModification
    <3> QED
      BY <2>4, <2>7, <3>1
  <2> QED
    BY <1>3, <2>6, <2>8, <2>9 DEF Inserting
<1> QED
  BY <1>1, <1>2, <1>3

-----------------------------------------------------------------------------
(* A list of modifications. *)

\* The wire form of a value in session s.
Wire(s, v) == IF s.leading /\ v # <<>> THEN <<"sp">> \o v ELSE v

\* A modification that changes or deletes the i-th of the session's headers.
ChangesAt(s, m, i, new, cut) ==
  /\ m.kind = "ChangeHeader" /\ m.name = s.headers[i].name
  /\ m.index = Occurrence(s.headers, i)
  /\ m.value = <<>> => i \in cut
  /\ m.value # <<>> => i \notin cut /\ new[i] = Valued(s.headers[i], Wire(s, m.value))

\* Behind the first a, which leave the headers alone, the modifications change and delete
\* the headers at places T, from the last to the first, and then insert c others; what
\* follows leaves the headers alone again.
Plan(s, ms, a, T, new, cut, c) ==
  /\ ms \in Seq(Mods) /\ a \in Nat /\ c \in Nat
  /\ T \subseteq 1 .. Len(s.headers) /\ cut \subseteq T /\ NewList(s.headers, new, cut)
  /\ \A q \in 1 .. Len(s.headers) : q \notin T => new[q] = s.headers[q]
  /\ a + Cardinality(T) + c <= Len(ms)
  /\ \A k \in 1 .. Cardinality(T) : ChangesAt(s, ms[a + k], Descending(T)[k], new, cut)
  /\ \A k \in 1 .. Len(ms) :
       /\ k > a + Cardinality(T) /\ k <= a + Cardinality(T) + c => ms[k].kind \in Inserting /\ ms[k].index \in Nat
       /\ k <= a \/ k > a + Cardinality(T) + c => ms[k].kind \in OtherKinds

\* The headers once n of the modifications have been applied: as they were, then those on
\* the way down, then those that are left and as many more as were inserted.
Replayed(headers, now, n, a, T, new, cut, c) ==
  /\ now \in Seq(Fields)
  /\ n <= a => now = headers
  /\ n > a /\ n <= a + Cardinality(T) => now = Down(headers, new, cut, Descending(T)[n - a])
  /\ n >= a + Cardinality(T) =>
       /\ Len(now) <= Cardinality(1 .. Len(headers) \ cut) + c
       /\ Len(now) <= Cardinality(1 .. Len(headers) \ cut) + (n - (a + Cardinality(T)))

\* The facts of a plan by their types.
LEMMA PlanParts ==
  ASSUME NEW s, s.headers \in Seq(Fields), NEW ms, NEW a, NEW T, NEW new, NEW cut, NEW c,
         Plan(s, ms, a, T, new, cut, c), NEW N, N = Len(s.headers), NEW d, d = Cardinality(T)
  PROVE  /\ N \in Nat /\ d \in Nat /\ Len(ms) \in Nat /\ a \in Nat /\ c \in Nat
         /\ \A k \in 1 .. Len(ms) : ms[k] \in Mods
         /\ T \subseteq 1 .. N /\ a + d + c <= Len(ms)
         /\ \A k \in 1 .. d : Descending(T)[k] \in T /\ Descending(T)[k] \in 1 .. N
         /\ \A k, l \in 1 .. d : k < l => Descending(T)[k] > Descending(T)[l]
<1>1. N \in Nat /\ T \subseteq 1 .. N
  BY DEF Plan
<1>2. /\ d \in Nat /\ \A k \in 1 .. d : Descending(T)[k] \in T
      /\ \A k, l \in 1 .. d : k < l => Descending(T)[k] > Descending(T)[l]
  BY <1>1, DescendingOK
<1>3. Len(ms) \in Nat /\ \A k \in 1 .. Len(ms) : ms[k] \in Mods
  <2>1. ms \in Seq(Mods)
    BY DEF Plan
  <2> QED
    BY <2>1, ElementOfSeq
<1>4. a \in Nat /\ c \in Nat /\ a + d + c <= Len(ms)
  BY DEF Plan
<1>5. \A k \in 1 .. d : Descending(T)[k] \in 1 .. N
  BY <1>1, <1>2
<1> QED
  BY <1>1, <1>2, <1>3, <1>4, <1>5

\* On the way down nothing is cut in front of the lowest place.
LEMMA AllTheWayDown ==
  ASSUME NEW s, s.headers \in Seq(Fields), NEW ms, NEW a, NEW T, NEW new, NEW cut, NEW c,
         Plan(s, ms, a, T, new, cut, c), NEW N, N = Len(s.headers), NEW d, d = Cardinality(T), d # 0
  PROVE  Left(N, cut, Descending(T)[d]) = 1 .. N \ cut
<1>1. N \in Nat /\ d \in Nat /\ T \subseteq 1 .. N
  BY PlanParts
<1>2. PICK b : b = Descending(T)[d]
  OBVIOUS
<1>3. ASSUME NEW q \in 1 .. N, q < b PROVE q \notin cut
  <2> SUFFICES ASSUME q \in T PROVE FALSE
    BY DEF Plan
  <2>1. d \in 0 .. Cardinality(T)
    BY <1>1
  <2>2. d < Cardinality(T)
    BY <1>1, <1>2, <1>3, <2>1, DescendingGaps
  <2> QED
    BY <1>1, <2>2
<1> QED
  BY <1>2, <1>3 DEF Left

\* One step on the way down.
LEMMA StepDown ==
  ASSUME NEW s, s = session, s.headers \in Seq(Fields), NEW ms, NEW a, NEW T, NEW new, NEW cut, NEW c,
         Plan(s, ms, a, T, new, cut, c), NEW t, "headers" \in DOMAIN t,
         NEW j \in 0 .. (Cardinality(T) - 1),
         j = 0 => t.headers = s.headers,
         j # 0 => t.headers = Down(s.headers, new, cut, Descending(T)[j])
  PROVE  WithModification(ms[a + j + 1], t).headers
           = Down(s.headers, new, cut, Descending(T)[j + 1])
<1>1. PICK N : N = Len(s.headers)
  OBVIOUS
<1>2. PICK d : d = Cardinality(T)
  OBVIOUS
<1>3. PICK order : order = Descending(T)
  OBVIOUS
<1>4. /\ N \in Nat /\ d \in Nat /\ Len(ms) \in Nat /\ a \in Nat /\ c \in Nat
      /\ \A k \in 1 .. Len(ms) : ms[k] \in Mods
      /\ T \subseteq 1 .. N /\ a + d + c <= Len(ms)
      /\ \A k \in 1 .. d : order[k] \in T /\ order[k] \in 1 .. N
      /\ \A k, l \in 1 .. d : k < l => order[k] > order[l]
  BY <1>1, <1>2, <1>3, PlanParts
<1>5. NewList(s.headers, new, cut) /\ cut \subseteq T
      /\ \A q \in 1 .. N : q \notin T => new[q] = s.headers[q]
  BY <1>1 DEF Plan
<1>6. PICK b : b = IF j = 0 THEN N + 1 ELSE order[j]
  OBVIOUS
<1>7. PICK i : i = order[j + 1]
  OBVIOUS
<1>8. j \in Nat /\ j + 1 \in 1 .. d /\ (j # 0 => j \in 1 .. d) /\ j < d
  BY <1>2, <1>4
<1>9. i \in T /\ i \in 1 .. N
  BY <1>4, <1>7, <1>8
<1>10. b \in 1 .. (N + 1) /\ i \in 1 .. (b - 1)
  <2>1. CASE j = 0
    BY <1>4, <1>6, <1>9, <2>1
  <2>2. CASE j # 0
    <3>1. b = order[j] /\ b \in 1 .. N
      BY <1>4, <1>6, <1>8, <2>2
    <3>2. order[j] > order[j + 1]
      BY <1>4, <1>8, <2>2
    <3> QED
      BY <1>4, <1>7, <1>9, <3>1, <3>2
  <2> QED
    BY <2>1, <2>2
<1>11. ASSUME NEW q \in (i + 1) .. (b - 1) PROVE new[q] = s.headers[q] /\ q \notin cut
  <2>1. q \in 1 .. N /\ q > i /\ q < b
    BY <1>4, <1>9, <1>10
  <2>2. q \notin T
    <3> SUFFICES ASSUME q \in T PROVE FALSE
      OBVIOUS
    <3>1. j = 0 \/ q < order[j]
      BY <1>6, <2>1
    <3>2. j \in 0 .. Cardinality(T)
      BY <1>2, <1>4, <1>8
    <3>3. q <= Descending(T)[j + 1]
      BY <1>3, <1>4, <3>1, <3>2, DescendingGaps
    <3> QED
      BY <1>3, <1>4, <1>7, <1>9, <2>1, <3>3
  <2> QED
    BY <1>5, <2>1, <2>2
<1>12. t.headers = Down(s.headers, new, cut, b)
  <2>1. CASE j = 0
    <3>1. PICK h : h = Half(s.headers, new, b)
      OBVIOUS
    <3>2. \A q \in 1 .. N : q < b
      BY <1>4, <1>6, <2>1
    <3>3. h = [q \in 1 .. N |-> s.headers[q]]
      BY <1>1, <3>1, <3>2 DEF Half
    <3>4. h = s.headers
      BY <1>1, <1>4, <3>3
    <3>5. Left(N, cut, b) = 1 .. N
      BY <3>2 DEF Left
    <3>6. Picked(s.headers, 1 .. Len(s.headers)) = s.headers
      BY PickedAll
    <3> QED
      BY <1>1, <2>1, <3>1, <3>4, <3>5, <3>6 DEF Down
  <2>2. CASE j # 0
    BY <1>3, <1>6, <2>2
  <2> QED
    BY <2>1, <2>2
<1>13. PICK m \in Mods : m = ms[a + j + 1]
  <2>1. a + j + 1 \in 1 .. Len(ms)
    BY <1>4, <1>8
  <2> QED
    BY <1>4, <2>1
<1>14. ChangesAt(s, m, i, new, cut)
  <2>1. ChangesAt(s, ms[a + (j + 1)], order[j + 1], new, cut)
    BY <1>2, <1>3, <1>8 DEF Plan
  <2>2. a + (j + 1) = a + j + 1
    BY <1>4, <1>8
  <2> QED
    BY <1>7, <1>13, <2>1, <2>2
<1>15. m.value \in Seq(Chars) /\ m.kind = "ChangeHeader"
  BY <1>14 DEF ChangesAt, Mods, OtherKinds
<1>16. PICK v : v = Sent(m.value)
  OBVIOUS
<1>17. v = Wire(s, m.value) /\ (v = <<>> <=> m.value = <<>>)
  BY <1>15, <1>16, SentOK DEF Wire, Sent
<1>18. /\ v = <<>> => i \in cut
       /\ v # <<>> => i \notin cut /\ new[i] = Valued(s.headers[i], v)
  BY <1>14, <1>16, <1>17 DEF ChangesAt
<1>19. PICK headers \in Seq(Fields) : headers = s.headers
  OBVIOUS
<1>20. PICK now : now = Down(headers, new, cut, b)
  OBVIOUS
<1>21. ChangeAt(now, Located(now, headers[i].name, Occurrence(headers, i)), v) = Down(headers, new, cut, i)
  <2>1. OneStep(headers, new, cut, b, i, v)
    BY <1>1, <1>5, <1>10, <1>11, <1>18, <1>19 DEF OneStep
  <2>2. b \in Nat /\ i \in Nat
    BY <1>4, <1>10
  <2>3. ChangedIn(Down(headers, new, cut, b), headers, i, v) = Down(headers, new, cut, i)
    BY <2>1, <2>2, ChangeDown
  <2> QED
    BY <1>20, <2>3 DEF ChangedIn
<1>22. WithModification(m, t).headers
         = ChangeAt(t.headers, Located(t.headers, m.name, m.index), Sent(m.value))
  BY <1>15 DEF WithModification
<1>23. m.name = headers[i].name /\ m.index = Occurrence(headers, i) /\ t.headers = now
  BY <1>12, <1>14, <1>19, <1>20 DEF ChangesAt
<1> QED
  BY <1>3, <1>7, <1>13, <1>16, <1>19, <1>21, <1>22, <1>23

\* The headers stay what the plan says as one modification after the other is applied.
LEMMA ReplayStep ==
  ASSUME NEW s, s = session, s.headers \in Seq(Fields), NEW ms, NEW a, NEW T, NEW new, NEW cut, NEW c,
         Plan(s, ms, a, T, new, cut, c), NEW t, "headers" \in DOMAIN t,
         NEW n \in 0 .. (Len(ms) - 1), Replayed(s.headers, t.headers, n, a, T, new, cut, c)
  PROVE  Replayed(s.headers, WithModification(ms[n + 1], t).headers, n + 1, a, T, new, cut, c)
<1>1. PICK headers \in Seq(Fields) : headers = s.headers
  OBVIOUS
<1>2. PICK N : N = Len(headers)
  OBVIOUS
<1>3. PICK d : d = Cardinality(T)
  OBVIOUS
<1>4. PICK x : x = WithModification(ms[n + 1], t).headers
  OBVIOUS
<1>5. PICK L : L = Cardinality(1 .. N \ cut)
  OBVIOUS
<1>6. /\ N \in Nat /\ d \in Nat /\ Len(ms) \in Nat /\ a \in Nat /\ c \in Nat
      /\ \A k \in 1 .. Len(ms) : ms[k] \in Mods
      /\ T \subseteq 1 .. N /\ a + d + c <= Len(ms)
      /\ \A k \in 1 .. d : Descending(T)[k] \in T /\ Descending(T)[k] \in 1 .. N
  BY <1>1, <1>2, <1>3, PlanParts
<1>7. L \in Nat
  BY <1>5, <1>6, AscendingPart
<1>8. n \in Nat /\ n + 1 \in 1 .. Len(ms) /\ ms[n + 1] \in Mods
  BY <1>6
<1>9. /\ t.headers \in Seq(Fields) /\ (n <= a => t.headers = headers)
      /\ n > a /\ n <= a + d => t.headers = Down(headers, new, cut, Descending(T)[n - a])
      /\ n >= a + d => Len(t.headers) <= L + c /\ Len(t.headers) <= L + (n - (a + d))
  BY <1>1, <1>2, <1>3, <1>5 DEF Replayed
<1>10. SUFFICES /\ x \in Seq(Fields) /\ (n + 1 <= a => x = headers)
                /\ n + 1 > a /\ n + 1 <= a + d => x = Down(headers, new, cut, Descending(T)[(n + 1) - a])
                /\ n + 1 >= a + d => Len(x) <= L + c /\ Len(x) <= L + ((n + 1) - (a + d))
  BY <1>1, <1>2, <1>3, <1>4, <1>5 DEF Replayed
<1>11. Len(t.headers) \in Nat
  BY <1>9
<1>12. CASE n + 1 <= a
  <2>1. ms[n + 1].kind \in OtherKinds
    BY <1>8, <1>12 DEF Plan
  <2>2. x = t.headers /\ x = headers
    BY <1>4, <1>6, <1>8, <1>9, <1>12, <2>1, HeadersAfter
  <2>3. n + 1 >= a + d => n + 1 = a /\ d = 0
    BY <1>6, <1>8, <1>12
  <2>4. d = 0 => L = N
    <3>1. d = 0 => T = {}
      BY <1>3, <1>6, AscendingPart, FS_EmptySet
    <3>2. T = {} => 1 .. N \ cut = 1 .. N
      BY DEF Plan
    <3>3. Cardinality(1 .. N) = N
      <4>1. 1 \in Int /\ N \in Int
        BY <1>6
      <4>2. Cardinality(1 .. N) = IF 1 > N THEN 0 ELSE N - 1 + 1
        BY <4>1, FS_Interval
      <4> QED
        BY <1>6, <4>2
    <3> QED
      BY <1>5, <3>1, <3>2, <3>3
  <2>5. n + 1 >= a + d => Len(x) <= L + c /\ Len(x) <= L + ((n + 1) - (a + d))
    BY <1>2, <1>6, <1>7, <1>8, <2>2, <2>3, <2>4
  <2>6. ~(n + 1 > a)
    BY <1>6, <1>8, <1>12
  <2> QED
    BY <1>9, <2>2, <2>5, <2>6
<1>13. CASE n + 1 > a /\ n + 1 <= a + d
  <2>1. PICK j \in 0 .. (d - 1) : j = n - a
    BY <1>6, <1>8, <1>13
  <2>2. a + j + 1 = n + 1 /\ j + 1 = (n + 1) - a /\ (j = 0 <=> n <= a) /\ (j # 0 <=> n > a) /\ n <= a + d
    BY <1>6, <1>8, <1>13, <2>1
  <2>3. /\ j = 0 => t.headers = s.headers
        /\ j # 0 => t.headers = Down(s.headers, new, cut, Descending(T)[j])
    BY <1>1, <1>9, <2>1, <2>2
  <2>4. x = Down(s.headers, new, cut, Descending(T)[j + 1])
    <3>1. j \in 0 .. (Cardinality(T) - 1)
      BY <1>3, <2>1
    <3>2. WithModification(ms[a + j + 1], t).headers = Down(s.headers, new, cut, Descending(T)[j + 1])
      BY <2>3, <3>1, StepDown
    <3> QED
      BY <1>4, <2>2, <3>2
  <2>5. PICK b : b = Descending(T)[j + 1]
    OBVIOUS
  <2>6. b \in 1 .. (N + 1) /\ x = Down(headers, new, cut, b)
    BY <1>1, <1>6, <2>1, <2>4, <2>5
  <2>7. x \in Seq(Fields) /\ Len(x) = Cardinality(Left(N, cut, b))
    <3>1. NewList(headers, new, cut)
      BY <1>1 DEF Plan
    <3> QED
      BY <1>2, <2>6, <3>1, DownOK
  <2>8. n + 1 >= a + d => Len(x) = L
    <3> SUFFICES ASSUME n + 1 >= a + d PROVE Len(x) = L
      OBVIOUS
    <3>1. j + 1 = d /\ d # 0
      BY <1>6, <1>8, <1>13, <2>1
    <3>2. Left(N, cut, Descending(T)[d]) = 1 .. N \ cut
      BY <1>1, <1>2, <1>3, <3>1, AllTheWayDown
    <3> QED
      BY <1>5, <2>5, <2>7, <3>1, <3>2
  <2>9. n + 1 >= a + d => Len(x) <= L + c /\ Len(x) <= L + ((n + 1) - (a + d))
    BY <1>6, <1>7, <1>8, <2>8
  <2>10. ~(n + 1 <= a)
    BY <1>6, <1>8, <1>13
  <2> QED
    BY <2>2, <2>5, <2>6, <2>7, <2>9, <2>10
<1>14. CASE n + 1 > a + d /\ n + 1 <= a + d + c
  <2>1. ms[n + 1].kind \in Inserting /\ ms[n + 1].index \in Nat
    BY <1>3, <1>8, <1>14 DEF Plan
  <2>2. x \in Seq(Fields) /\ Len(x) = Len(t.headers) + 1
    BY <1>4, <1>8, <1>9, <2>1, HeadersAfter
  <2>3. n >= a + d /\ n - (a + d) + 1 <= c /\ ~(n + 1 <= a) /\ ~(n + 1 <= a + d)
    BY <1>6, <1>8, <1>14
  <2>4. Len(x) <= L + c /\ Len(x) <= L + ((n + 1) - (a + d))
    BY <1>6, <1>7, <1>8, <1>9, <1>11, <2>2, <2>3
  <2> QED
    BY <2>2, <2>3, <2>4
<1>15. CASE n + 1 > a + d + c
  <2>1. ms[n + 1].kind \in OtherKinds
    BY <1>3, <1>8, <1>15 DEF Plan
  <2>2. x = t.headers
    BY <1>4, <1>8, <1>9, <2>1, HeadersAfter
  <2>3. n >= a + d /\ ~(n + 1 <= a) /\ ~(n + 1 <= a + d)
    BY <1>6, <1>8, <1>15
  <2>4. Len(x) <= L + c /\ Len(x) <= L + ((n + 1) - (a + d))
    BY <1>6, <1>7, <1>8, <1>9, <1>11, <2>2, <2>3
  <2> QED
    BY <1>9, <2>2, <2>3, <2>4
<1> QED
  <2>1. \/ n + 1 <= a
        \/ n + 1 > a /\ n + 1 <= a + d
        \/ n + 1 > a + d /\ n + 1 <= a + d + c
        \/ n + 1 > a + d + c
    BY <1>6, <1>8
  <2> QED
    BY <1>12, <1>13, <1>14, <1>15, <2>1

\* Modifications that leave the headers alone.
Others(ms) == ms \in Seq(Mods) /\ \A k \in 1 .. Len(ms) : ms[k].kind \in OtherKinds

\* Changes at places T from the last to the first, and then insertions.
Parts(s, D, I, T, new, cut) ==
  /\ D \in Seq(Mods) /\ I \in Seq(Mods)
  /\ T \subseteq 1 .. Len(s.headers) /\ cut \subseteq T /\ NewList(s.headers, new, cut)
  /\ \A q \in 1 .. Len(s.headers) : q \notin T => new[q] = s.headers[q]
  /\ Len(D) = Cardinality(T)
  /\ \A k \in 1 .. Cardinality(T) : ChangesAt(s, D[k], Descending(T)[k], new, cut)
  /\ \A k \in 1 .. Len(I) : I[k].kind \in Inserting /\ I[k].index \in Nat

\* The two make a plan.
LEMMA PlanBase ==
  ASSUME NEW s, NEW D, NEW I, NEW T, NEW new, NEW cut, Parts(s, D, I, T, new, cut)
  PROVE  Plan(s, D \o I, 0, T, new, cut, Len(I))
<1>1. PICK d : d = Cardinality(T)
  OBVIOUS
<1>2. PICK c : c = Len(I)
  OBVIOUS
<1>3. PICK ms : ms = D \o I
  OBVIOUS
<1>4. D \in Seq(Mods) /\ I \in Seq(Mods) /\ Len(D) = d /\ d \in Nat /\ c \in Nat
  BY <1>1, <1>2 DEF Parts
<1>5. /\ ms \in Seq(Mods) /\ Len(ms) = d + c
      /\ \A i \in 1 .. (d + c) : ms[i] = IF i <= d THEN D[i] ELSE I[i - d]
  <2>1. /\ D \o I \in Seq(Mods) /\ Len(D \o I) = Len(D) + Len(I)
        /\ \A i \in 1 .. (Len(D) + Len(I)) : (D \o I)[i] = IF i <= Len(D) THEN D[i] ELSE I[i - Len(D)]
    BY <1>4, ConcatProperties
  <2> QED
    BY <1>2, <1>3, <1>4, <2>1
<1>6. \A k \in 1 .. d : ChangesAt(s, ms[0 + k], Descending(T)[k], new, cut)
  <2>1. TAKE k \in 1 .. d
  <2>2. 0 + k = k /\ k \in 1 .. (d + c) /\ k <= d
    BY <1>4
  <2>3. ms[k] = D[k]
    BY <1>5, <2>2
  <2>4. ChangesAt(s, D[k], Descending(T)[k], new, cut)
    BY <1>1 DEF Parts
  <2> QED
    BY <2>2, <2>3, <2>4
<1>7. \A k \in 1 .. Len(ms) :
        /\ k > 0 + d /\ k <= 0 + d + c => ms[k].kind \in Inserting /\ ms[k].index \in Nat
        /\ k <= 0 \/ k > 0 + d + c => ms[k].kind \in OtherKinds
  <2>1. TAKE k \in 1 .. Len(ms)
  <2>2. k \in 1 .. (d + c) /\ ~(k <= 0) /\ ~(k > 0 + d + c) /\ (k > 0 + d => ~(k <= d) /\ k - d \in 1 .. c)
    BY <1>4, <1>5
  <2>3. k > 0 + d => ms[k] = I[k - d]
    BY <1>5, <2>2
  <2>4. \A j \in 1 .. c : I[j].kind \in Inserting /\ I[j].index \in Nat
    BY <1>2 DEF Parts
  <2> QED
    BY <2>2, <2>3, <2>4
<1>8. 0 \in Nat /\ 0 + d + c <= Len(ms)
  BY <1>4, <1>5
<1> QED
  BY <1>1, <1>2, <1>3, <1>4, <1>5, <1>6, <1>7, <1>8 DEF Plan, Parts

\* What follows may leave the headers alone.
LEMMA PlanAppend ==
  ASSUME NEW s, s.headers \in Seq(Fields), NEW ms, NEW a, NEW T, NEW new, NEW cut, NEW c,
         Plan(s, ms, a, T, new, cut, c), NEW z, Others(z)
  PROVE  Plan(s, ms \o z, a, T, new, cut, c)
<1>1. PICK d : d = Cardinality(T)
  OBVIOUS
<1>2. PICK l : l = Len(ms)
  OBVIOUS
<1>3. PICK x : x = ms \o z
  OBVIOUS
<1>4. d \in Nat /\ l \in Nat /\ a \in Nat /\ c \in Nat /\ a + d + c <= l
  BY <1>1, <1>2, PlanParts
<1>5. ms \in Seq(Mods) /\ z \in Seq(Mods) /\ Len(z) \in Nat
  BY DEF Plan, Others
<1>6. /\ x \in Seq(Mods) /\ Len(x) = l + Len(z)
      /\ \A i \in 1 .. (l + Len(z)) : x[i] = IF i <= l THEN ms[i] ELSE z[i - l]
  <2>1. /\ ms \o z \in Seq(Mods) /\ Len(ms \o z) = Len(ms) + Len(z)
        /\ \A i \in 1 .. (Len(ms) + Len(z)) : (ms \o z)[i] = IF i <= Len(ms) THEN ms[i] ELSE z[i - Len(ms)]
    BY <1>5, ConcatProperties
  <2> QED
    BY <1>2, <1>3, <2>1
<1>7. \A k \in 1 .. d : ChangesAt(s, x[a + k], Descending(T)[k], new, cut)
  <2>1. TAKE k \in 1 .. d
  <2>2. a + k \in 1 .. (l + Len(z)) /\ a + k <= l
    BY <1>4, <1>5
  <2>3. x[a + k] = ms[a + k]
    BY <1>6, <2>2
  <2>4. ChangesAt(s, ms[a + k], Descending(T)[k], new, cut)
    BY <1>1 DEF Plan
  <2> QED
    BY <2>3, <2>4
<1>8. \A k \in 1 .. Len(x) :
        /\ k > a + d /\ k <= a + d + c => x[k].kind \in Inserting /\ x[k].index \in Nat
        /\ k <= a \/ k > a + d + c => x[k].kind \in OtherKinds
  <2>1. TAKE k \in 1 .. Len(x)
  <2>2. k \in 1 .. (l + Len(z)) /\ k \in Nat
    BY <1>4, <1>6
  <2>3. CASE k <= l
    <3>1. x[k] = ms[k] /\ k \in 1 .. Len(ms)
      BY <1>2, <1>4, <1>6, <2>2, <2>3
    <3>2. /\ k > a + d /\ k <= a + d + c => ms[k].kind \in Inserting /\ ms[k].index \in Nat
          /\ k <= a \/ k > a + d + c => ms[k].kind \in OtherKinds
      BY <1>1, <3>1 DEF Plan
    <3> QED
      BY <3>1, <3>2
  <2>4. CASE ~(k <= l)
    <3>1. x[k] = z[k - l] /\ k - l \in 1 .. Len(z) /\ ~(k <= a + d + c)
      BY <1>4, <1>5, <1>6, <2>2, <2>4
    <3>2. z[k - l].kind \in OtherKinds
      BY <3>1 DEF Others
    <3> QED
      BY <3>1, <3>2
  <2> QED
    BY <2>3, <2>4
<1>9. a + d + c <= Len(x)
  BY <1>4, <1>5, <1>6
<1> QED
  BY <1>1, <1>3, <1>6, <1>7, <1>8, <1>9 DEF Plan

\* What goes before may leave the headers alone.
LEMMA PlanPrepend ==
  ASSUME NEW s, s.headers \in Seq(Fields), NEW ms, NEW T, NEW new, NEW cut, NEW c,
         Plan(s, ms, 0, T, new, cut, c), NEW z, Others(z)
  PROVE  Plan(s, z \o ms, Len(z), T, new, cut, c)
<1>1. PICK d : d = Cardinality(T)
  OBVIOUS
<1>2. PICK l : l = Len(ms)
  OBVIOUS
<1>3. PICK x : x = z \o ms
  OBVIOUS
<1>4. PICK a : a = Len(z)
  OBVIOUS
<1>5. ms \in Seq(Mods) /\ z \in Seq(Mods) /\ a \in Nat
  BY <1>4 DEF Plan, Others
<1>6. d \in Nat /\ l \in Nat /\ c \in Nat /\ d + c <= l
  <2>1. d \in Nat /\ l \in Nat /\ c \in Nat /\ 0 + d + c <= l
    BY <1>1, <1>2, PlanParts
  <2> QED
    BY <2>1
<1>7. /\ x \in Seq(Mods) /\ Len(x) = a + l
      /\ \A i \in 1 .. (a + l) : x[i] = IF i <= a THEN z[i] ELSE ms[i - a]
  <2>1. /\ z \o ms \in Seq(Mods) /\ Len(z \o ms) = Len(z) + Len(ms)
        /\ \A i \in 1 .. (Len(z) + Len(ms)) : (z \o ms)[i] = IF i <= Len(z) THEN z[i] ELSE ms[i - Len(z)]
    BY <1>5, ConcatProperties
  <2> QED
    BY <1>2, <1>3, <1>4, <2>1
<1>8. \A k \in 1 .. d : ChangesAt(s, x[a + k], Descending(T)[k], new, cut)
  <2>1. TAKE k \in 1 .. d
  <2>2. a + k \in 1 .. (a + l) /\ ~(a + k <= a) /\ (a + k) - a = k /\ 0 + k = k
    BY <1>5, <1>6
  <2>3. x[a + k] = ms[k]
    BY <1>7, <2>2
  <2>4. ChangesAt(s, ms[0 + k], Descending(T)[k], new, cut)
    BY <1>1 DEF Plan
  <2> QED
    BY <2>2, <2>3, <2>4
<1>9. \A k \in 1 .. Len(x) :
        /\ k > a + d /\ k <= a + d + c => x[k].kind \in Inserting /\ x[k].index \in Nat
        /\ k <= a \/ k > a + d + c => x[k].kind \in OtherKinds
  <2>1. TAKE k \in 1 .. Len(x)
  <2>2. k \in 1 .. (a + l) /\ k \in Nat
    BY <1>5, <1>6, <1>7
  <2>3. CASE k <= a
    <3>1. x[k] = z[k] /\ k \in 1 .. Len(z) /\ ~(k > a + d)
      BY <1>4, <1>5, <1>6, <1>7, <2>2, <2>3
    <3>2. z[k].kind \in OtherKinds
      BY <3>1 DEF Others
    <3> QED
      BY <3>1, <3>2
  <2>4. CASE ~(k <= a)
    <3>1. PICK j \in 1 .. l : j = k - a
      BY <1>5, <1>6, <2>2, <2>4
    <3>2. x[k] = ms[j]
      BY <1>7, <2>2, <2>4, <3>1
    <3>3. /\ j > 0 + d /\ j <= 0 + d + c => ms[j].kind \in Inserting /\ ms[j].index \in Nat
          /\ j <= 0 \/ j > 0 + d + c => ms[j].kind \in OtherKinds
      BY <1>1, <1>2 DEF Plan
    <3>4. (k > a + d <=> j > 0 + d) /\ (k <= a + d + c <=> j <= 0 + d + c) /\ (k > a + d + c <=> j > 0 + d + c)
      BY <1>5, <1>6, <2>2, <3>1
    <3> QED
      BY <2>4, <3>2, <3>3, <3>4
  <2> QED
    BY <2>3, <2>4
<1>10. a + d + c <= Len(x)
  BY <1>5, <1>6, <1>7
<1> QED
  BY <1>1, <1>3, <1>4, <1>5, <1>7, <1>8, <1>9, <1>10 DEF Plan

-----------------------------------------------------------------------------
(* How many headers the plans of the code leave. *)

\* A set whose members are all values of g on B is no larger than B.
LEMMA Covered ==
  ASSUME NEW A, NEW B, IsFiniteSet(B), NEW g, \A x \in A : \E p \in B : g[p] = x
  PROVE  IsFiniteSet(A) /\ Cardinality(A) <= Cardinality(B)
<1>1. PICK f : f = [x \in A |-> CHOOSE p \in B : g[p] = x]
  OBVIOUS
<1>2. \A x \in A : f[x] \in B /\ g[f[x]] = x
  BY <1>1
<1>3. f \in [A -> B]
  BY <1>1, <1>2
<1>4. \A x, y \in A : f[x] = f[y] => x = y
  BY <1>2
<1>5. f \in Injection(A, B)
  BY <1>3, <1>4 DEF Injection, IsInjective
<1> QED
  BY <1>5, FS_Injection

\* A part of a list's places and the others are all of them.
LEMMA PartsOfPlaces ==
  ASSUME NEW n \in Nat, NEW P, NEW Q, P \cup Q = 1 .. n, P \cap Q = {}
  PROVE  /\ IsFiniteSet(P) /\ IsFiniteSet(Q) /\ Cardinality(P) \in Nat /\ Cardinality(Q) \in Nat
         /\ Cardinality(P) + Cardinality(Q) = n
<1>1. P \subseteq 1 .. n /\ Q \subseteq 1 .. n
  OBVIOUS
<1>2. IsFiniteSet(P) /\ IsFiniteSet(Q) /\ Cardinality(P) \in Nat /\ Cardinality(Q) \in Nat
  BY <1>1, AscendingPart
<1>3. Cardinality(P \cup Q) = Cardinality(P) + Cardinality(Q) - Cardinality(P \cap Q)
  BY <1>2, FS_Union
<1>4. Cardinality(P \cap Q) = 0
  BY FS_EmptySet
<1>5. Cardinality(1 .. n) = n
  <2>1. 1 \in Int /\ n \in Int
    OBVIOUS
  <2>2. Cardinality(1 .. n) = IF 1 > n THEN 0 ELSE n - 1 + 1
    BY <2>1, FS_Interval
  <2> QED
    BY <2>2
<1>6. Cardinality(P \cup Q) = n
  BY <1>5
<1>7. PICK p \in Nat : p = Cardinality(P)
  BY <1>2
<1>8. PICK q \in Nat : q = Cardinality(Q)
  BY <1>2
<1>9. n = p + q - 0
  BY <1>3, <1>4, <1>6, <1>7, <1>8
<1>10. p + q = n
  BY <1>9
<1> QED
  BY <1>2, <1>7, <1>8, <1>10

\* The headers that are not cut, and those inserted, are no more than the limit.
Fits(s, cut, c) == Cardinality(1 .. Len(s.headers) \ cut) + c <= MaxHeaders

\* Edits keep within the limits, and lose no entry: an original one is in its slot or on
\* the list of deletions, an added recipient in its slot or marked as taken back.
SlotsInv(s, e) ==
  /\ Len(e.headers) <= MaxHeaders /\ Len(e.to) <= MaxRecipients
  /\ \A i \in 1 .. Len(s.headers) : i \in ToSet(e.deletes) \/ Original(i) \in ToSet(e.headers)
  /\ \A i \in 1 .. Len(s.to) : i \in ToSet(e.toDeletes) \/ Original(i) \in ToSet(e.to)
  /\ \A k \in 1 .. Len(e.toAdded) : e.toAdded[k] = Unset \/ Added(k) \in ToSet(e.to)

\* The added headers' slots and what is left of the session's headers fit.
LEMMA EditsFit ==
  ASSUME NEW s, NEW e, SessionOK(s), EditsOK(s, e), SlotsInv(s, e),
         NEW cut, ToSet(e.deletes) \subseteq cut
  PROVE  /\ Fits(s, cut, Cardinality({p \in DOMAIN e.headers : e.headers[p].kind = "Added"}))
         /\ Cardinality({p \in DOMAIN e.headers : e.headers[p].kind = "Added"}) \in Nat
<1>1. PICK N : N = Len(s.headers)
  OBVIOUS
<1>2. PICK h : h = e.headers
  OBVIOUS
<1>3. PICK n : n = Len(h)
  OBVIOUS
<1>4. PICK E : E = Slots(Len(s.headers), Len(e.added))
  OBVIOUS
<1>5. h \in Seq(E)
  BY <1>2, <1>4, EditsParts
<1>6. n \in Nat /\ DOMAIN h = 1 .. n /\ \A p \in 1 .. n : h[p] \in E
  BY <1>3, <1>5, ElementOfSeq
<1>7. \A p \in 1 .. n : h[p].kind \in {"Original", "Added"}
  BY <1>4, <1>6, SlotNames
<1>8. PICK P : P = {p \in 1 .. n : h[p].kind = "Original"}
  OBVIOUS
<1>9. PICK Q : Q = {p \in 1 .. n : h[p].kind = "Added"}
  OBVIOUS
<1>10. P \cup Q = 1 .. n /\ P \cap Q = {}
  BY <1>7, <1>8, <1>9
<1>11. /\ IsFiniteSet(P) /\ Cardinality(P) \in Nat /\ Cardinality(Q) \in Nat
       /\ Cardinality(P) + Cardinality(Q) = n
  BY <1>6, <1>10, PartsOfPlaces
<1>12. PICK A : A = 1 .. N \ cut
  OBVIOUS
<1>13. PICK g : g = [p \in 1 .. n |-> h[p].at]
  OBVIOUS
<1>14. ASSUME NEW i \in A PROVE \E p \in P : g[p] = i
  <2>1. i \in 1 .. N /\ i \notin ToSet(e.deletes)
    BY <1>12
  <2>2. Original(i) \in ToSet(h)
    BY <1>1, <1>2, <2>1 DEF SlotsInv
  <2>3. PICK p \in 1 .. n : h[p] = Original(i)
    BY <1>6, <2>2 DEF ToSet
  <2>4. p \in P /\ g[p] = i
    BY <1>8, <1>13, <2>3 DEF Original
  <2> QED
    BY <2>4
<1>15. Cardinality(A) <= Cardinality(P)
  BY <1>11, <1>14, Covered
<1>16. Cardinality(A) \in Nat
  <2>1. N \in Nat /\ A \subseteq 1 .. N
    BY <1>1, <1>12 DEF SessionOK
  <2> QED
    BY <2>1, AscendingPart
<1>17. n <= MaxHeaders /\ MaxHeaders \in Nat
  BY <1>2, <1>3, TranslationAssumption DEF SlotsInv
<1>18. Cardinality(A) + Cardinality(Q) <= MaxHeaders
  BY <1>6, <1>11, <1>15, <1>16, <1>17
<1>19. {p \in DOMAIN e.headers : e.headers[p].kind = "Added"} = Q
  BY <1>2, <1>6, <1>9
<1> QED
  BY <1>1, <1>11, <1>12, <1>18, <1>19 DEF Fits

\* An empty value is empty on the wire.
LEMMA WireOK ==
  ASSUME NEW s, NEW v \in Seq(Chars)
  PROVE  Wire(s, v) \in Seq(Chars)
<1>1. <<"sp">> \in Seq(Chars)
  BY DEF Chars, Blanks
<1>2. <<"sp">> \o v \in Seq(Chars)
  BY <1>1, ConcatProperties
<1> QED
  BY <1>2 DEF Wire

\* The entries of HeaderEdits.
LEMMA HeaderEditsAt ==
  ASSUME NEW s, NEW e, SessionOK(s), EditsOK(s, e), NEW T, T = ChangedOrDeleted(e)
  PROVE  /\ T \subseteq 1 .. Len(s.headers) /\ ToSet(e.deletes) \subseteq T
         /\ HeaderEdits(s, e) \in Seq(Mods) /\ Len(HeaderEdits(s, e)) = Cardinality(T)
         /\ \A k \in 1 .. Cardinality(T) : HeaderEdits(s, e)[k] =
              Modify("ChangeHeader", s.headers[Descending(T)[k]].name,
                     ChangedTo(e, Descending(T)[k]), Occurrence(s.headers, Descending(T)[k]))
         /\ \A i \in T : ChangedTo(e, i) \in Seq(Chars)
<1>1. PICK n \in Nat : n = Len(s.headers)
  BY DEF SessionOK
<1>2. DOMAIN s.headers = 1 .. n
  BY <1>1 DEF SessionOK
<1>3. /\ \A k \in DOMAIN e.changes : e.changes[k].at \in 1 .. n
      /\ \A k \in DOMAIN e.deletes : e.deletes[k] \in 1 .. n
  <2>1. PICK C : C = [at : 1 .. n, value : Seq(Chars)]
    OBVIOUS
  <2>2. e.changes \in Seq(C)
    BY <1>2, <2>1, EditsParts
  <2>3. \A k \in DOMAIN e.changes : e.changes[k] \in C
    BY <2>2
  <2>4. PICK M : M = 1 .. n
    OBVIOUS
  <2>5. e.deletes \in Seq(M)
    BY <1>2, <2>4, EditsParts
  <2>6. \A k \in DOMAIN e.deletes : e.deletes[k] \in M
    BY <2>5
  <2> QED
    BY <2>1, <2>3, <2>4, <2>6
<1>4. T = {e.changes[k].at : k \in DOMAIN e.changes} \cup {e.deletes[k] : k \in DOMAIN e.deletes}
  BY DEF ChangedOrDeleted, ToSet
<1>5. T \subseteq 1 .. n /\ ToSet(e.deletes) \subseteq T
  BY <1>3, <1>4 DEF ToSet
<1>6. PICK order : order = Descending(T)
  OBVIOUS
<1>7. PICK c \in Nat : c = Cardinality(T)
  BY <1>5, AscendingPart
<1>8. /\ order \in Seq(T) /\ Len(order) = c
      /\ \A i \in T : \E k \in 1 .. c : order[k] = i
  <2>1. T \subseteq 1 .. n
    BY <1>5
  <2>2. /\ Descending(T) \in Seq(T) /\ Len(Descending(T)) = Cardinality(T)
        /\ \A p \in T : \E k \in 1 .. Cardinality(T) : Descending(T)[k] = p
    BY <2>1, DescendingOK
  <2> QED
    BY <1>6, <1>7, <2>2
<1>9. DOMAIN order = 1 .. c
  BY <1>8
<1> DEFINE M(i) == Modify("ChangeHeader", s.headers[i].name, ChangedTo(e, i), Occurrence(s.headers, i))
<1>10. HeaderEdits(s, e) = [k \in 1 .. c |-> M(order[k])]
  BY <1>6, <1>9 DEF HeaderEdits
<1>11. PICK x : x = HeaderEdits(s, e)
  OBVIOUS
<1>12. x \in Seq(Mods)
  BY <1>11, HeaderEditsOK
<1> HIDE DEF M
<1>13. DOMAIN x = 1 .. c /\ \A k \in 1 .. c : x[k] = M(order[k])
  BY <1>10, <1>11
<1>14. Len(x) = c
  BY <1>7, <1>12, <1>13
<1>15. ASSUME NEW i \in T PROVE ChangedTo(e, i) \in Seq(Chars)
  <2>1. PICK k \in 1 .. c : order[k] = i
    BY <1>8
  <2>2. x[k] = M(i) /\ x[k] \in Mods
    BY <1>12, <1>13, <1>14, <2>1, ElementOfSeq
  <2>3. M(i).value = ChangedTo(e, i)
    BY DEF M, Modify
  <2>4. \A m \in Mods : m.value \in Seq(Chars)
    BY DEF Mods
  <2> QED
    BY <2>2, <2>3, <2>4
<1>16. \A k \in 1 .. c : x[k] = Modify("ChangeHeader", s.headers[order[k]].name,
                                      ChangedTo(e, order[k]), Occurrence(s.headers, order[k]))
  BY <1>13 DEF M
<1> QED
  BY <1>1, <1>5, <1>6, <1>7, <1>11, <1>12, <1>14, <1>15, <1>16

\* The entries of Insertions.
LEMMA InsertionsAt ==
  ASSUME NEW s, NEW e, SessionOK(s), EditsOK(s, e)
  PROVE  /\ Insertions(e) \in Seq(Mods)
         /\ Len(Insertions(e)) = Cardinality({p \in DOMAIN e.headers : e.headers[p].kind = "Added"})
         /\ \A k \in 1 .. Len(Insertions(e)) :
              Insertions(e)[k].kind \in Inserting /\ Insertions(e)[k].index \in Nat
<1>1. PICK h : h = e.headers
  OBVIOUS
<1>2. PICK n \in Nat : n = Len(h) /\ DOMAIN h = 1 .. n
  <2>1. PICK E : E = Slots(Len(s.headers), Len(e.added))
    OBVIOUS
  <2>2. h \in Seq(E)
    BY <1>1, <2>1, EditsParts
  <2> QED
    BY <2>2
<1>3. PICK S : S = {p \in DOMAIN h : h[p].kind = "Added"}
  OBVIOUS
<1>4. S \subseteq 1 .. n
  BY <1>2, <1>3
<1>5. PICK places : places = Ascending(S)
  OBVIOUS
<1>6. PICK c \in Nat : c = Cardinality(S)
  BY <1>4, AscendingPart
<1>7. places \in Seq(S) /\ Len(places) = c /\ \A k \in 1 .. c : places[k] \in S
  <2>1. IsFiniteSet(S)
    BY <1>4, AscendingPart
  <2>2. S \subseteq Int
    BY <1>4
  <2> QED
    BY <1>5, <1>6, <2>1, <2>2, AscendingOK
<1>8. DOMAIN places = 1 .. c
  BY <1>7
<1>9. PICK x : x = Insertions(e)
  OBVIOUS
<1>10. x = [k \in 1 .. c |-> Modify(IF places[k] = n THEN "AddHeader" ELSE "InsertHeader",
                                    e.added[h[places[k]].at].name, e.added[h[places[k]].at].value,
                                    places[k] - 1)]
  BY <1>1, <1>2, <1>3, <1>5, <1>8, <1>9 DEF Insertions
<1>11. x \in Seq(Mods)
  BY <1>9, InsertionsOK
<1>12. DOMAIN x = 1 .. c
  BY <1>10
<1>13. Len(x) = c
  BY <1>11, <1>12
<1>14. ASSUME NEW k \in 1 .. c PROVE x[k].kind \in Inserting /\ x[k].index \in Nat
  <2>1. places[k] \in 1 .. n
    BY <1>4, <1>7
  <2>2. places[k] - 1 \in Nat
    BY <2>1
  <2>3. x[k].index = places[k] - 1 /\ x[k].kind = IF places[k] = n THEN "AddHeader" ELSE "InsertHeader"
    BY <1>10 DEF Modify
  <2> QED
    BY <2>2, <2>3 DEF Inserting
<1> QED
  BY <1>1, <1>3, <1>6, <1>9, <1>11, <1>13, <1>14

\* A plan that keeps within the limit.
PlannedFrom(s, ms, a) ==
  \E T, new, cut, c : Plan(s, ms, a, T, new, cut, c) /\ Fits(s, cut, c)

\* The header modifications that Edits::modifications makes are such a plan.
LEMMA EditsPlan ==
  ASSUME NEW s, NEW e, SessionOK(s), EditsOK(s, e), SlotsInv(s, e)
  PROVE  PlannedFrom(s, HeaderEdits(s, e) \o Insertions(e), 0)
<1>1. PICK T : T = ChangedOrDeleted(e)
  OBVIOUS
<1>2. PICK N \in Nat : N = Len(s.headers)
  BY DEF SessionOK
<1>3. PICK D : D = HeaderEdits(s, e)
  OBVIOUS
<1>4. PICK I : I = Insertions(e)
  OBVIOUS
<1>5. PICK d : d = Cardinality(T)
  OBVIOUS
<1>6. /\ T \subseteq 1 .. N /\ ToSet(e.deletes) \subseteq T /\ D \in Seq(Mods) /\ Len(D) = d
      /\ \A k \in 1 .. d : D[k] =
           Modify("ChangeHeader", s.headers[Descending(T)[k]].name,
                  ChangedTo(e, Descending(T)[k]), Occurrence(s.headers, Descending(T)[k]))
      /\ \A i \in T : ChangedTo(e, i) \in Seq(Chars)
  <2>1. /\ T \subseteq 1 .. Len(s.headers) /\ ToSet(e.deletes) \subseteq T
        /\ HeaderEdits(s, e) \in Seq(Mods) /\ Len(HeaderEdits(s, e)) = Cardinality(T)
        /\ \A k \in 1 .. Cardinality(T) : HeaderEdits(s, e)[k] =
              Modify("ChangeHeader", s.headers[Descending(T)[k]].name,
                     ChangedTo(e, Descending(T)[k]), Occurrence(s.headers, Descending(T)[k]))
        /\ \A i \in T : ChangedTo(e, i) \in Seq(Chars)
    BY <1>1, HeaderEditsAt
  <2> QED
    BY <1>2, <1>3, <1>5, <2>1
<1>7. PICK c \in Nat : c = Cardinality({p \in DOMAIN e.headers : e.headers[p].kind = "Added"})
  <2>1. ToSet(e.deletes) \subseteq T
    BY <1>6
  <2> QED
    BY <2>1, EditsFit
<1>8. I \in Seq(Mods) /\ Len(I) = c /\ \A k \in 1 .. c : I[k].kind \in Inserting /\ I[k].index \in Nat
  BY <1>4, <1>7, InsertionsAt
<1>9. PICK cut : cut = {i \in T : ChangedTo(e, i) = <<>>}
  OBVIOUS
<1>10. PICK new : new = [q \in 1 .. N |-> IF q \in T /\ q \notin cut
                                          THEN Valued(s.headers[q], Wire(s, ChangedTo(e, q)))
                                          ELSE s.headers[q]]
  OBVIOUS
<1>11. ToSet(e.deletes) \subseteq cut
  BY <1>6, <1>9 DEF ChangedTo
<1>12. Fits(s, cut, c)
  BY <1>7, <1>11, EditsFit
<1>13. \A q \in 1 .. N : s.headers[q] \in Fields
  BY <1>2, ElementOfSeq DEF SessionOK
<1>14. \A f \in Fields, v \in Seq(Chars) : Valued(f, v) \in Fields
  BY DEF Valued, Fields
<1>15. \A q \in 1 .. N : new[q] \in Fields
  <2>1. TAKE q \in 1 .. N
  <2>2. CASE q \in T /\ q \notin cut
    <3>1. Wire(s, ChangedTo(e, q)) \in Seq(Chars)
      BY <1>6, <2>2, WireOK
    <3>2. new[q] = Valued(s.headers[q], Wire(s, ChangedTo(e, q)))
      BY <1>10, <2>2
    <3> QED
      BY <1>13, <1>14, <3>1, <3>2
  <2>3. CASE ~(q \in T /\ q \notin cut)
    <3>1. new[q] = s.headers[q]
      BY <1>10, <2>3
    <3> QED
      BY <1>13, <3>1
  <2> QED
    BY <2>2, <2>3
<1>16. NewList(s.headers, new, cut)
  <2>1. new = [q \in 1 .. N |-> new[q]]
    BY <1>10
  <2>2. new \in [1 .. N -> Fields]
    BY <1>15, <2>1
  <2>3. new \in Seq(Fields)
    BY <2>2, SeqDef
  <2>4. DOMAIN new = 1 .. N
    BY <2>1
  <2>5. Len(new) = N
    BY <2>3, <2>4
  <2>6. cut \subseteq 1 .. N
    BY <1>6, <1>9
  <2> QED
    BY <1>2, <2>3, <2>5, <2>6 DEF NewList
<1>17. ASSUME NEW k \in 1 .. d PROVE ChangesAt(s, D[k], Descending(T)[k], new, cut)
  <2>1. PICK i : i = Descending(T)[k]
    OBVIOUS
  <2>2. i \in T
    <3>1. T \subseteq 1 .. N
      BY <1>6
    <3>2. \A j \in 1 .. Cardinality(T) : Descending(T)[j] \in T
      BY <3>1, DescendingOK
    <3> QED
      BY <1>5, <2>1, <3>2
  <2>3. D[k] = Modify("ChangeHeader", s.headers[i].name, ChangedTo(e, i), Occurrence(s.headers, i))
    BY <1>6, <2>1
  <2>4. /\ D[k].kind = "ChangeHeader" /\ D[k].name = s.headers[i].name /\ D[k].value = ChangedTo(e, i)
        /\ D[k].index = Occurrence(s.headers, i)
    BY <2>3 DEF Modify
  <2>5. D[k].value = <<>> => i \in cut
    BY <1>9, <2>2, <2>4
  <2>6. D[k].value # <<>> => i \notin cut
    BY <1>9, <2>4
  <2>7. i \in 1 .. N
    BY <1>6, <2>2
  <2>8. D[k].value # <<>> => new[i] = Valued(s.headers[i], Wire(s, D[k].value))
    BY <1>10, <2>2, <2>4, <2>6, <2>7
  <2> QED
    BY <2>1, <2>4, <2>5, <2>6, <2>8 DEF ChangesAt
<1>18. cut \subseteq T
  BY <1>9
<1>19. \A q \in 1 .. N : q \notin T => new[q] = s.headers[q]
  BY <1>10
<1>20. Parts(s, D, I, T, new, cut)
  BY <1>2, <1>5, <1>6, <1>8, <1>16, <1>17, <1>18, <1>19 DEF Parts
<1>21. Plan(s, D \o I, 0, T, new, cut, Len(I))
  BY <1>20, PlanBase
<1>22. Fits(s, cut, Len(I))
  BY <1>8, <1>12
<1> QED
  BY <1>3, <1>4, <1>21, <1>22 DEF PlannedFrom

\* No recipient is added or deleted.
NoRecipients(ms) == \A k \in 1 .. Len(ms) : ms[k].kind \notin {"AddRecipient", "DeleteRecipient"}

\* The headers a replacement deletes and the fields it inserts: each original header that
\* stays is matched by a field that is not inserted.
LEMMA ReplacementFits ==
  ASSUME NEW s, NEW n \in Nat, n <= MaxHeaders, NEW matched, NEW G, NEW F,
         s.headers \in Seq(Fields),
         G = 1 .. Len(s.headers) \ {matched[k] : k \in 1 .. n},
         F = {k \in 1 .. n : matched[k] = 0}
  PROVE  Fits(s, G, Cardinality(F)) /\ Cardinality(F) \in Nat
<1>1. PICK N \in Nat : N = Len(s.headers)
  OBVIOUS
<1>2. PICK P : P = {k \in 1 .. n : matched[k] # 0}
  OBVIOUS
<1>3. P \cup F = 1 .. n /\ P \cap F = {}
  BY <1>2
<1>4. /\ IsFiniteSet(P) /\ Cardinality(P) \in Nat /\ Cardinality(F) \in Nat
      /\ Cardinality(P) + Cardinality(F) = n
  BY <1>3, PartsOfPlaces
<1>5. PICK A : A = 1 .. N \ G
  OBVIOUS
<1>6. ASSUME NEW i \in A PROVE \E k \in P : matched[k] = i
  <2>1. i \in 1 .. N /\ i \in {matched[k] : k \in 1 .. n}
    BY <1>1, <1>5
  <2>2. PICK k \in 1 .. n : matched[k] = i
    BY <2>1
  <2>3. i # 0
    BY <2>1
  <2> QED
    BY <1>2, <2>2, <2>3
<1>7. Cardinality(A) <= Cardinality(P)
  BY <1>4, <1>6, Covered
<1>8. Cardinality(A) \in Nat
  <2>1. A \subseteq 1 .. N
    BY <1>5
  <2> QED
    BY <2>1, AscendingPart
<1>9. MaxHeaders \in Nat
  BY TranslationAssumption
<1>10. Cardinality(A) + Cardinality(F) <= MaxHeaders
  BY <1>4, <1>7, <1>8, <1>9
<1> QED
  BY <1>1, <1>4, <1>5, <1>10 DEF Fits

\* What raw_replacement makes of a message is a plan within the limit, and leaves the
\* recipients alone.
LEMMA ReplacePlan ==
  ASSUME NEW s, SessionOK(s), NEW fields \in Seq(Fields), NEW body \in Seq(Chars),
         Len(fields) <= MaxHeaders
  PROVE  PlannedFrom(s, Replace(s, fields, body), 0) /\ NoRecipients(Replace(s, fields, body))
<1>1. PICK headers : headers = s.headers
  OBVIOUS
<1>2. PICK N \in Nat : N = Len(headers)
  BY <1>1 DEF SessionOK
<1>3. PICK n \in Nat : n = Len(fields)
  OBVIOUS
<1>4. headers \in Seq(Fields) /\ DOMAIN headers = 1 .. N /\ \A i \in 1 .. N : headers[i] \in Fields
  <2>1. headers \in Seq(Fields)
    BY <1>1 DEF SessionOK
  <2> QED
    BY <1>2, <2>1, ElementOfSeq
<1>5. DOMAIN fields = 1 .. n /\ \A i \in 1 .. n : fields[i] \in Fields
  BY <1>3, ElementOfSeq
<1>6. PICK cursor : cursor = Cursors(s, fields)
  OBVIOUS
<1>7. PICK matched : matched = [k \in 1 .. n |-> Match(s, fields[k], cursor[k - 1])]
  OBVIOUS
<1>8. PICK G : G = 1 .. N \ {matched[k] : k \in 1 .. n}
  OBVIOUS
<1>9. PICK F : F = {k \in 1 .. n : matched[k] = 0}
  OBVIOUS
<1>10. PICK b : b = IF body = s.body THEN <<>> ELSE <<Modify("ReplaceBody", <<>>, body, 0)>>
  OBVIOUS
<1>11. PICK D : D = [k \in 1 .. Cardinality(G) |->
                       Modify("ChangeHeader", headers[Descending(G)[k]].name, <<>>,
                              Occurrence(headers, Descending(G)[k]))]
  OBVIOUS
<1>12. PICK I : I = [k \in 1 .. Cardinality(F) |->
                       Modify("InsertRawHeader", fields[Ascending(F)[k]].name,
                              fields[Ascending(F)[k]].value, Ascending(F)[k] - 1)]
  OBVIOUS
<1>13. G \subseteq 1 .. N /\ F \subseteq 1 .. n
  BY <1>8, <1>9
<1>14. PICK g \in Nat : g = Cardinality(G)
  BY <1>13, AscendingPart
<1>15. PICK c \in Nat : c = Cardinality(F)
  BY <1>13, AscendingPart
<1>16. DOMAIN Descending(G) = 1 .. g /\ \A k \in 1 .. g : Descending(G)[k] \in G
  <2>1. G \subseteq 1 .. N
    BY <1>13
  <2>2. /\ Descending(G) \in Seq(G) /\ Len(Descending(G)) = Cardinality(G)
        /\ \A k \in 1 .. Cardinality(G) : Descending(G)[k] \in G
    BY <2>1, DescendingOK
  <2> QED
    BY <1>14, <2>2
<1>17. DOMAIN Ascending(F) = 1 .. c /\ \A k \in 1 .. c : Ascending(F)[k] \in F
  <2>1. F \subseteq 1 .. n
    BY <1>13
  <2>2. F \subseteq Int
    BY <2>1
  <2>3. IsFiniteSet(F)
    BY <2>1, AscendingPart
  <2>4. /\ Ascending(F) \in Seq(F) /\ Len(Ascending(F)) = Cardinality(F)
        /\ \A k \in 1 .. Cardinality(F) : Ascending(F)[k] \in F
    BY <2>2, <2>3, AscendingOK
  <2> QED
    BY <1>15, <2>4
<1>18. Replace(s, fields, body) = D \o I \o b
  <2> DEFINE m(k) == Match(s, fields[k], cursor[k - 1])
  <2>1. {m(k) : k \in DOMAIN fields} = {matched[k] : k \in 1 .. n}
    BY <1>5, <1>7
  <2>2. {k \in DOMAIN fields : m(k) = 0} = F
    BY <1>5, <1>7, <1>9
  <2>3. DOMAIN headers \ {m(k) : k \in DOMAIN fields} = G
    BY <1>4, <1>8, <2>1
  <2>4. Replace(s, fields, body) =
          [k \in DOMAIN Descending(DOMAIN headers \ {m(k) : k \in DOMAIN fields}) |->
             Modify("ChangeHeader",
                    headers[Descending(DOMAIN headers \ {m(j) : j \in DOMAIN fields})[k]].name, <<>>,
                    Occurrence(headers, Descending(DOMAIN headers \ {m(j) : j \in DOMAIN fields})[k]))]
            \o [k \in DOMAIN Ascending({j \in DOMAIN fields : m(j) = 0}) |->
                  Modify("InsertRawHeader", fields[Ascending({j \in DOMAIN fields : m(j) = 0})[k]].name,
                         fields[Ascending({j \in DOMAIN fields : m(j) = 0})[k]].value,
                         Ascending({j \in DOMAIN fields : m(j) = 0})[k] - 1)]
            \o b
    BY <1>1, <1>6, <1>10 DEF Replace
  <2>5. Replace(s, fields, body) =
          [k \in DOMAIN Descending(G) |->
             Modify("ChangeHeader", headers[Descending(G)[k]].name, <<>>,
                    Occurrence(headers, Descending(G)[k]))]
            \o [k \in DOMAIN Ascending(F) |->
                  Modify("InsertRawHeader", fields[Ascending(F)[k]].name,
                         fields[Ascending(F)[k]].value, Ascending(F)[k] - 1)]
            \o b
    BY <2>2, <2>3, <2>4
  <2> QED
    BY <1>11, <1>12, <1>14, <1>15, <1>16, <1>17, <2>5
<1>19. \A i \in 1 .. N : Modify("ChangeHeader", headers[i].name, <<>>, Occurrence(headers, i)) \in Mods
  <2>1. TAKE i \in 1 .. N
  <2>2. headers[i].name \in Seq(Chars)
    BY <1>4 DEF Fields
  <2>3. Occurrence(headers, i) \in Int
    BY OccurrenceOK
  <2> QED
    BY <2>2, <2>3 DEF Modify, Mods, HeaderKinds
<1>20. \A i \in 1 .. n : Modify("InsertRawHeader", fields[i].name, fields[i].value, i - 1) \in Mods
  <2>1. TAKE i \in 1 .. n
  <2>2. fields[i].name \in Seq(Chars) /\ fields[i].value \in Seq(Chars)
    BY <1>5 DEF Fields
  <2>3. i - 1 \in Int
    OBVIOUS
  <2> QED
    BY <2>2, <2>3 DEF Modify, Mods, HeaderKinds
<1>21. D \in Seq(Mods) /\ Len(D) = g
  <2>1. D \in [1 .. g -> Mods]
    BY <1>11, <1>13, <1>14, <1>16, <1>19
  <2>2. D \in Seq(Mods) /\ DOMAIN D = 1 .. g
    BY <2>1, SeqDef
  <2> QED
    BY <2>2
<1>22. I \in Seq(Mods) /\ Len(I) = c
  <2>1. I \in [1 .. c -> Mods]
    BY <1>12, <1>13, <1>15, <1>17, <1>20
  <2>2. I \in Seq(Mods) /\ DOMAIN I = 1 .. c
    BY <2>1, SeqDef
  <2> QED
    BY <2>2
<1>23. ASSUME NEW k \in 1 .. g PROVE ChangesAt(s, D[k], Descending(G)[k], headers, G) /\ D[k].kind = "ChangeHeader"
  <2>1. PICK i : i = Descending(G)[k]
    OBVIOUS
  <2>2. i \in G
    BY <1>16, <2>1
  <2>3. D[k] = Modify("ChangeHeader", headers[i].name, <<>>, Occurrence(headers, i))
    BY <1>11, <1>14, <2>1
  <2>4. /\ D[k].kind = "ChangeHeader" /\ D[k].name = headers[i].name /\ D[k].value = <<>>
        /\ D[k].index = Occurrence(headers, i)
    BY <2>3 DEF Modify
  <2> QED
    BY <1>1, <2>1, <2>2, <2>4 DEF ChangesAt
<1>24. ASSUME NEW k \in 1 .. c PROVE I[k].kind = "InsertRawHeader" /\ I[k].index \in Nat
  <2>1. Ascending(F)[k] \in 1 .. n
    BY <1>13, <1>17
  <2>2. Ascending(F)[k] - 1 \in Nat
    BY <2>1
  <2>3. I[k] = Modify("InsertRawHeader", fields[Ascending(F)[k]].name, fields[Ascending(F)[k]].value,
                      Ascending(F)[k] - 1)
    BY <1>12, <1>15
  <2> QED
    BY <2>2, <2>3 DEF Modify
<1>25. Others(b) /\ \A k \in 1 .. Len(b) : b[k].kind = "ReplaceBody"
  <2>1. <<>> \in Seq(Chars)
    OBVIOUS
  <2>2. PICK m \in Mods : m = Modify("ReplaceBody", <<>>, body, 0)
    <3>1. Modify("ReplaceBody", <<>>, body, 0) \in Mods
      BY <2>1 DEF Modify, Mods, OtherKinds
    <3> QED
      BY <3>1
  <2>3. m.kind = "ReplaceBody"
    BY <2>2 DEF Modify
  <2>4. CASE b = <<>>
    BY <2>4 DEF Others
  <2>5. CASE b = <<m>>
    <3>1. b \in Seq(Mods) /\ Len(b) = 1 /\ b[1] = m
      BY <2>5
    <3> QED
      BY <2>3, <3>1 DEF Others, OtherKinds
  <2> QED
    BY <1>10, <2>2, <2>4, <2>5
<1>26. Parts(s, D, I, G, headers, G)
  <2>1. NewList(headers, headers, G)
    BY <1>2, <1>4, <1>13 DEF NewList
  <2>2. \A k \in 1 .. Len(I) : I[k].kind \in Inserting /\ I[k].index \in Nat
    BY <1>22, <1>24 DEF Inserting
  <2> QED
    BY <1>1, <1>2, <1>13, <1>14, <1>21, <1>22, <1>23, <2>1, <2>2 DEF Parts
<1>27. Plan(s, D \o I, 0, G, headers, G, Len(I))
  BY <1>26, PlanBase
<1>28. Plan(s, D \o I \o b, 0, G, headers, G, Len(I))
  BY <1>1, <1>4, <1>25, <1>27, PlanAppend
<1>29. Fits(s, G, Cardinality(F))
  BY <1>1, <1>2, <1>3, <1>4, <1>8, <1>9, ReplacementFits
<1>30. PlannedFrom(s, D \o I \o b, 0)
  BY <1>15, <1>22, <1>28, <1>29 DEF PlannedFrom
<1>31. NoRecipients(D \o I \o b)
  <2>1. PICK x : x = D \o I
    OBVIOUS
  <2>2. x \in Seq(Mods) /\ Len(x) = g + c /\ \A k \in 1 .. (g + c) : x[k] = IF k <= g THEN D[k] ELSE I[k - g]
    BY <1>21, <1>22, <2>1, ConcatProperties
  <2>3. \A k \in 1 .. (g + c) : x[k].kind \notin {"AddRecipient", "DeleteRecipient"}
    <3>1. TAKE k \in 1 .. (g + c)
    <3>2. CASE k <= g
      <4>1. k \in 1 .. g /\ x[k] = D[k]
        BY <2>2, <3>2
      <4>2. x[k].kind = "ChangeHeader"
        BY <1>23, <4>1
      <4> QED
        BY <4>2
    <3>3. CASE ~(k <= g)
      <4>1. k - g \in 1 .. c /\ x[k] = I[k - g]
        BY <2>2, <3>3
      <4>2. x[k].kind = "InsertRawHeader"
        BY <1>24, <4>1
      <4> QED
        BY <4>2
    <3> QED
      BY <3>2, <3>3
  <2>4. PICK l \in Nat : l = Len(b)
    BY <1>25 DEF Others
  <2>5. b \in Seq(Mods)
    BY <1>25 DEF Others
  <2>6. PICK y : y = x \o b
    OBVIOUS
  <2>7. Len(y) = g + c + l /\ \A k \in 1 .. (g + c + l) : y[k] = IF k <= g + c THEN x[k] ELSE b[k - (g + c)]
    <3>1. /\ Len(x \o b) = Len(x) + Len(b)
          /\ \A k \in 1 .. (Len(x) + Len(b)) : (x \o b)[k] = IF k <= Len(x) THEN x[k] ELSE b[k - Len(x)]
      BY <2>2, <2>5, ConcatProperties
    <3> QED
      BY <2>2, <2>4, <2>6, <3>1
  <2>8. \A k \in 1 .. (g + c + l) : y[k].kind \notin {"AddRecipient", "DeleteRecipient"}
    <3>1. TAKE k \in 1 .. (g + c + l)
    <3>2. CASE k <= g + c
      <4>1. k \in 1 .. (g + c) /\ y[k] = x[k]
        BY <2>7, <3>2
      <4> QED
        BY <2>3, <4>1
    <3>3. CASE ~(k <= g + c)
      <4>1. k - (g + c) \in 1 .. l /\ y[k] = b[k - (g + c)]
        BY <2>7, <3>3
      <4>2. y[k].kind = "ReplaceBody"
        BY <1>25, <2>4, <4>1
      <4> QED
        BY <4>2
    <3> QED
      BY <3>2, <3>3
  <2> QED
    BY <2>1, <2>6, <2>7, <2>8 DEF NoRecipients
<1> QED
  BY <1>18, <1>30, <1>31

\* So is what raw_replacement returns.
LEMMA RawPlan ==
  ASSUME NEW s, SessionOK(s), NEW text \in Seq(Chars), RawReplacement(s, text).ok
  PROVE  PlannedFrom(s, RawReplacement(s, text).mods, 0) /\ NoRecipients(RawReplacement(s, text).mods)
<1>1. PICK fields \in Seq(Fields) : fields = Parse(text).fields
  BY ParsedIsText
<1>2. PICK body \in Seq(Chars) : body = Parse(text).body
  BY ParsedIsText
<1>3. PICK result : result = Replace(s, fields, body)
  OBVIOUS
<1>4. Len(fields) <= MaxHeaders /\ RawReplacement(s, text).mods = result
  <2>1. CASE /\ SizeAccepted(Len(text)) /\ Parse(text).ok
             /\ Len(fields) <= MaxHeaders /\ Len(result) <= MaxModifications
    BY <1>1, <1>2, <1>3, <2>1 DEF RawReplacement
  <2>2. CASE ~(/\ SizeAccepted(Len(text)) /\ Parse(text).ok
               /\ Len(fields) <= MaxHeaders /\ Len(result) <= MaxModifications)
    <3>1. RawReplacement(s, text) = NoRaw
      BY <1>1, <1>2, <1>3, <2>2 DEF RawReplacement
    <3> QED
      BY <3>1 DEF NoRaw
  <2> QED
    BY <2>1, <2>2
<1> QED
  BY <1>3, <1>4, ReplacePlan

-----------------------------------------------------------------------------
(* The decision. *)

\* Every deleted recipient has its modification, and every recipient added is one that was
\* not taken back.
EnvelopeInv(s, e, ms) ==
  /\ \A i \in ToSet(e.toDeletes) : \E k \in 1 .. Len(ms) :
       ms[k].kind = "DeleteRecipient" /\ ms[k].name = s.to[i]
  /\ \A k \in 1 .. Len(ms) : ms[k].kind = "AddRecipient" =>
       \E j \in 1 .. Len(e.toAdded) : e.toAdded[j] # Unset /\ e.toAdded[j] = ms[k].name

\* The entries of a concatenation.
LEMMA Joined ==
  ASSUME NEW x \in Seq(Mods), NEW y \in Seq(Mods)
  PROVE  /\ x \o y \in Seq(Mods) /\ Len(x) \in Nat /\ Len(y) \in Nat /\ Len(x \o y) = Len(x) + Len(y)
         /\ \A k \in 1 .. Len(x) : k \in 1 .. Len(x \o y) /\ (x \o y)[k] = x[k]
         /\ \A k \in 1 .. Len(y) : Len(x) + k \in 1 .. Len(x \o y) /\ (x \o y)[Len(x) + k] = y[k]
         /\ \A k \in 1 .. Len(x \o y) : \/ k \in 1 .. Len(x) /\ (x \o y)[k] = x[k]
                                        \/ k - Len(x) \in 1 .. Len(y) /\ (x \o y)[k] = y[k - Len(x)]
<1>1. PICK a \in Nat : a = Len(x)
  OBVIOUS
<1>2. PICK b \in Nat : b = Len(y)
  OBVIOUS
<1>3. PICK z : z = x \o y
  OBVIOUS
<1>4. /\ z \in Seq(Mods) /\ Len(z) = a + b
      /\ \A i \in 1 .. (a + b) : z[i] = IF i <= a THEN x[i] ELSE y[i - a]
  <2>1. /\ x \o y \in Seq(Mods) /\ Len(x \o y) = Len(x) + Len(y)
        /\ \A i \in 1 .. (Len(x) + Len(y)) : (x \o y)[i] = IF i <= Len(x) THEN x[i] ELSE y[i - Len(x)]
    BY ConcatProperties
  <2> QED
    BY <1>1, <1>2, <1>3, <2>1
<1>5. \A k \in 1 .. a : k \in 1 .. (a + b) /\ z[k] = x[k]
  BY <1>4
<1>6. \A k \in 1 .. b : a + k \in 1 .. (a + b) /\ z[a + k] = y[k]
  <2>1. TAKE k \in 1 .. b
  <2>2. a + k \in 1 .. (a + b) /\ ~(a + k <= a) /\ (a + k) - a = k
    OBVIOUS
  <2> QED
    BY <1>4, <2>2
<1>7. \A k \in 1 .. (a + b) : \/ k \in 1 .. a /\ z[k] = x[k]
                              \/ k - a \in 1 .. b /\ z[k] = y[k - a]
  <2>1. TAKE k \in 1 .. (a + b)
  <2>2. (k <= a => k \in 1 .. a) /\ (~(k <= a) => k - a \in 1 .. b)
    OBVIOUS
  <2> QED
    BY <1>4, <2>2
<1> QED
  BY <1>1, <1>2, <1>3, <1>4, <1>5, <1>6, <1>7

\* Modifications of neither kind.
LEMMA JoinNone ==
  ASSUME NEW x \in Seq(Mods), NEW y \in Seq(Mods), NoRecipients(x), NoRecipients(y)
  PROVE  NoRecipients(x \o y)
<1>1. ASSUME NEW k \in 1 .. Len(x \o y)
      PROVE  (x \o y)[k].kind \notin {"AddRecipient", "DeleteRecipient"}
  <2>1. \/ k \in 1 .. Len(x) /\ (x \o y)[k] = x[k]
        \/ k - Len(x) \in 1 .. Len(y) /\ (x \o y)[k] = y[k - Len(x)]
    BY Joined
  <2>2. /\ \A j \in 1 .. Len(x) : x[j].kind \notin {"AddRecipient", "DeleteRecipient"}
        /\ \A j \in 1 .. Len(y) : y[j].kind \notin {"AddRecipient", "DeleteRecipient"}
    BY DEF NoRecipients
  <2> QED
    BY <2>1, <2>2
<1> QED
  BY <1>1 DEF NoRecipients

\* Modifications of neither kind in front of the envelope's, or behind them, change nothing.
LEMMA JoinEnvelope ==
  ASSUME NEW s, NEW e, NEW x \in Seq(Mods), NEW y \in Seq(Mods),
         \/ NoRecipients(x) /\ EnvelopeInv(s, e, y)
         \/ EnvelopeInv(s, e, x) /\ NoRecipients(y)
  PROVE  EnvelopeInv(s, e, x \o y)
<1>1. PICK z : z = x \o y
  OBVIOUS
<1>2. /\ \A k \in 1 .. Len(x) : k \in 1 .. Len(z) /\ z[k] = x[k]
      /\ \A k \in 1 .. Len(y) : Len(x) + k \in 1 .. Len(z) /\ z[Len(x) + k] = y[k]
      /\ \A k \in 1 .. Len(z) : \/ k \in 1 .. Len(x) /\ z[k] = x[k]
                                \/ k - Len(x) \in 1 .. Len(y) /\ z[k] = y[k - Len(x)]
  BY <1>1, Joined
<1>3. ASSUME NEW i \in ToSet(e.toDeletes)
      PROVE  \E k \in 1 .. Len(z) : z[k].kind = "DeleteRecipient" /\ z[k].name = s.to[i]
  <2>1. \/ \E k \in 1 .. Len(x) : x[k].kind = "DeleteRecipient" /\ x[k].name = s.to[i]
        \/ \E k \in 1 .. Len(y) : y[k].kind = "DeleteRecipient" /\ y[k].name = s.to[i]
    BY DEF EnvelopeInv
  <2>2. CASE \E k \in 1 .. Len(x) : x[k].kind = "DeleteRecipient" /\ x[k].name = s.to[i]
    <3>1. PICK k \in 1 .. Len(x) : x[k].kind = "DeleteRecipient" /\ x[k].name = s.to[i]
      BY <2>2
    <3>2. k \in 1 .. Len(z) /\ z[k] = x[k]
      BY <1>2
    <3> QED
      BY <3>1, <3>2
  <2>3. CASE \E k \in 1 .. Len(y) : y[k].kind = "DeleteRecipient" /\ y[k].name = s.to[i]
    <3>1. PICK k \in 1 .. Len(y) : y[k].kind = "DeleteRecipient" /\ y[k].name = s.to[i]
      BY <2>3
    <3>2. PICK l : l = Len(x) + k
      OBVIOUS
    <3>3. l \in 1 .. Len(z) /\ z[l] = y[k]
      BY <1>2, <3>2
    <3> QED
      BY <3>1, <3>3
  <2> QED
    BY <2>1, <2>2, <2>3
<1>4. ASSUME NEW k \in 1 .. Len(z), z[k].kind = "AddRecipient"
      PROVE  \E j \in 1 .. Len(e.toAdded) : e.toAdded[j] # Unset /\ e.toAdded[j] = z[k].name
  <2>1. \/ k \in 1 .. Len(x) /\ z[k] = x[k]
        \/ k - Len(x) \in 1 .. Len(y) /\ z[k] = y[k - Len(x)]
    BY <1>2
  <2>2. CASE NoRecipients(x) /\ EnvelopeInv(s, e, y)
    <3>1. ~(k \in 1 .. Len(x) /\ z[k] = x[k])
      BY <1>4, <2>2 DEF NoRecipients
    <3>2. PICK l \in 1 .. Len(y) : z[k] = y[l]
      BY <2>1, <3>1
    <3> QED
      BY <1>4, <2>2, <3>2 DEF EnvelopeInv
  <2>3. CASE EnvelopeInv(s, e, x) /\ NoRecipients(y)
    <3>1. ~(k - Len(x) \in 1 .. Len(y) /\ z[k] = y[k - Len(x)])
      BY <1>4, <2>3 DEF NoRecipients
    <3>2. PICK l \in 1 .. Len(x) : z[k] = x[l]
      BY <2>1, <3>1
    <3> QED
      BY <1>4, <2>3, <3>2 DEF EnvelopeInv
  <2> QED
    BY <2>2, <2>3
<1> QED
  BY <1>1, <1>3, <1>4 DEF EnvelopeInv

\* The envelope's modifications.
LEMMA EnvelopeEditsAt ==
  ASSUME NEW s, NEW e, SessionOK(s), EditsOK(s, e)
  PROVE  EnvelopeInv(s, e, EnvelopeEdits(s, e)) /\ Others(EnvelopeEdits(s, e))
<1>1. PICK gone : gone = e.toDeletes
  OBVIOUS
<1>2. PICK new : new = e.toAdded
  OBVIOUS
<1>3. PICK n \in Nat : n = Len(new) /\ DOMAIN new = 1 .. n
  <2>1. new \in Seq(Addresses)
    BY <1>2, EditsParts
  <2> QED
    BY <2>1
<1>4. PICK d \in Nat : d = Len(gone) /\ DOMAIN gone = 1 .. d
  <2>1. PICK E : E = DOMAIN s.to
    OBVIOUS
  <2>2. gone \in Seq(E)
    BY <1>1, <2>1, EditsParts
  <2> QED
    BY <2>2
<1>5. PICK S : S = {k \in DOMAIN new : new[k] # Unset}
  OBVIOUS
<1>6. S \subseteq 1 .. n
  BY <1>3, <1>5
<1>7. PICK kept : kept = Ascending(S)
  OBVIOUS
<1>8. PICK c : c = Len(kept)
  OBVIOUS
<1>9. kept \in Seq(S)
  BY <1>6, <1>7, AscendingPart
<1>10. c \in Nat /\ DOMAIN kept = 1 .. c /\ \A k \in 1 .. c : kept[k] \in S
  BY <1>8, <1>9
<1> DEFINE D == [k \in 1 .. d |-> Modify("DeleteRecipient", s.to[gone[k]], <<>>, 0)]
           A == [k \in 1 .. c |-> Modify("AddRecipient", new[kept[k]], <<>>, 0)]
<1>11. EnvelopeEdits(s, e) = D \o A
  BY <1>1, <1>2, <1>4, <1>5, <1>7, <1>10 DEF EnvelopeEdits
<1>12. PICK x : x = EnvelopeEdits(s, e)
  OBVIOUS
<1>13. x \in Seq(Mods)
  BY <1>12, EnvelopeEditsOK
<1>14. Len(D) = d /\ Len(A) = c
  <2>1. D \in [1 .. d -> {D[k] : k \in 1 .. d}] /\ A \in [1 .. c -> {A[k] : k \in 1 .. c}]
    OBVIOUS
  <2> HIDE DEF D, A
  <2>2. D \in Seq({D[k] : k \in 1 .. d}) /\ A \in Seq({A[k] : k \in 1 .. c})
    BY <1>10, <2>1, SeqDef
  <2>3. DOMAIN D = 1 .. d /\ DOMAIN A = 1 .. c
    BY <2>1
  <2> QED
    BY <1>10, <2>2, <2>3
<1>15. Len(x) = d + c /\ \A k \in 1 .. (d + c) : x[k] = IF k <= d THEN D[k] ELSE A[k - d]
  <2>1. Len(D \o A) = Len(D) + Len(A) /\ \A k \in 1 .. (Len(D) + Len(A)) : (D \o A)[k] = IF k <= Len(D) THEN D[k] ELSE A[k - Len(D)]
    <3>1. PICK E : E = {D[k] : k \in 1 .. d} \cup {A[k] : k \in 1 .. c}
      OBVIOUS
    <3>2. D \in [1 .. d -> E] /\ A \in [1 .. c -> E]
      BY <3>1
    <3> HIDE DEF D, A
    <3>3. D \in Seq(E) /\ A \in Seq(E)
      BY <1>10, <3>2, SeqDef
    <3> QED
      BY <3>3, ConcatProperties
  <2> HIDE DEF D, A
  <2> QED
    BY <1>11, <1>12, <1>14, <2>1
<1>16. \A k \in 1 .. d : D[k].kind = "DeleteRecipient" /\ D[k].name = s.to[gone[k]]
  BY DEF Modify
<1>17. \A k \in 1 .. c : A[k].kind = "AddRecipient" /\ A[k].name = new[kept[k]]
  BY DEF Modify
<1> HIDE DEF D, A
<1>18. ASSUME NEW i \in ToSet(gone)
       PROVE  \E k \in 1 .. Len(x) : x[k].kind = "DeleteRecipient" /\ x[k].name = s.to[i]
  <2>1. PICK k \in 1 .. d : gone[k] = i
    BY <1>4 DEF ToSet
  <2>2. k \in 1 .. (d + c) /\ k <= d
    BY <1>10
  <2>3. k \in 1 .. Len(x) /\ x[k] = D[k]
    BY <1>15, <2>2
  <2> QED
    BY <1>16, <2>1, <2>3
<1>19. ASSUME NEW k \in 1 .. Len(x)
       PROVE  /\ x[k].kind \in {"AddRecipient", "DeleteRecipient"}
              /\ x[k].kind = "AddRecipient" => \E j \in 1 .. n : new[j] # Unset /\ new[j] = x[k].name
  <2>1. k \in 1 .. (d + c)
    BY <1>15
  <2>2. CASE k <= d
    <3>1. k \in 1 .. d /\ x[k] = D[k]
      BY <1>10, <1>15, <2>1, <2>2
    <3> QED
      BY <1>16, <3>1
  <2>3. CASE ~(k <= d)
    <3>1. k - d \in 1 .. c
      BY <1>10, <2>1, <2>3
    <3>2. x[k] = A[k - d]
      BY <1>15, <2>1, <2>3
    <3>3. PICK l \in 1 .. c : x[k] = A[l]
      BY <3>1, <3>2
    <3>4. x[k].kind = "AddRecipient" /\ x[k].name = new[kept[l]]
      BY <1>17, <3>3
    <3>5. kept[l] \in 1 .. n /\ new[kept[l]] # Unset
      BY <1>3, <1>5, <1>6, <1>10
    <3> QED
      BY <3>4, <3>5
  <2> QED
    BY <2>2, <2>3
<1>20. EnvelopeInv(s, e, x)
  BY <1>1, <1>2, <1>3, <1>18, <1>19 DEF EnvelopeInv
<1>21. Others(x)
  BY <1>13, <1>19 DEF Others, OtherKinds
<1> QED
  BY <1>12, <1>20, <1>21

\* Edits leave the headers alone next to a replacement.
NoHeaderEdits(e) == e.changes = <<>> /\ e.deletes = <<>> /\ e.added = <<>>

\* Then they make no modification of a header.
LEMMA NoHeaderMods ==
  ASSUME NEW s, NEW e, SessionOK(s), EditsOK(s, e), NoHeaderEdits(e)
  PROVE  HeaderEdits(s, e) = <<>> /\ Insertions(e) = <<>>
<1>1. PICK T : T = ChangedOrDeleted(e)
  OBVIOUS
<1>2. T = {}
  BY <1>1 DEF ChangedOrDeleted, NoHeaderEdits, ToSet
<1>3. Cardinality(T) = 0
  BY <1>2, FS_EmptySet
<1>4. HeaderEdits(s, e) \in Seq(Mods) /\ Len(HeaderEdits(s, e)) = Cardinality(T)
  BY <1>1, HeaderEditsAt
<1>5. HeaderEdits(s, e) = <<>>
  BY <1>3, <1>4, EmptySeq
<1>6. PICK S : S = {p \in DOMAIN e.headers : e.headers[p].kind = "Added"}
  OBVIOUS
<1>7. S = {}
  <2>1. PICK E : E = Slots(Len(s.headers), Len(e.added))
    OBVIOUS
  <2>2. e.headers \in Seq(E)
    BY <2>1, EditsParts
  <2>3. \A p \in DOMAIN e.headers : e.headers[p] \in E
    BY <2>2
  <2>4. Len(e.added) = 0
    BY DEF NoHeaderEdits
  <2>5. \A slot \in E : slot.kind # "Added"
    <3>1. TAKE slot \in E
    <3>2. slot \in Slots(Len(s.headers), 0)
      BY <2>1, <2>4
    <3> QED
      BY <3>2 DEF Slots, Original, Added
  <2> QED
    BY <1>6, <2>3, <2>5
<1>8. Cardinality(S) = 0
  BY <1>7, FS_EmptySet
<1>9. Insertions(e) \in Seq(Mods) /\ Len(Insertions(e)) = Cardinality(S)
  BY <1>6, InsertionsAt
<1>10. Insertions(e) = <<>>
  BY <1>8, <1>9, EmptySeq
<1> QED
  BY <1>5, <1>10

\* The sender's modification, if any.
FromEdit(e) == IF e.from = Unset THEN <<>> ELSE <<Modify("ChangeFrom", e.from, <<>>, 0)>>

\* It touches neither headers nor recipients; nor does a quarantine.
LEMMA FromEditOK ==
  ASSUME NEW s, NEW e, EditsOK(s, e)
  PROVE  Others(FromEdit(e)) /\ NoRecipients(FromEdit(e))
<1>1. e.from \in Addresses
  BY DEF EditsOK
<1>2. PICK m \in Mods : m = Modify("ChangeFrom", e.from, <<>>, 0)
  <2>1. Modify("ChangeFrom", e.from, <<>>, 0) \in Mods
    BY <1>1 DEF Modify, Mods, OtherKinds
  <2> QED
    BY <2>1
<1>3. m.kind = "ChangeFrom"
  BY <1>2 DEF Modify
<1>4. CASE FromEdit(e) = <<>>
  BY <1>4 DEF Others, NoRecipients
<1>5. CASE FromEdit(e) = <<m>>
  <2>1. PICK x : x = <<m>>
    OBVIOUS
  <2>2. x \in Seq(Mods) /\ Len(x) = 1 /\ x[1] = m
    BY <2>1
  <2>3. \A k \in 1 .. Len(x) : x[k].kind = "ChangeFrom"
    BY <1>3, <2>2
  <2> QED
    BY <1>5, <2>1, <2>2, <2>3 DEF Others, NoRecipients, OtherKinds
<1> QED
  BY <1>2, <1>4, <1>5 DEF FromEdit

\* Two lists that leave the headers alone.
LEMMA JoinOthers ==
  ASSUME NEW x, NEW y, Others(x), Others(y)
  PROVE  Others(x \o y)
<1>1. x \in Seq(Mods) /\ y \in Seq(Mods)
  BY DEF Others
<1>2. x \o y \in Seq(Mods)
  BY <1>1, Joined
<1>3. ASSUME NEW k \in 1 .. Len(x \o y) PROVE (x \o y)[k].kind \in OtherKinds
  <2>1. \/ k \in 1 .. Len(x) /\ (x \o y)[k] = x[k]
        \/ k - Len(x) \in 1 .. Len(y) /\ (x \o y)[k] = y[k - Len(x)]
    BY <1>1, Joined
  <2>2. /\ \A j \in 1 .. Len(x) : x[j].kind \in OtherKinds
        /\ \A j \in 1 .. Len(y) : y[j].kind \in OtherKinds
    BY DEF Others
  <2> QED
    BY <2>1, <2>2
<1> QED
  BY <1>2, <1>3 DEF Others

\* The headers' part of the modifications leaves the recipients alone.
LEMMA HeaderModsNone ==
  ASSUME NEW s, NEW e, SessionOK(s), EditsOK(s, e)
  PROVE  NoRecipients(HeaderEdits(s, e) \o Insertions(e))
<1>1. PICK T : T = ChangedOrDeleted(e)
  OBVIOUS
<1>2. PICK x : x = HeaderEdits(s, e)
  OBVIOUS
<1>3. PICK d : d = Cardinality(T)
  OBVIOUS
<1>4. /\ x \in Seq(Mods) /\ Len(x) = d
      /\ \A k \in 1 .. d : x[k] =
           Modify("ChangeHeader", s.headers[Descending(T)[k]].name,
                  ChangedTo(e, Descending(T)[k]), Occurrence(s.headers, Descending(T)[k]))
  BY <1>1, <1>2, <1>3, HeaderEditsAt
<1>5. \A k \in 1 .. d : x[k].kind = "ChangeHeader"
  BY <1>4 DEF Modify
<1>6. NoRecipients(x)
  BY <1>4, <1>5 DEF NoRecipients
<1>7. PICK y : y = Insertions(e)
  OBVIOUS
<1>8. y \in Seq(Mods) /\ \A k \in 1 .. Len(y) : y[k].kind \in Inserting
  BY <1>7, InsertionsAt
<1>9. NoRecipients(y)
  BY <1>8 DEF NoRecipients, Inserting
<1>10. NoRecipients(x \o y)
  BY <1>4, <1>6, <1>8, <1>9, JoinNone
<1> QED
  BY <1>2, <1>7, <1>10

\* The whole decision: the modifications of the edits, those of a replacement and perhaps a
\* quarantine are a plan within the limit, and do to the recipients what the edits say.
LEMMA DecisionPlan ==
  ASSUME NEW s, NEW e, SessionOK(s), EditsOK(s, e), SlotsInv(s, e),
         NEW r \in Seq(Mods), NoRecipients(r), NEW q, Others(q), NoRecipients(q),
         r = <<>> \/ (NoHeaderEdits(e) /\ PlannedFrom(s, r, 0))
  PROVE  /\ \E a \in Nat : PlannedFrom(s, Modifications(s, e) \o r \o q, a)
         /\ EnvelopeInv(s, e, Modifications(s, e) \o r \o q)
<1>1. PICK h : h = HeaderEdits(s, e) \o Insertions(e)
  OBVIOUS
<1>2. PICK f : f = FromEdit(e)
  OBVIOUS
<1>3. PICK v : v = EnvelopeEdits(s, e)
  OBVIOUS
<1>4. Modifications(s, e) = h \o f \o v
  BY <1>1, <1>2, <1>3 DEF Modifications, FromEdit
<1>5. s.headers \in Seq(Fields)
  BY DEF SessionOK
<1>6. Others(f) /\ NoRecipients(f) /\ f \in Seq(Mods)
  <2>1. Others(f) /\ NoRecipients(f)
    BY <1>2, FromEditOK
  <2> QED
    BY <2>1 DEF Others
<1>7. EnvelopeInv(s, e, v) /\ Others(v) /\ v \in Seq(Mods)
  <2>1. EnvelopeInv(s, e, v) /\ Others(v)
    BY <1>3, EnvelopeEditsAt
  <2> QED
    BY <2>1 DEF Others
<1>8. h \in Seq(Mods) /\ NoRecipients(h)
  <2>1. HeaderEdits(s, e) \in Seq(Mods) /\ Insertions(e) \in Seq(Mods)
    BY HeaderEditsOK, InsertionsOK
  <2>2. HeaderEdits(s, e) \o Insertions(e) \in Seq(Mods)
    BY <2>1, Joined
  <2> QED
    BY <1>1, <2>2, HeaderModsNone
<1>9. h \o f \in Seq(Mods) /\ NoRecipients(h \o f)
  BY <1>6, <1>8, Joined, JoinNone
<1>10. h \o f \o v \in Seq(Mods) /\ EnvelopeInv(s, e, h \o f \o v)
  BY <1>7, <1>9, Joined, JoinEnvelope
<1>11. h \o f \o v \o r \in Seq(Mods) /\ EnvelopeInv(s, e, h \o f \o v \o r)
  BY <1>10, Joined, JoinEnvelope
<1>12. EnvelopeInv(s, e, h \o f \o v \o r \o q)
  <2>1. q \in Seq(Mods)
    BY DEF Others
  <2> QED
    BY <1>11, <2>1, JoinEnvelope
<1>13. CASE r = <<>>
  <2>1. PlannedFrom(s, h, 0)
    BY <1>1, EditsPlan
  <2>2. PICK T, new, cut, c : Plan(s, h, 0, T, new, cut, c) /\ Fits(s, cut, c)
    BY <2>1 DEF PlannedFrom
  <2>3. Plan(s, h \o f, 0, T, new, cut, c)
    BY <1>5, <1>6, <2>2, PlanAppend
  <2>4. Plan(s, h \o f \o v, 0, T, new, cut, c)
    BY <1>5, <1>7, <2>3, PlanAppend
  <2>5. Others(r)
    BY <1>13 DEF Others
  <2>6. Plan(s, h \o f \o v \o r, 0, T, new, cut, c)
    BY <1>5, <2>4, <2>5, PlanAppend
  <2>7. Plan(s, h \o f \o v \o r \o q, 0, T, new, cut, c)
    BY <1>5, <2>6, PlanAppend
  <2>8. PlannedFrom(s, h \o f \o v \o r \o q, 0)
    BY <2>2, <2>7 DEF PlannedFrom
  <2> QED
    BY <1>4, <1>12, <2>8
<1>14. CASE NoHeaderEdits(e) /\ PlannedFrom(s, r, 0)
  <2>1. PICK T, new, cut, c : Plan(s, r, 0, T, new, cut, c) /\ Fits(s, cut, c)
    BY <1>14 DEF PlannedFrom
  <2>2. Others(h)
    <3>1. HeaderEdits(s, e) = <<>> /\ Insertions(e) = <<>>
      BY <1>14, NoHeaderMods
    <3>2. h = <<>>
      BY <1>1, <3>1
    <3> QED
      BY <3>2 DEF Others
  <2>3. PICK z : z = h \o f \o v
    OBVIOUS
  <2>4. Others(z)
    BY <1>6, <1>7, <2>2, <2>3, JoinOthers
  <2>5. Plan(s, z \o r, Len(z), T, new, cut, c)
    BY <1>5, <2>1, <2>4, PlanPrepend
  <2>6. Plan(s, z \o r \o q, Len(z), T, new, cut, c)
    BY <1>5, <2>5, PlanAppend
  <2>7. PlannedFrom(s, z \o r \o q, Len(z))
    BY <2>1, <2>6 DEF PlannedFrom
  <2>8. Len(z) \in Nat
    BY <2>4 DEF Others
  <2> QED
    BY <1>4, <1>12, <2>3, <2>7, <2>8
<1> QED
  BY <1>13, <1>14

-----------------------------------------------------------------------------
(* The recipients. *)

\* Once n modifications are applied, a recipient of the MTA is one of the session's that
\* none of them deleted, or one that they added.
RecipientsInv(s, ms, n, to) ==
  \A x \in to :
    \/ \E i \in 1 .. Len(s.to) :
         s.to[i] = x /\ \A k \in 1 .. n : ~(ms[k].kind = "DeleteRecipient" /\ ms[k].name = x)
    \/ \E k \in 1 .. n : ms[k].kind = "AddRecipient" /\ ms[k].name = x

\* That stays so.
LEMMA RecipientsStep ==
  ASSUME NEW s, NEW ms \in Seq(Mods), NEW t, "to" \in DOMAIN t, NEW n \in 0 .. (Len(ms) - 1),
         RecipientsInv(s, ms, n, t.to)
  PROVE  RecipientsInv(s, ms, n + 1, WithModification(ms[n + 1], t).to)
<1>1. PICK m : m = ms[n + 1]
  OBVIOUS
<1>2. PICK to : to = WithModification(m, t).to
  OBVIOUS
<1>3. n \in Nat /\ n + 1 \in 1 .. (n + 1) /\ \A k \in 1 .. (n + 1) : k \in 1 .. n \/ k = n + 1
  BY LenProperties
<1>4. \A k \in 1 .. n : k \in 1 .. (n + 1)
  BY <1>3
<1>5. ASSUME NEW x \in to,
             \/ x \in t.to /\ (m.kind = "DeleteRecipient" => x # m.name)
             \/ m.kind = "AddRecipient" /\ x = m.name
      PROVE  \/ \E i \in 1 .. Len(s.to) :
                  s.to[i] = x /\ \A k \in 1 .. (n + 1) : ~(ms[k].kind = "DeleteRecipient" /\ ms[k].name = x)
             \/ \E k \in 1 .. (n + 1) : ms[k].kind = "AddRecipient" /\ ms[k].name = x
  <2>1. CASE m.kind = "AddRecipient" /\ x = m.name
    BY <1>1, <1>3, <2>1
  <2>2. CASE x \in t.to /\ (m.kind = "DeleteRecipient" => x # m.name)
    <3>1. \/ \E i \in 1 .. Len(s.to) :
               s.to[i] = x /\ \A k \in 1 .. n : ~(ms[k].kind = "DeleteRecipient" /\ ms[k].name = x)
          \/ \E k \in 1 .. n : ms[k].kind = "AddRecipient" /\ ms[k].name = x
      BY <2>2 DEF RecipientsInv
    <3>2. ~(ms[n + 1].kind = "DeleteRecipient" /\ ms[n + 1].name = x)
      BY <1>1, <2>2
    <3>3. CASE \E i \in 1 .. Len(s.to) :
                 s.to[i] = x /\ \A k \in 1 .. n : ~(ms[k].kind = "DeleteRecipient" /\ ms[k].name = x)
      BY <1>3, <3>2, <3>3
    <3>4. CASE \E k \in 1 .. n : ms[k].kind = "AddRecipient" /\ ms[k].name = x
      BY <1>4, <3>4
    <3> QED
      BY <3>1, <3>3, <3>4
  <2> QED
    BY <1>5, <2>1, <2>2
<1>6. CASE m.kind = "DeleteRecipient"
  <2>1. to = t.to \ {m.name}
    BY <1>2, <1>6 DEF WithModification
  <2>2. \A x \in to : x \in t.to /\ (m.kind = "DeleteRecipient" => x # m.name)
    BY <2>1
  <2> QED
    BY <1>1, <1>2, <1>5, <2>2 DEF RecipientsInv
<1>7. CASE m.kind = "AddRecipient"
  <2>1. to = t.to \cup {m.name}
    BY <1>2, <1>7 DEF WithModification
  <2>2. \A x \in to : \/ x \in t.to /\ (m.kind = "DeleteRecipient" => x # m.name)
                      \/ m.kind = "AddRecipient" /\ x = m.name
    BY <1>7, <2>1
  <2> QED
    BY <1>1, <1>2, <1>5, <2>2 DEF RecipientsInv
<1>8. CASE m.kind \notin {"DeleteRecipient", "AddRecipient"}
  <2>1. to = t.to
    BY <1>2, <1>8 DEF WithModification
  <2>2. \A x \in to : x \in t.to /\ (m.kind = "DeleteRecipient" => x # m.name)
    BY <1>8, <2>1
  <2> QED
    BY <1>1, <1>2, <1>5, <2>2 DEF RecipientsInv
<1> QED
  BY <1>6, <1>7, <1>8

\* At the end each recipient has a slot of its own.
LEMMA RecipientsFit ==
  ASSUME NEW s, NEW e, SessionOK(s), EditsOK(s, e), SlotsInv(s, e), NEW ms, EnvelopeInv(s, e, ms),
         NEW to, RecipientsInv(s, ms, Len(ms), to)
  PROVE  Cardinality(to) <= MaxRecipients
<1>1. PICK l : l = e.to
  OBVIOUS
<1>2. PICK n : n = Len(l)
  OBVIOUS
<1>3. n \in Nat /\ DOMAIN l = 1 .. n
  <2>1. PICK E : E = Slots(Len(s.to), Len(e.toAdded))
    OBVIOUS
  <2>2. l \in Seq(E)
    BY <1>1, <2>1, EditsParts
  <2> QED
    BY <1>2, <2>2
<1>4. PICK g : g = [p \in 1 .. n |-> IF l[p].kind = "Added" THEN e.toAdded[l[p].at] ELSE s.to[l[p].at]]
  OBVIOUS
<1>5. ASSUME NEW x \in to PROVE \E p \in 1 .. n : g[p] = x
  <2>1. \/ \E i \in 1 .. Len(s.to) :
             s.to[i] = x /\ \A k \in 1 .. Len(ms) : ~(ms[k].kind = "DeleteRecipient" /\ ms[k].name = x)
        \/ \E k \in 1 .. Len(ms) : ms[k].kind = "AddRecipient" /\ ms[k].name = x
    BY DEF RecipientsInv
  <2>2. ASSUME NEW i \in 1 .. Len(s.to), s.to[i] = x,
               \A k \in 1 .. Len(ms) : ~(ms[k].kind = "DeleteRecipient" /\ ms[k].name = x)
        PROVE  \E p \in 1 .. n : g[p] = x
    <3>1. i \notin ToSet(e.toDeletes)
      BY <2>2 DEF EnvelopeInv
    <3>2. Original(i) \in ToSet(l)
      BY <1>1, <3>1 DEF SlotsInv
    <3>3. PICK p \in 1 .. n : l[p] = Original(i)
      BY <1>3, <3>2 DEF ToSet
    <3>4. l[p].kind = "Original" /\ l[p].at = i
      BY <3>3 DEF Original
    <3> QED
      BY <1>4, <2>2, <3>4
  <2>3. ASSUME NEW k \in 1 .. Len(ms), ms[k].kind = "AddRecipient" /\ ms[k].name = x
        PROVE  \E p \in 1 .. n : g[p] = x
    <3>1. PICK j \in 1 .. Len(e.toAdded) : e.toAdded[j] # Unset /\ e.toAdded[j] = x
      BY <2>3 DEF EnvelopeInv
    <3>2. Added(j) \in ToSet(l)
      BY <1>1, <3>1 DEF SlotsInv
    <3>3. PICK p \in 1 .. n : l[p] = Added(j)
      BY <1>3, <3>2 DEF ToSet
    <3>4. l[p].kind = "Added" /\ l[p].at = j
      BY <3>3 DEF Added
    <3> QED
      BY <1>4, <3>1, <3>4
  <2> QED
    BY <2>1, <2>2, <2>3
<1>6. IsFiniteSet(1 .. n) /\ Cardinality(1 .. n) = n
  <2>1. 1 .. n \cup {} = 1 .. n /\ 1 .. n \cap {} = {}
    OBVIOUS
  <2>2. IsFiniteSet(1 .. n) /\ Cardinality(1 .. n) \in Nat /\ Cardinality(1 .. n) + Cardinality({}) = n
    BY <1>3, <2>1, PartsOfPlaces
  <2>3. Cardinality({}) = 0
    BY FS_EmptySet
  <2> QED
    BY <2>2, <2>3
<1>7. IsFiniteSet(to) /\ Cardinality(to) <= Cardinality(1 .. n)
  BY <1>5, <1>6, Covered
<1>8. Cardinality(to) \in Nat
  BY <1>7, FS_CardinalityType
<1>9. n <= MaxRecipients /\ MaxRecipients \in Nat
  BY <1>1, <1>2, TranslationAssumption DEF SlotsInv
<1> QED
  BY <1>3, <1>6, <1>7, <1>8, <1>9

-----------------------------------------------------------------------------
(* The slots. *)

\* A slot put into a list is in it, and all others are still.
LEMMA InsertedSlots ==
  ASSUME NEW S, NEW list \in Seq(S), NEW index \in -1 .. Len(list), NEW slot \in S
  PROVE  /\ slot \in ToSet(InsertSlot(list, index, slot))
         /\ \A x \in ToSet(list) : x \in ToSet(InsertSlot(list, index, slot))
<1>1. PICK n \in Nat : n = Len(list) /\ DOMAIN list = 1 .. n
  OBVIOUS
<1>2. PICK p \in 1 .. (n + 1) : p = IF index = -1 THEN n + 1 ELSE index + 1
  BY <1>1
<1>3. PICK l : l = InsertSlot(list, index, slot)
  OBVIOUS
<1>4. DOMAIN l = 1 .. (n + 1) /\ \A k \in 1 .. (n + 1) : l[k] = IF k < p THEN list[k] ELSE IF k = p THEN slot ELSE list[k - 1]
  <2>1. CASE index = -1
    <3>1. l = Append(list, slot)
      BY <1>3, <2>1 DEF InsertSlot
    <3>2. DOMAIN l = 1 .. (n + 1) /\ \A k \in 1 .. (n + 1) : l[k] = IF k = n + 1 THEN slot ELSE list[k]
      BY <1>1, <3>1
    <3>3. p = n + 1 /\ \A k \in 1 .. (n + 1) : k < p \/ k = p
      BY <1>1, <1>2, <2>1
    <3>4. \A k \in 1 .. (n + 1) : k < p => k # n + 1
      BY <3>3
    <3> QED
      BY <3>2, <3>3, <3>4
  <2>2. CASE index # -1
    <3>1. l = InsertAt(list, p, slot)
      BY <1>2, <1>3, <2>2 DEF InsertSlot
    <3>2. l = Widened(list, p, slot)
      BY <1>1, <3>1, InsertAtEntries
    <3> QED
      BY <1>1, <3>2 DEF Widened
  <2> QED
    BY <2>1, <2>2
<1>5. slot \in ToSet(l)
  <2>1. l[p] = slot /\ p \in DOMAIN l
    BY <1>2, <1>4
  <2> QED
    BY <2>1 DEF ToSet
<1>6. ASSUME NEW x \in ToSet(list) PROVE x \in ToSet(l)
  <2>1. PICK k \in 1 .. n : list[k] = x
    BY <1>1 DEF ToSet
  <2>2. CASE k < p
    <3>1. k \in 1 .. (n + 1)
      BY <1>1
    <3>2. l[k] = x /\ k \in DOMAIN l
      BY <1>4, <2>1, <2>2, <3>1
    <3> QED
      BY <3>2 DEF ToSet
  <2>3. CASE ~(k < p)
    <3>1. k + 1 \in 1 .. (n + 1) /\ ~(k + 1 < p) /\ k + 1 # p /\ (k + 1) - 1 = k
      BY <1>1, <1>2, <2>3
    <3>2. l[k + 1] = x /\ k + 1 \in DOMAIN l
      BY <1>4, <2>1, <3>1
    <3> QED
      BY <3>2 DEF ToSet
  <2> QED
    BY <2>2, <2>3
<1> QED
  BY <1>3, <1>5, <1>6

\* All but the slot taken out of a list are still in it.
LEMMA RemovedSlots ==
  ASSUME NEW S, NEW list \in Seq(S), NEW p \in 1 .. Len(list), NEW x \in ToSet(list), x # list[p]
  PROVE  x \in ToSet(RemoveAt(list, p))
<1>1. PICK n \in Nat : n = Len(list) /\ DOMAIN list = 1 .. n
  OBVIOUS
<1>2. PICK l : l = RemoveAt(list, p)
  OBVIOUS
<1>3. DOMAIN l = 1 .. (n - 1) /\ \A k \in 1 .. (n - 1) : l[k] = IF k < p THEN list[k] ELSE list[k + 1]
  BY <1>1, <1>2, RemoveAtEntries
<1>4. PICK k \in 1 .. n : list[k] = x
  BY <1>1 DEF ToSet
<1>5. k # p /\ p \in 1 .. n
  BY <1>1, <1>4
<1>6. CASE k < p
  <2>1. k \in 1 .. (n - 1)
    BY <1>5, <1>6
  <2>2. l[k] = x /\ k \in DOMAIN l
    BY <1>3, <1>4, <1>6, <2>1
  <2> QED
    BY <1>2, <2>2 DEF ToSet
<1>7. CASE ~(k < p)
  <2>1. k - 1 \in 1 .. (n - 1) /\ ~(k - 1 < p) /\ (k - 1) + 1 = k
    BY <1>5, <1>7
  <2>2. l[k - 1] = x /\ k - 1 \in DOMAIN l
    BY <1>3, <1>4, <2>1
  <2> QED
    BY <1>2, <2>2 DEF ToSet
<1> QED
  BY <1>6, <1>7

-----------------------------------------------------------------------------
(* The invariant. *)

\* No edit is lost, and next to a replacement none is made of a header.
SlotsPart == SlotsInv(session, edits) /\ (hasRaw => NoHeaderEdits(edits))

\* A replacement's modifications are a plan within the limit.
RawPart == /\ ~hasRaw => raw = NoRaw
           /\ NoRecipients(raw.mods)
           /\ raw.ok => PlannedFrom(session, raw.mods, 0)

\* The MTA is on its way through a plan within the limit.
Applying(s, e, ms, t, n) ==
  /\ \E a, T, new, cut, c : /\ Plan(s, ms, a, T, new, cut, c) /\ Fits(s, cut, c)
                            /\ Replayed(s.headers, t.headers, n, a, T, new, cut, c)
  /\ EnvelopeInv(s, e, ms) /\ RecipientsInv(s, ms, n, t.to)

\* The MTA has the message as it was until the decision, and then what the plan says.
MtaPart == /\ Operating => mta.headers = session.headers /\ mta.to = ToSet(session.to)
           /\ phase \in {"mta", "done"} => Applying(session, edits, mods, mta, applied)
           /\ phase = "done" => applied = Len(mods)

CountIInv == SlotsPart /\ RawPart /\ MtaPart

\* A step before the decision leaves the MTA alone.
LEMMA BeforeDecision ==
  ASSUME CountIInv, Operating, phase' \in {"set", "add", "delete", "refused"},
         UNCHANGED <<session, mta>>
  PROVE  MtaPart'
<1>1. mta'.headers = session'.headers /\ mta'.to = ToSet(session'.to)
  BY DEF CountIInv, MtaPart
<1> QED
  BY <1>1 DEF MtaPart

\* An edit that loses no slot.
LEMMA CountEdit ==
  ASSUME TranslateIInv, CountIInv, NEW list \in {"set", "add", "delete"}, InList(list),
         NEW o, NEW e, Edit(o, e), SlotsInv(session, e), hasRaw => NoHeaderEdits(e)
  PROVE  CountIInv'
<1>1. Operating /\ phase' \in {"set", "add", "delete", "refused"}
  BY InListOK DEF TranslateIInv
<1>2. edits' = e /\ UNCHANGED <<session, hasRaw, raw, mta>>
  BY DEF Edit
<1>3. MtaPart'
  BY <1>1, <1>2, BeforeDecision
<1>4. SlotsPart'
  BY <1>2 DEF SlotsPart
<1>5. RawPart'
  BY <1>2 DEF CountIInv, RawPart
<1> QED
  BY <1>3, <1>4, <1>5 DEF CountIInv

\* Edits by their lists.
LEMMA SameSlots ==
  ASSUME NEW s, NEW e, NEW f, SlotsInv(s, e), f.headers = e.headers, f.to = e.to,
         f.deletes = e.deletes, f.toDeletes = e.toDeletes, f.toAdded = e.toAdded
  PROVE  SlotsInv(s, f)
BY DEF SlotsInv

\* SetHeader and SetFrom.
LEMMA CountSet ==
  ASSUME TranslateIInv, CountIInv,
         \/ \E i \in 0 .. MaxHeaders, v \in NewValues : SetHeader(i, v)
         \/ \E a \in NewAddresses : SetFrom(a)
  PROVE  CountIInv'
<1>1. SlotsInv(session, edits) /\ (hasRaw => NoHeaderEdits(edits)) /\ EditsOK(session, edits)
  BY DEF CountIInv, SlotsPart, TranslateIInv
<1>2. ASSUME NEW i \in 0 .. MaxHeaders, NEW v \in NewValues, SetHeader(i, v) PROVE CountIInv'
  <2>1. PICK c : c = Append(edits.changes, [at |-> i + 1, value |-> v])
    OBVIOUS
  <2>2. PICK e : e = [edits EXCEPT !.changes = c]
    OBVIOUS
  <2>3. /\ InList("set") /\ ~hasRaw
        /\ Edit([kind |-> "setHeader", index |-> i, arg |-> Sent(v)], e)
    BY <1>2, <2>1, <2>2 DEF SetHeader
  <2>4. /\ e.headers = edits.headers /\ e.to = edits.to /\ e.deletes = edits.deletes
        /\ e.toDeletes = edits.toDeletes /\ e.toAdded = edits.toAdded
    BY <1>1, <2>2 DEF EditsOK
  <2>5. SlotsInv(session, e)
    BY <1>1, <2>4, SameSlots
  <2> QED
    BY <2>3, <2>5, CountEdit
<1>3. ASSUME NEW a \in NewAddresses, SetFrom(a) PROVE CountIInv'
  <2>1. PICK e : e = [edits EXCEPT !.from = a]
    OBVIOUS
  <2>2. InList("set") /\ Edit([kind |-> "setFrom", arg |-> a], e)
    BY <1>3, <2>1 DEF SetFrom
  <2>3. /\ e.headers = edits.headers /\ e.to = edits.to /\ e.deletes = edits.deletes
        /\ e.toDeletes = edits.toDeletes /\ e.toAdded = edits.toAdded
        /\ e.changes = edits.changes /\ e.added = edits.added
    BY <1>1, <2>1 DEF EditsOK
  <2>4. SlotsInv(session, e)
    BY <1>1, <2>3, SameSlots
  <2>5. hasRaw => NoHeaderEdits(e)
    BY <1>1, <2>3 DEF NoHeaderEdits
  <2> QED
    BY <2>2, <2>4, <2>5, CountEdit
<1> QED
  BY <1>2, <1>3

\* AddHeader.
LEMMA CountAddHeader ==
  ASSUME TranslateIInv, CountIInv, NEW i \in -1 .. MaxHeaders, NEW h \in Headers, AddHeader(i, h)
  PROVE  CountIInv'
<1>1. SlotsInv(session, edits) /\ EditsOK(session, edits)
  BY DEF CountIInv, SlotsPart, TranslateIInv
<1>2. PICK n : n = Len(edits.added)
  OBVIOUS
<1>3. PICK a : a = Append(edits.added, h)
  OBVIOUS
<1>4. PICK l : l = InsertSlot(edits.headers, i, Added(n + 1))
  OBVIOUS
<1>5. PICK e : e = [edits EXCEPT !.added = a, !.headers = l]
  OBVIOUS
<1>6. /\ InList("add") /\ ~hasRaw /\ Len(edits.headers) < MaxHeaders /\ i <= Len(edits.headers)
      /\ Edit([kind |-> "addHeader", index |-> i, arg |-> [h EXCEPT !.value = Sent(@)]], e)
  BY <1>2, <1>3, <1>4, <1>5 DEF AddHeader
<1>7. /\ e.headers = l /\ e.to = edits.to /\ e.deletes = edits.deletes
      /\ e.toDeletes = edits.toDeletes /\ e.toAdded = edits.toAdded
  BY <1>1, <1>5 DEF EditsOK
<1>8. PICK S : S = Slots(Len(session.headers), n) \cup {Added(n + 1)}
  OBVIOUS
<1>9. edits.headers \in Seq(S)
  <2>1. edits.headers \in Seq(Slots(Len(session.headers), n))
    BY <1>1, <1>2, EditsParts
  <2>2. Slots(Len(session.headers), n) \subseteq S
    BY <1>8
  <2> QED
    BY <2>1, <2>2, SeqMonotonic
<1>10. i \in -1 .. Len(edits.headers) /\ Added(n + 1) \in S /\ Len(edits.headers) \in Nat
  <2>1. Len(edits.headers) \in Nat
    BY <1>9
  <2> QED
    BY <1>6, <1>8, <2>1, TranslationAssumption
<1>11. Len(l) = Len(edits.headers) + 1
  BY <1>4, <1>9, <1>10, InsertSlotOK
<1>12. \A x \in ToSet(edits.headers) : x \in ToSet(l)
  BY <1>4, <1>9, <1>10, InsertedSlots
<1>13. Len(l) <= MaxHeaders
  BY <1>6, <1>10, <1>11, TranslationAssumption
<1>14. SlotsInv(session, e)
  BY <1>1, <1>7, <1>12, <1>13 DEF SlotsInv
<1> QED
  BY <1>6, <1>14, CountEdit

\* AddTo.
LEMMA CountAddTo ==
  ASSUME TranslateIInv, CountIInv, NEW i \in -1 .. MaxRecipients, NEW y \in NewAddresses, AddTo(i, y)
  PROVE  CountIInv'
<1>1. SlotsInv(session, edits) /\ (hasRaw => NoHeaderEdits(edits)) /\ EditsOK(session, edits)
  BY DEF CountIInv, SlotsPart, TranslateIInv
<1>2. PICK n : n = Len(edits.toAdded)
  OBVIOUS
<1>3. PICK a : a = Append(edits.toAdded, y)
  OBVIOUS
<1>4. PICK l : l = InsertSlot(edits.to, i, Added(n + 1))
  OBVIOUS
<1>5. PICK e : e = [edits EXCEPT !.toAdded = a, !.to = l]
  OBVIOUS
<1>6. /\ InList("add") /\ Len(edits.to) < MaxRecipients /\ i <= Len(edits.to)
      /\ Edit([kind |-> "addTo", index |-> i, arg |-> y], e)
  BY <1>2, <1>3, <1>4, <1>5 DEF AddTo
<1>7. /\ e.headers = edits.headers /\ e.to = l /\ e.deletes = edits.deletes
      /\ e.toDeletes = edits.toDeletes /\ e.toAdded = a
      /\ e.changes = edits.changes /\ e.added = edits.added
  BY <1>1, <1>5 DEF EditsOK
<1>8. PICK S : S = Slots(Len(session.to), n) \cup {Added(n + 1)}
  OBVIOUS
<1>9. edits.to \in Seq(S) /\ edits.toAdded \in Seq(Addresses)
  <2>1. edits.to \in Seq(Slots(Len(session.to), n)) /\ edits.toAdded \in Seq(Addresses)
    BY <1>1, <1>2, EditsParts
  <2>2. Slots(Len(session.to), n) \subseteq S
    BY <1>8
  <2> QED
    BY <2>1, <2>2, SeqMonotonic
<1>10. i \in -1 .. Len(edits.to) /\ Added(n + 1) \in S /\ Len(edits.to) \in Nat
  <2>1. Len(edits.to) \in Nat
    BY <1>9
  <2> QED
    BY <1>6, <1>8, <2>1, TranslationAssumption
<1>11. Len(l) = Len(edits.to) + 1
  BY <1>4, <1>9, <1>10, InsertSlotOK
<1>12. Added(n + 1) \in ToSet(l) /\ \A x \in ToSet(edits.to) : x \in ToSet(l)
  BY <1>4, <1>9, <1>10, InsertedSlots
<1>13. Len(l) <= MaxRecipients
  BY <1>6, <1>10, <1>11, TranslationAssumption
<1>14. \A k \in 1 .. Len(a) : a[k] = Unset \/ Added(k) \in ToSet(l)
  <2>1. edits.toAdded \in Seq(Addresses) /\ n \in Nat /\ y \in Addresses
    BY <1>2, <1>9, TranslationAssumption DEF Addresses
  <2>2. Len(a) = n + 1 /\ \A k \in 1 .. n : a[k] = edits.toAdded[k]
    BY <1>2, <1>3, <2>1, AppendProperties
  <2>3. TAKE k \in 1 .. Len(a)
  <2>4. k \in 1 .. n \/ k = n + 1
    BY <2>1, <2>2
  <2>5. k \in 1 .. n => a[k] = Unset \/ Added(k) \in ToSet(edits.to)
    BY <1>1, <1>2, <2>2 DEF SlotsInv
  <2> QED
    BY <1>12, <2>4, <2>5
<1>15. SlotsInv(session, e)
  BY <1>1, <1>7, <1>12, <1>13, <1>14 DEF SlotsInv
<1>16. hasRaw => NoHeaderEdits(e)
  BY <1>1, <1>7 DEF NoHeaderEdits
<1> QED
  BY <1>6, <1>15, <1>16, CountEdit

\* DeleteHeader.
LEMMA CountDeleteHeader ==
  ASSUME TranslateIInv, CountIInv, NEW i \in 0 .. MaxHeaders, DeleteHeader(i)
  PROVE  CountIInv'
<1>1. SlotsInv(session, edits) /\ EditsOK(session, edits)
  BY DEF CountIInv, SlotsPart, TranslateIInv
<1>2. PICK S : S = Slots(Len(session.headers), Len(edits.added))
  OBVIOUS
<1>3. PICK h : h = edits.headers
  OBVIOUS
<1>4. h \in Seq(S)
  BY <1>1, <1>2, <1>3, EditsParts
<1>5. PICK p \in 1 .. Len(h) : p = i + 1
  <2>1. Len(h) \in Nat
    BY <1>4
  <2>2. i < Len(h) /\ i \in Nat
    BY <1>3, TranslationAssumption DEF DeleteHeader
  <2> QED
    BY <2>1, <2>2
<1>6. PICK l : l = RemoveAt(h, p)
  OBVIOUS
<1>7. PICK slot : slot = h[p]
  OBVIOUS
<1>8. PICK d : d = IF slot.kind = "Original" THEN Append(edits.deletes, slot.at) ELSE edits.deletes
  OBVIOUS
<1>9. PICK e : e = IF slot.kind = "Original"
                   THEN [[edits EXCEPT !.headers = l] EXCEPT !.deletes = Append(@, slot.at)]
                   ELSE [edits EXCEPT !.headers = l]
  OBVIOUS
<1>10. InList("delete") /\ ~hasRaw /\ Edit([kind |-> "deleteHeader", index |-> i], e)
  BY <1>3, <1>5, <1>6, <1>7, <1>9 DEF DeleteHeader
<1>11. /\ e.headers = l /\ e.to = edits.to /\ e.deletes = d
       /\ e.toDeletes = edits.toDeletes /\ e.toAdded = edits.toAdded
  BY <1>1, <1>8, <1>9 DEF EditsOK
<1>12. Len(l) = Len(h) - 1 /\ Len(h) \in Nat
  BY <1>4, <1>6, RemoveAtOK
<1>13. Len(l) <= MaxHeaders
  <2>1. Len(h) <= MaxHeaders /\ MaxHeaders \in Nat
    BY <1>1, <1>3, TranslationAssumption DEF SlotsInv
  <2> QED
    BY <1>12, <2>1
<1>14. PICK D : D = DOMAIN session.headers
  OBVIOUS
<1>15. edits.deletes \in Seq(D) /\ (slot.kind = "Original" => slot.at \in D)
  <2>1. slot \in S
    BY <1>4, <1>7, ElementOfSeq
  <2>2. session.headers \in Seq(Fields)
    BY SessionsOK DEF TranslateIInv, ProgressInv, SessionOK
  <2>3. D = 1 .. Len(session.headers)
    BY <1>14, <2>2
  <2>4. slot.kind = "Original" => slot.at \in 1 .. Len(session.headers)
    BY <1>2, <2>1, SlotNames
  <2> QED
    BY <1>1, <1>14, <2>3, <2>4, EditsParts
<1>16. (\A x \in ToSet(edits.deletes) : x \in ToSet(d)) /\ (slot.kind = "Original" => slot.at \in ToSet(d))
  <2>1. CASE slot.kind = "Original"
    <3>1. d = Append(edits.deletes, slot.at)
      BY <1>8, <2>1
    <3>2. PICK n \in Nat : n = Len(edits.deletes) /\ DOMAIN edits.deletes = 1 .. n
      BY <1>15
    <3>3. DOMAIN d = 1 .. (n + 1) /\ d[n + 1] = slot.at /\ \A k \in 1 .. n : d[k] = edits.deletes[k]
      BY <1>15, <2>1, <3>1, <3>2
    <3>4. \A k \in 1 .. n : k \in 1 .. (n + 1)
      BY <3>2
    <3>5. n + 1 \in 1 .. (n + 1)
      BY <3>2
    <3> QED
      BY <3>2, <3>3, <3>4, <3>5 DEF ToSet
  <2>2. CASE slot.kind # "Original"
    BY <1>8, <2>2
  <2> QED
    BY <2>1, <2>2
<1>17. ASSUME NEW j \in 1 .. Len(session.headers)
       PROVE  j \in ToSet(d) \/ Original(j) \in ToSet(l)
  <2>1. j \in ToSet(edits.deletes) \/ Original(j) \in ToSet(h)
    BY <1>1, <1>3 DEF SlotsInv
  <2>2. CASE Original(j) \in ToSet(h) /\ Original(j) = slot
    <3>1. slot.kind = "Original" /\ slot.at = j
      BY <2>2 DEF Original
    <3> QED
      BY <1>16, <3>1
  <2>3. CASE Original(j) \in ToSet(h) /\ Original(j) # slot
    <3>1. PICK x : x = Original(j)
      OBVIOUS
    <3>2. x \in ToSet(h) /\ x # h[p]
      BY <1>7, <2>3, <3>1
    <3>3. x \in ToSet(RemoveAt(h, p))
      BY <1>4, <3>2, RemovedSlots
    <3> QED
      BY <1>6, <3>1, <3>3
  <2> QED
    BY <1>16, <2>1, <2>2, <2>3
<1>18. SlotsInv(session, e)
  BY <1>1, <1>11, <1>13, <1>17 DEF SlotsInv
<1> QED
  BY <1>10, <1>18, CountEdit

\* DeleteTo.
LEMMA CountDeleteTo ==
  ASSUME TranslateIInv, CountIInv, NEW i \in 0 .. MaxRecipients, DeleteTo(i)
  PROVE  CountIInv'
<1>1. SlotsInv(session, edits) /\ (hasRaw => NoHeaderEdits(edits)) /\ EditsOK(session, edits)
  BY DEF CountIInv, SlotsPart, TranslateIInv
<1>2. PICK S : S = Slots(Len(session.to), Len(edits.toAdded))
  OBVIOUS
<1>3. PICK h : h = edits.to
  OBVIOUS
<1>4. h \in Seq(S)
  BY <1>1, <1>2, <1>3, EditsParts
<1>5. PICK p \in 1 .. Len(h) : p = i + 1
  <2>1. Len(h) \in Nat
    BY <1>4
  <2>2. i < Len(h) /\ i \in Nat
    BY <1>3, TranslationAssumption DEF DeleteTo
  <2> QED
    BY <2>1, <2>2
<1>6. PICK l : l = RemoveAt(h, p)
  OBVIOUS
<1>7. PICK slot \in S : slot = h[p]
  BY <1>4, ElementOfSeq
<1>8. PICK d : d = IF slot.kind = "Original" THEN Append(edits.toDeletes, slot.at) ELSE edits.toDeletes
  OBVIOUS
<1>9. PICK a : a = IF slot.kind = "Original" THEN edits.toAdded ELSE [edits.toAdded EXCEPT ![slot.at] = Unset]
  OBVIOUS
<1>10. PICK e : e = IF slot.kind = "Original"
                    THEN [[edits EXCEPT !.to = l] EXCEPT !.toDeletes = Append(@, slot.at)]
                    ELSE [[edits EXCEPT !.to = l] EXCEPT !.toAdded[slot.at] = Unset]
  OBVIOUS
<1>11. InList("delete") /\ Edit([kind |-> "deleteTo", index |-> i], e)
  BY <1>3, <1>5, <1>6, <1>7, <1>10 DEF DeleteTo
<1>12. /\ e.headers = edits.headers /\ e.to = l /\ e.deletes = edits.deletes
       /\ e.toDeletes = d /\ e.toAdded = a /\ e.changes = edits.changes /\ e.added = edits.added
  BY <1>1, <1>8, <1>9, <1>10 DEF EditsOK
<1>13. Len(l) = Len(h) - 1 /\ Len(h) \in Nat
  BY <1>4, <1>6, RemoveAtOK
<1>14. Len(l) <= MaxRecipients
  <2>1. Len(h) <= MaxRecipients /\ MaxRecipients \in Nat
    BY <1>1, <1>3, TranslationAssumption DEF SlotsInv
  <2> QED
    BY <1>13, <2>1
<1>15. PICK D : D = DOMAIN session.to
  OBVIOUS
<1>16. edits.toDeletes \in Seq(D) /\ (slot.kind = "Original" => slot.at \in D)
  <2>1. session.to \in Seq(Addresses)
    BY SessionsOK DEF TranslateIInv, ProgressInv, SessionOK
  <2>2. D = 1 .. Len(session.to)
    BY <1>15, <2>1
  <2>3. slot.kind = "Original" => slot.at \in 1 .. Len(session.to)
    BY <1>2, SlotNames
  <2> QED
    BY <1>1, <1>15, <2>2, <2>3, EditsParts
<1>17. (\A x \in ToSet(edits.toDeletes) : x \in ToSet(d)) /\ (slot.kind = "Original" => slot.at \in ToSet(d))
  <2>1. CASE slot.kind = "Original"
    <3>1. d = Append(edits.toDeletes, slot.at)
      BY <1>8, <2>1
    <3>2. PICK n \in Nat : n = Len(edits.toDeletes) /\ DOMAIN edits.toDeletes = 1 .. n
      BY <1>16
    <3>3. DOMAIN d = 1 .. (n + 1) /\ d[n + 1] = slot.at /\ \A k \in 1 .. n : d[k] = edits.toDeletes[k]
      BY <1>16, <2>1, <3>1, <3>2
    <3>4. \A k \in 1 .. n : k \in 1 .. (n + 1)
      BY <3>2
    <3>5. n + 1 \in 1 .. (n + 1)
      BY <3>2
    <3> QED
      BY <3>2, <3>3, <3>4, <3>5 DEF ToSet
  <2>2. CASE slot.kind # "Original"
    BY <1>8, <2>2
  <2> QED
    BY <2>1, <2>2
<1>18. ASSUME NEW x \in ToSet(h), x # slot PROVE x \in ToSet(l)
  <2>1. x # h[p]
    BY <1>7, <1>18
  <2>2. x \in ToSet(RemoveAt(h, p))
    BY <1>4, <2>1, RemovedSlots
  <2> QED
    BY <1>6, <2>2
<1>19. ASSUME NEW j \in 1 .. Len(session.to)
       PROVE  j \in ToSet(d) \/ Original(j) \in ToSet(l)
  <2>1. j \in ToSet(edits.toDeletes) \/ Original(j) \in ToSet(h)
    BY <1>1, <1>3 DEF SlotsInv
  <2>2. Original(j) = slot => slot.kind = "Original" /\ slot.at = j
    BY DEF Original
  <2> QED
    BY <1>17, <1>18, <2>1, <2>2
<1>20. ASSUME NEW k \in 1 .. Len(a)
       PROVE  a[k] = Unset \/ Added(k) \in ToSet(l)
  <2>1. edits.toAdded \in Seq(Addresses)
    BY <1>1, EditsParts
  <2>2. Len(a) = Len(edits.toAdded) /\ k \in 1 .. Len(edits.toAdded)
    <3>1. CASE slot.kind = "Original"
      BY <1>9, <3>1
    <3>2. CASE slot.kind # "Original"
      <4>1. Unset \in Addresses
        BY DEF Addresses
      <4>2. slot.at \in 1 .. Len(edits.toAdded)
        BY <1>2, <3>2, SlotNames
      <4>3. PICK b : b = [edits.toAdded EXCEPT ![slot.at] = Unset]
        OBVIOUS
      <4>4. Len(b) = Len(edits.toAdded)
        BY <2>1, <4>1, <4>2, <4>3, ExceptSeq
      <4> QED
        BY <1>9, <3>2, <4>3, <4>4
    <3> QED
      BY <3>1, <3>2
  <2>3. edits.toAdded[k] = Unset \/ Added(k) \in ToSet(h)
    BY <1>1, <1>3, <2>2 DEF SlotsInv
  <2>4. CASE slot.kind = "Original"
    <3>1. a = edits.toAdded
      BY <1>9, <2>4
    <3>2. Added(k) # slot
      BY <2>4 DEF Added
    <3> QED
      BY <1>18, <2>3, <3>1, <3>2
  <2>5. CASE slot.kind # "Original"
    <3>1. a = [edits.toAdded EXCEPT ![slot.at] = Unset]
      BY <1>9, <2>5
    <3>2. DOMAIN edits.toAdded = 1 .. Len(edits.toAdded)
      BY <2>1
    <3>3. a[k] = IF k = slot.at THEN Unset ELSE edits.toAdded[k]
      BY <2>2, <3>1, <3>2
    <3>4. Added(k) = slot => k = slot.at
      BY DEF Added
    <3> QED
      BY <1>18, <2>3, <3>3, <3>4
  <2> QED
    BY <2>4, <2>5
<1>21. SlotsInv(session, e)
  BY <1>1, <1>12, <1>14, <1>19, <1>20 DEF SlotsInv
<1>22. hasRaw => NoHeaderEdits(e)
  BY <1>1, <1>12 DEF NoHeaderEdits
<1> QED
  BY <1>11, <1>21, <1>22, CountEdit

\* TakeRaw.
LEMMA CountTakeRaw ==
  ASSUME TranslateIInv, CountIInv, NEW o, NEW text \in Seq(Chars), TakeRaw(o, text)
  PROVE  CountIInv'
<1>1. PICK result : result = RawReplacement(session, text)
  OBVIOUS
<1>2. /\ phase = "set" /\ hasRaw /\ raw' = result /\ phase' \in {phase, "refused"}
      /\ UNCHANGED <<session, hasRaw, edits, mta>>
  BY <1>1 DEF TakeRaw
<1>3. MtaPart'
  <2>1. Operating /\ phase' \in {"set", "add", "delete", "refused"}
    BY <1>2 DEF Operating
  <2> QED
    BY <1>2, <2>1, BeforeDecision
<1>4. SlotsPart'
  BY <1>2 DEF CountIInv, SlotsPart
<1>5. SessionOK(session)
  BY SessionsOK DEF TranslateIInv, ProgressInv
<1>6. result.ok => PlannedFrom(session, result.mods, 0) /\ NoRecipients(result.mods)
  BY <1>1, <1>5, RawPlan
<1>7. ~result.ok => NoRecipients(result.mods)
  <2>1. result.ok \/ result = NoRaw
    BY <1>1 DEF RawReplacement
  <2> QED
    BY <2>1 DEF NoRaw, NoRecipients
<1>8. RawPart'
  BY <1>2, <1>6, <1>7 DEF RawPart
<1> QED
  BY <1>3, <1>4, <1>8 DEF CountIInv

\* SetRaw and SetBadRaw.
LEMMA CountRaw ==
  ASSUME TranslateIInv, CountIInv,
         \/ \E r \in Replacements \cup {Echo} : SetRaw(r)
         \/ \E text \in BadReplacements : SetBadRaw(text)
  PROVE  CountIInv'
<1>1. ASSUME NEW r \in Replacements \cup {Echo}, SetRaw(r) PROVE CountIInv'
  <2>1. r.fields \in Seq(Fields) /\ r.ending \in Seq(Chars) /\ r.body \in Seq(Chars)
    <3>1. CASE r \in Replacements
      <4>1. r.fields \in Seq(Fields) /\ {r.ending, r.body} \subseteq Seq(Chars)
        BY <3>1, TranslationAssumption
      <4> QED
        BY <4>1
    <3>2. CASE r = Echo
      BY <3>2, EchoIsText DEF TranslateIInv
    <3> QED
      BY <3>1, <3>2
  <2>2. PICK text : text = Text(r.fields, r.ending, r.body)
    OBVIOUS
  <2>3. text \in Seq(Chars)
    BY <2>1, <2>2, TextIsText
  <2>4. PICK o : o = [kind |-> "setRaw", arg |-> Seen(r), echo |-> r = Echo]
    OBVIOUS
  <2>5. TakeRaw(o, text)
    BY <1>1, <2>2, <2>4 DEF SetRaw
  <2> QED
    BY <2>3, <2>5, CountTakeRaw
<1>2. ASSUME NEW text \in BadReplacements, SetBadRaw(text) PROVE CountIInv'
  <2>1. text \in Seq(Chars)
    BY TranslationAssumption
  <2> QED
    BY <1>2, <2>1, CountTakeRaw DEF SetBadRaw
<1> QED
  BY <1>1, <1>2

\* A step before the decision that changes neither edits nor replacement.
LEMMA CountKept ==
  ASSUME CountIInv, Operating, phase' \in {"set", "add", "delete", "refused"},
         UNCHANGED <<session, hasRaw, edits, raw, mta>>
  PROVE  CountIInv'
<1>1. MtaPart'
  BY BeforeDecision
<1>2. SlotsPart'
  BY DEF CountIInv, SlotsPart
<1>3. RawPart'
  BY DEF CountIInv, RawPart
<1> QED
  BY <1>1, <1>2, <1>3 DEF CountIInv

\* A plan starts with the headers as they were.
LEMMA ReplayStart ==
  ASSUME NEW s, s.headers \in Seq(Fields), NEW ms, NEW a, NEW T, NEW new, NEW cut, NEW c,
         Plan(s, ms, a, T, new, cut, c)
  PROVE  Replayed(s.headers, s.headers, 0, a, T, new, cut, c)
<1>1. PICK N : N = Len(s.headers)
  OBVIOUS
<1>2. PICK d : d = Cardinality(T)
  OBVIOUS
<1>3. N \in Nat /\ d \in Nat /\ a \in Nat /\ c \in Nat /\ T \subseteq 1 .. N
  BY <1>1, <1>2, PlanParts
<1>4. ~(0 > a)
  BY <1>3
<1>5. ASSUME 0 >= a + d PROVE /\ N <= Cardinality(1 .. N \ cut) + c
                              /\ N <= Cardinality(1 .. N \ cut) + (0 - (a + d))
  <2>1. a = 0 /\ d = 0
    BY <1>3, <1>5
  <2>2. T = {}
    BY <1>2, <1>3, <2>1, AscendingPart, FS_EmptySet
  <2>3. 1 .. N \ cut = 1 .. N
    BY <2>2 DEF Plan
  <2>4. Cardinality(1 .. N) = N
    <3>1. 1 \in Int /\ N \in Int
      BY <1>3
    <3>2. Cardinality(1 .. N) = IF 1 > N THEN 0 ELSE N - 1 + 1
      BY <3>1, FS_Interval
    <3> QED
      BY <1>3, <3>2
  <2>5. Cardinality(1 .. N \ cut) = N
    BY <2>3, <2>4
  <2> QED
    BY <1>3, <2>1, <2>5
<1> QED
  BY <1>1, <1>2, <1>4, <1>5 DEF Replayed

\* Decide.
LEMMA CountDecide ==
  ASSUME TranslateIInv, CountIInv, Decide
  PROVE  CountIInv'
<1>1. /\ Operating /\ (hasRaw => raw.ok) /\ phase' = "mta"
      /\ UNCHANGED <<session, hasRaw, edits, raw, applied, mta>>
  BY DEF Decide, Complete
<1>2. SlotsPart'
  BY <1>1 DEF CountIInv, SlotsPart
<1>3. RawPart'
  BY <1>1 DEF CountIInv, RawPart
<1>4. SessionOK(session) /\ EditsOK(session, edits) /\ SlotsInv(session, edits)
  BY SessionsOK DEF TranslateIInv, ProgressInv, CountIInv, SlotsPart
<1>5. PICK r \in Seq(Mods) : r = raw.mods
  BY DEF TranslateIInv, RawInv
<1>6. NoRecipients(r) /\ (r = <<>> \/ (NoHeaderEdits(edits) /\ PlannedFrom(session, r, 0)))
  <2>1. CASE hasRaw
    BY <1>1, <1>5, <2>1 DEF CountIInv, RawPart, SlotsPart
  <2>2. CASE ~hasRaw
    <3>1. r = <<>>
      BY <1>5, <2>2 DEF CountIInv, RawPart, NoRaw
    <3> QED
      BY <1>5, <3>1 DEF CountIInv, RawPart
  <2> QED
    BY <2>1, <2>2
<1>7. PICK q : q = IF action = "quarantine" THEN <<Modify("Quarantine", <<>>, <<>>, 0)>> ELSE <<>>
  OBVIOUS
<1>8. Others(q) /\ NoRecipients(q)
  <2>1. <<>> \in Seq(Chars)
    OBVIOUS
  <2>2. PICK m \in Mods : m = Modify("Quarantine", <<>>, <<>>, 0)
    <3>1. Modify("Quarantine", <<>>, <<>>, 0) \in Mods
      BY <2>1 DEF Modify, Mods, OtherKinds
    <3> QED
      BY <3>1
  <2>3. m.kind = "Quarantine"
    BY <2>2 DEF Modify
  <2>4. CASE q = <<>>
    BY <2>4 DEF Others, NoRecipients
  <2>5. CASE q = <<m>>
    <3>1. q \in Seq(Mods) /\ Len(q) = 1 /\ q[1] = m
      BY <2>5
    <3>2. \A k \in 1 .. Len(q) : q[k].kind = "Quarantine"
      BY <2>3, <3>1
    <3> QED
      BY <3>1, <3>2 DEF Others, NoRecipients, OtherKinds
  <2> QED
    BY <1>7, <2>2, <2>4, <2>5
<1>9. mods' = Modifications(session, edits) \o r \o q
  BY <1>5, <1>7 DEF Decide, AllEdits
<1>10. /\ \E a \in Nat : PlannedFrom(session, mods', a)
       /\ EnvelopeInv(session, edits, mods')
  <2>1. /\ \E a \in Nat : PlannedFrom(session, Modifications(session, edits) \o r \o q, a)
        /\ EnvelopeInv(session, edits, Modifications(session, edits) \o r \o q)
    BY <1>4, <1>6, <1>8, DecisionPlan
  <2> QED
    BY <1>9, <2>1
<1>11. PICK a, T, new, cut, c : Plan(session, mods', a, T, new, cut, c) /\ Fits(session, cut, c)
  BY <1>10 DEF PlannedFrom
<1>12. applied' = 0 /\ mta'.headers = session.headers /\ mta'.to = ToSet(session.to)
  BY <1>1 DEF TranslateIInv, DecisionInv, CountIInv, MtaPart
<1>13. Replayed(session.headers, mta'.headers, applied', a, T, new, cut, c)
  <2>1. session.headers \in Seq(Fields)
    BY <1>4 DEF SessionOK
  <2>2. Replayed(session.headers, session.headers, 0, a, T, new, cut, c)
    BY <1>11, <2>1, ReplayStart
  <2> QED
    BY <1>12, <2>2
<1>14. RecipientsInv(session, mods', applied', mta'.to)
  <2>1. \A x \in ToSet(session.to) : \E i \in 1 .. Len(session.to) : session.to[i] = x
    <3>1. session.to \in Seq(Addresses)
      BY <1>4 DEF SessionOK
    <3>2. DOMAIN session.to = 1 .. Len(session.to)
      BY <3>1
    <3> QED
      BY <3>2 DEF ToSet
  <2>2. 1 .. 0 = {}
    OBVIOUS
  <2> QED
    BY <1>12, <2>1, <2>2 DEF RecipientsInv
<1>15. Applying(session, edits, mods', mta', applied')
  BY <1>10, <1>11, <1>13, <1>14 DEF Applying
<1>16. MtaPart'
  <2>1. ~Operating'
    BY <1>1 DEF Operating
  <2> QED
    BY <1>1, <1>15, <2>1 DEF MtaPart
<1> QED
  BY <1>2, <1>3, <1>16 DEF CountIInv

\* MtaApplies and MtaDone.
LEMMA CountMta ==
  ASSUME TranslateIInv, CountIInv, MtaApplies \/ MtaDone
  PROVE  CountIInv'
<1>1. CASE MtaApplies
  <2>1. /\ phase = "mta" /\ phase' = "mta" /\ applied < Len(mods) /\ applied' = applied + 1
        /\ mta' = WithModification(mods[applied + 1], mta)
        /\ UNCHANGED <<session, hasRaw, edits, raw>> /\ mods' = mods
    BY <1>1 DEF MtaApplies, decision
  <2>2. SlotsPart'
    BY <2>1 DEF CountIInv, SlotsPart
  <2>3. RawPart'
    BY <2>1 DEF CountIInv, RawPart
  <2>4. PICK s : s = session
    OBVIOUS
  <2>5. s.headers \in Seq(Fields)
    BY <2>4, SessionsOK DEF TranslateIInv, ProgressInv, SessionOK
  <2>6. PICK ms \in Seq(Mods) : ms = mods
    BY DEF TranslateIInv, DecisionInv
  <2>7. PICK n \in 0 .. (Len(ms) - 1) : n = applied
    <3>1. applied \in 0 .. Len(ms) /\ Len(ms) \in Nat
      BY <2>6 DEF TranslateIInv, DecisionInv
    <3>2. applied < Len(ms)
      BY <2>1, <2>6
    <3>3. applied \in 0 .. (Len(ms) - 1)
      BY <3>1, <3>2
    <3> QED
      BY <3>3
  <2>8. PICK t : t = mta
    OBVIOUS
  <2>9. "headers" \in DOMAIN t /\ "to" \in DOMAIN t
    BY <2>8 DEF TranslateIInv, DecisionInv
  <2>10. Applying(s, edits, ms, t, n)
    BY <2>1, <2>4, <2>6, <2>7, <2>8 DEF CountIInv, MtaPart
  <2>11. PICK a, T, new, cut, c : /\ Plan(s, ms, a, T, new, cut, c) /\ Fits(s, cut, c)
                                  /\ Replayed(s.headers, t.headers, n, a, T, new, cut, c)
    BY <2>10 DEF Applying
  <2>12. Replayed(s.headers, WithModification(ms[n + 1], t).headers, n + 1, a, T, new, cut, c)
    BY <2>4, <2>5, <2>9, <2>11, ReplayStep
  <2>13. RecipientsInv(s, ms, n + 1, WithModification(ms[n + 1], t).to)
    <3>1. RecipientsInv(s, ms, n, t.to)
      BY <2>10 DEF Applying
    <3> QED
      BY <2>9, <3>1, RecipientsStep
  <2>14. Applying(s, edits, ms, WithModification(ms[n + 1], t), n + 1)
    BY <2>10, <2>11, <2>12, <2>13 DEF Applying
  <2>15. Applying(session', edits', mods', mta', applied')
    BY <2>1, <2>4, <2>6, <2>7, <2>8, <2>14
  <2>16. MtaPart'
    <3>1. ~Operating'
      BY <2>1 DEF Operating
    <3> QED
      BY <2>1, <2>15, <3>1 DEF MtaPart
  <2> QED
    BY <2>2, <2>3, <2>16 DEF CountIInv
<1>2. CASE MtaDone
  <2>1. /\ phase = "mta" /\ phase' \in {"done", "dropped"}
        /\ phase' = "done" => applied = Len(mods)
        /\ UNCHANGED <<session, hasRaw, edits, raw, applied, mta>> /\ mods' = mods
    BY <1>2 DEF MtaDone, decision
  <2>2. SlotsPart'
    BY <2>1 DEF CountIInv, SlotsPart
  <2>3. RawPart'
    BY <2>1 DEF CountIInv, RawPart
  <2>4. Applying(session', edits', mods', mta', applied')
    BY <2>1 DEF CountIInv, MtaPart
  <2>5. MtaPart'
    <3>1. ~Operating'
      BY <2>1 DEF Operating
    <3> QED
      BY <2>1, <2>4, <3>1 DEF MtaPart
  <2> QED
    BY <2>2, <2>3, <2>5 DEF CountIInv
<1> QED
  BY <1>1, <1>2

\* The list of slots that an answer starts with has one for every original entry.
LEMMA FirstSlots ==
  ASSUME NEW T, NEW l \in Seq(T), NEW h, h = [i \in DOMAIN l |-> Original(i)]
  PROVE  Len(h) = Len(l) /\ \A i \in 1 .. Len(l) : Original(i) \in ToSet(h)
<1>1. PICK n \in Nat : n = Len(l) /\ DOMAIN l = 1 .. n
  OBVIOUS
<1>2. h = [i \in 1 .. n |-> Original(i)] /\ DOMAIN h = 1 .. n
  BY <1>1
<1>3. PICK E : h \in Seq(E)
  <2>1. PICK E : E = {Original(i) : i \in 1 .. n}
    OBVIOUS
  <2>2. h \in [1 .. n -> E]
    BY <1>2, <2>1
  <2>3. h \in Seq(E)
    BY <2>2, SeqDef
  <2> QED
    BY <2>3
<1>4. Len(h) = n
  BY <1>1, <1>2, <1>3
<1>5. ASSUME NEW i \in 1 .. n PROVE Original(i) \in ToSet(h)
  BY <1>2, <1>5 DEF ToSet
<1> QED
  BY <1>1, <1>4, <1>5

\* The first state.
LEMMA CountInit ==
  ASSUME TranslateInit
  PROVE  CountIInv
<1>1. session \in Sessions /\ SessionOK(session)
  BY SessionsOK DEF TranslateInit
<1>2. PICK h : h = [i \in DOMAIN session.headers |-> Original(i)]
  OBVIOUS
<1>3. PICK t : t = [i \in DOMAIN session.to |-> Original(i)]
  OBVIOUS
<1>4. edits = [changes |-> <<>>, deletes |-> <<>>, added |-> <<>>, headers |-> h,
               from |-> Unset, toDeletes |-> <<>>, toAdded |-> <<>>, to |-> t]
  BY <1>2, <1>3 DEF TranslateInit, NewEdits
<1>5. /\ edits.headers = h /\ edits.to = t /\ edits.toAdded = <<>>
      /\ edits.changes = <<>> /\ edits.deletes = <<>> /\ edits.added = <<>>
  BY <1>4
<1>6. /\ Len(h) = Len(session.headers)
      /\ \A i \in 1 .. Len(session.headers) : Original(i) \in ToSet(h)
  <2>1. session.headers \in Seq(Fields)
    BY <1>1 DEF SessionOK
  <2> QED
    BY <1>2, <2>1, FirstSlots
<1>7. Len(t) = Len(session.to) /\ \A i \in 1 .. Len(session.to) : Original(i) \in ToSet(t)
  <2>1. session.to \in Seq(Addresses)
    BY <1>1 DEF SessionOK
  <2> QED
    BY <1>3, <2>1, FirstSlots
<1>8. Len(session.headers) <= MaxHeaders /\ Len(session.to) <= MaxRecipients
  BY <1>1, TranslationAssumption
<1>9. Len(h) <= MaxHeaders /\ Len(t) <= MaxRecipients
  BY <1>6, <1>7, <1>8
<1>10. 1 .. Len(edits.toAdded) = {}
  <2>1. Len(edits.toAdded) = 0
    BY <1>5
  <2> QED
    BY <2>1
<1>11. SlotsInv(session, edits)
  BY <1>5, <1>6, <1>7, <1>9, <1>10 DEF SlotsInv
<1>12. SlotsPart
  BY <1>5, <1>11 DEF SlotsPart, NoHeaderEdits
<1>13. raw = NoRaw /\ raw.ok = FALSE /\ raw.mods = <<>>
  BY DEF TranslateInit, NoRaw
<1>14. NoRecipients(raw.mods)
  <2>1. Len(raw.mods) = 0
    BY <1>13
  <2>2. 1 .. Len(raw.mods) = {}
    BY <2>1
  <2> QED
    BY <2>2 DEF NoRecipients
<1>15. RawPart
  BY <1>13, <1>14 DEF RawPart
<1>16. MtaPart
  <2>1. mta.headers = session.headers /\ mta.to = ToSet(session.to) /\ phase = "set"
    BY DEF TranslateInit
  <2> QED
    BY <2>1 DEF MtaPart
<1> QED
  BY <1>12, <1>15, <1>16 DEF CountIInv

\* Every step keeps the invariant.
LEMMA CountStep ==
  ASSUME TranslateIInv, CountIInv, [TranslateNext]_translateVars
  PROVE  CountIInv'
<1>1. CASE \/ \E i \in 0 .. MaxHeaders, v \in NewValues : SetHeader(i, v)
           \/ \E a \in NewAddresses : SetFrom(a)
  BY <1>1, CountSet
<1>2. ASSUME NEW i \in -1 .. MaxHeaders, NEW h \in Headers, AddHeader(i, h) PROVE CountIInv'
  BY <1>2, CountAddHeader
<1>3. ASSUME NEW i \in -1 .. MaxRecipients, NEW a \in NewAddresses, AddTo(i, a) PROVE CountIInv'
  BY <1>3, CountAddTo
<1>4. ASSUME NEW i \in 0 .. MaxHeaders, DeleteHeader(i) PROVE CountIInv'
  BY <1>4, CountDeleteHeader
<1>5. ASSUME NEW i \in 0 .. MaxRecipients, DeleteTo(i) PROVE CountIInv'
  BY <1>5, CountDeleteTo
<1>6. ASSUME NEW list \in {"set", "add", "delete"}, Ignore(list) PROVE CountIInv'
  <2>1. InList(list) /\ Edit([kind |-> "ignored"], edits)
    BY <1>6 DEF Ignore
  <2>2. SlotsInv(session, edits) /\ (hasRaw => NoHeaderEdits(edits))
    BY DEF CountIInv, SlotsPart
  <2> QED
    BY <2>1, <2>2, CountEdit
<1>7. CASE \/ \E r \in Replacements \cup {Echo} : SetRaw(r)
           \/ \E text \in BadReplacements : SetBadRaw(text)
  BY <1>7, CountRaw
<1>8. CASE \/ \E a \in Actions : SetAction(a)
           \/ \E v \in Answers : SetResponse(v)
           \/ \E good \in BOOLEAN : SetResponseField(good)
  <2>1. InList("set") /\ UNCHANGED <<session, hasRaw, edits, raw, mta>>
    BY <1>8 DEF SetAction, SetResponse, SetResponseField
  <2>2. Operating /\ phase' \in {"set", "add", "delete"}
    BY <2>1, InListOK DEF TranslateIInv
  <2> QED
    BY <2>1, <2>2, CountKept
<1>9. CASE RefuseOperation \/ RefuseDecision
  <2>1. Operating /\ phase' = "refused" /\ UNCHANGED <<session, hasRaw, edits, raw, mta>>
    BY <1>9 DEF RefuseOperation, RefuseDecision, Complete, Refused
  <2> QED
    BY <2>1, CountKept
<1>10. CASE Decide
  BY <1>10, CountDecide
<1>11. CASE MtaApplies \/ MtaDone
  BY <1>11, CountMta
<1>12. CASE UNCHANGED translateVars
  BY <1>12 DEF translateVars, decision, CountIInv, SlotsPart, RawPart, MtaPart, Operating
<1> QED
  BY <1>1, <1>2, <1>3, <1>4, <1>5, <1>6, <1>7, <1>8, <1>9, <1>10, <1>11, <1>12 DEF TranslateNext

\* The inductive invariant: no slot is lost or made over the limits, a replacement's
\* modifications and a decision's are plans within the limit, and the MTA is where the
\* plan says it is after the modifications it has applied.
THEOREM CountInvariant == TranslateSpec => []CountIInv
<1>1. TranslateInit => CountIInv
  BY CountInit
<1>2. TranslateIInv /\ CountIInv /\ [TranslateNext]_translateVars => CountIInv'
  BY CountStep
<1> QED
  BY <1>1, <1>2, TranslateInvariant, PTL DEF TranslateSpec

\* README: "Header and recipient counts after hook edits are held to the same limits", for
\* every session, every answer and every limit: the MTA never ends with more headers or
\* recipients than the limits allow, whichever headers and recipients were added, changed,
\* deleted or replaced.
THEOREM CountsAreHeld == TranslateSpec => []CountsHeld
<1>1. ASSUME TranslateIInv, CountIInv PROVE CountsHeld
  <2>1. SUFFICES ASSUME phase = "done"
                 PROVE  Len(mta.headers) <= MaxHeaders /\ Cardinality(mta.to) <= MaxRecipients
    BY DEF CountsHeld
  <2>2. PICK s : s = session
    OBVIOUS
  <2>3. SessionOK(s) /\ EditsOK(s, edits) /\ SlotsInv(s, edits)
    BY <1>1, <2>2, SessionsOK DEF TranslateIInv, ProgressInv, CountIInv, SlotsPart
  <2>4. s.headers \in Seq(Fields)
    BY <2>3 DEF SessionOK
  <2>5. PICK ms : ms = mods
    OBVIOUS
  <2>6. PICK now : now = mta.headers
    OBVIOUS
  <2>7. PICK n : n = Len(ms)
    OBVIOUS
  <2>8. Applying(s, edits, ms, mta, n)
    BY <1>1, <2>1, <2>2, <2>5, <2>7 DEF CountIInv, MtaPart
  <2>9. EnvelopeInv(s, edits, ms) /\ RecipientsInv(s, ms, Len(ms), mta.to)
    BY <2>7, <2>8 DEF Applying
  <2>10. Cardinality(mta.to) <= MaxRecipients
    BY <2>3, <2>9, RecipientsFit
  <2>11. PICK a, T, new, cut, c : /\ Plan(s, ms, a, T, new, cut, c) /\ Fits(s, cut, c)
                                  /\ Replayed(s.headers, now, n, a, T, new, cut, c)
    BY <2>6, <2>8 DEF Applying
  <2>12. PICK N : N = Len(s.headers)
    OBVIOUS
  <2>13. PICK d : d = Cardinality(T)
    OBVIOUS
  <2>14. N \in Nat /\ d \in Nat /\ n \in Nat /\ a \in Nat /\ c \in Nat /\ a + d + c <= n
    BY <2>4, <2>7, <2>11, <2>12, <2>13, PlanParts
  <2>15. PICK L : L = Cardinality(1 .. N \ cut)
    OBVIOUS
  <2>16. L \in Nat
    <3>1. 1 .. N \ cut \subseteq 1 .. N
      OBVIOUS
    <3> QED
      BY <2>14, <2>15, <3>1, AscendingPart
  <2>17. n >= a + d
    BY <2>14
  <2>18. now \in Seq(Fields) /\ Len(now) <= L + c
    BY <2>11, <2>12, <2>13, <2>15, <2>17 DEF Replayed
  <2>19. L + c <= MaxHeaders
    BY <2>11, <2>12, <2>15 DEF Fits
  <2>20. MaxHeaders \in Nat /\ Len(now) \in Nat
    BY <2>18, TranslationAssumption
  <2>21. Len(now) <= MaxHeaders
    BY <2>14, <2>16, <2>18, <2>19, <2>20
  <2> QED
    BY <2>6, <2>10, <2>21
<1> QED
  BY <1>1, TranslateInvariant, CountInvariant, PTL
=============================================================================
