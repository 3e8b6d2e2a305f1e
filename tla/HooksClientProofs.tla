------------------------- MODULE HooksClientProofs -------------------------
(***************************************************************************)
(* Proofs about HooksClient, for any set of concurrent invocations, any    *)
(* number of retries, registrations and scanner restarts.  HooksIInv is    *)
(* the inductive invariant: the mutex, the gauges, the registrations and   *)
(* the accounting of their causes, each of which needs the ones before.    *)
(***************************************************************************)
EXTENDS HooksClient, FiniteSetTheorems, SequenceTheorems, TLAPS

\* The queue of the mutex holds, once each, the invocations that wait and do not hold
\* it.
LockShape ==
  /\ holder = Nobody => queue = <<>>
  /\ \A p \in Invocations :
       /\ pc[p] \in Holding => holder = p
       /\ holder = p => pc[p] \in Holding \cup Waiting
       /\ pc[p] \in Waiting => holder = p \/ \E i \in 1 .. Len(queue) : queue[i] = p
  /\ \A i \in 1 .. Len(queue) : pc[queue[i]] \in Waiting /\ queue[i] # holder
  /\ \A i, j \in 1 .. Len(queue) : queue[i] = queue[j] => i = j

\* Who has a registration: from obtaining one until it ends, an invocation works with an
\* id the scanner has issued; one that asked for recovery was refused that very id, and
\* from then on the cache does not hold it.
Obtained == {"request", "hook", "backoff", "wantClear", "clear", "relock"}
RegistrationUse ==
  /\ cached.id <= issued
  /\ \A p \in Invocations :
       /\ reg[p] <= issued
       /\ pc[p] \in Obtained \/ recovered[p] => reg[p] # 0
       /\ pc[p] = "idle" => ~recovered[p]
       /\ pc[p] \in {"wantClear", "clear"} => reg[p] \in refused /\ recovered[p]
       /\ pc[p] \in {"relock", "want", "check", "registering"} /\ recovered[p] => cached.id # reg[p]

\* Each post is paid for by a retry, by the recovery or by being the one under way.
AttemptsPaid ==
  \A p \in Invocations :
    attempts[p] <= retries[p] + (IF recovered[p] THEN 1 ELSE 0) + (IF pc[p] = "hook" THEN 1 ELSE 0)

\* One registration more than there were causes only while the cached one is usable and
\* known to the scanner; whoever registers has found it unusable and holds the mutex.
CausesPaid ==
  /\ phase # "up" => \A p \in Invocations : pc[p] = "idle"
  /\ known \subseteq 1 .. issued /\ refused \subseteq 1 .. issued
  /\ refused \cap known = {}
  /\ \A p \in Invocations : pc[p] = "registering" => ~Usable(cached)
  /\ phase = "starting" => cached = NoRegistration
  /\ phase \in {"starting", "up", "closing"} =>
       issued <= causes + (IF Usable(cached) /\ cached.id \in known THEN 1 ELSE 0)
  /\ NoRegistrationHerd

HooksIInv ==
  /\ HooksTypeOK
  /\ LockShape
  /\ GaugesBalance
  /\ RequestMatchesRegistration
  /\ RegistrationUse
  /\ AttemptsPaid
  /\ CausesPaid
-----------------------------------------------------------------------------
(* The mutex. *)

MutexTypeOK == holder \in Invocations \cup {Nobody} /\ queue \in Seq(Invocations)
InLock == Holding \cup Waiting

\* Asking for the mutex: whoever finds it free holds it, anyone else is queued last
\* (registration_lock).
LEMMA LockAsked ==
  ASSUME MutexTypeOK, pc \in [Invocations -> Places], LockShape,
         NEW p \in Invocations, pc[p] \notin InLock, Lock(p),
         NEW a \in Holding, NEW b \in Waiting,
         pc' = [pc EXCEPT ![p] = IF holder = Nobody THEN a ELSE b]
  PROVE  MutexTypeOK' /\ LockShape'
<1>1. Holding \cap Waiting = {}
  BY DEF Holding, Waiting
<1>2. CASE holder = Nobody
  <2>1. queue = <<>> /\ queue' = <<>> /\ holder' = p
    BY <1>2 DEF LockShape, Lock
  <2>2. \A q \in Invocations : q # p => pc[q] \notin InLock
    BY <1>2, <2>1, ClientAssumption DEF LockShape, InLock
  <2> QED
    BY <1>1, <1>2, <2>1, <2>2, ClientAssumption DEF LockShape, MutexTypeOK, InLock
<1>3. CASE holder # Nobody
  <2>1. holder' = holder /\ queue' = Append(queue, p) /\ holder # p
    BY <1>3 DEF LockShape, Lock, InLock
  <2>2. /\ queue' \in Seq(Invocations) /\ Len(queue') = Len(queue) + 1
        /\ \A i \in 1 .. Len(queue) : queue'[i] = queue[i]
        /\ queue'[Len(queue) + 1] = p
    BY <2>1, AppendProperties DEF MutexTypeOK
  <2>3. \A i \in 1 .. Len(queue) : queue[i] # p
    BY DEF LockShape, InLock
  <2>4. pc'[p] = b /\ \A q \in Invocations : q # p => pc'[q] = pc[q]
    BY <1>3
  <2>5. Len(queue) \in Nat /\ \A i \in 1 .. Len(queue) : queue[i] \in Invocations
    BY LenProperties, ElementOfSeq DEF MutexTypeOK
  <2>6. \A i \in 1 .. Len(queue') : pc'[queue'[i]] \in Waiting /\ queue'[i] # holder'
    BY <2>1, <2>2, <2>3, <2>4, <2>5 DEF LockShape
  <2>7. \A i, j \in 1 .. Len(queue') : queue'[i] = queue'[j] => i = j
    BY <2>2, <2>3, <2>5 DEF LockShape
  <2>8. \A q \in Invocations :
          /\ pc'[q] \in Holding => holder' = q
          /\ holder' = q => pc'[q] \in Holding \cup Waiting
          /\ pc'[q] \in Waiting => holder' = q \/ \E i \in 1 .. Len(queue') : queue'[i] = q
    <3> SUFFICES ASSUME NEW q \in Invocations
                 PROVE  /\ pc'[q] \in Holding => holder' = q
                        /\ holder' = q => pc'[q] \in Holding \cup Waiting
                        /\ pc'[q] \in Waiting =>
                             holder' = q \/ \E i \in 1 .. Len(queue') : queue'[i] = q
      OBVIOUS
    <3>1. CASE q = p
      BY <1>1, <2>1, <2>2, <2>4, <2>5, <3>1
    <3>2. CASE q # p
      BY <2>1, <2>2, <2>4, <2>5, <3>2 DEF LockShape
    <3> QED
      BY <3>1, <3>2
  <2> QED
    BY <1>3, <2>1, <2>2, <2>6, <2>7, <2>8 DEF LockShape, MutexTypeOK
<1> QED
  BY <1>2, <1>3

\* Giving the mutex up hands it to the first in the queue.
LEMMA LockReleased ==
  ASSUME MutexTypeOK, pc \in [Invocations -> Places], LockShape,
         NEW p \in Invocations, holder = p, Release,
         NEW a, a \notin InLock, pc' = [pc EXCEPT ![p] = a]
  PROVE  MutexTypeOK' /\ LockShape'
<1>1. /\ Holding \cap Waiting = {}
      /\ pc'[p] = a /\ \A q \in Invocations : q # p => pc'[q] = pc[q]
  BY DEF Holding, Waiting
<1>2. Len(queue) \in Nat /\ \A i \in 1 .. Len(queue) : queue[i] \in Invocations
  BY LenProperties, ElementOfSeq DEF MutexTypeOK
<1>3. \A i \in 1 .. Len(queue) : queue[i] # p
  BY DEF LockShape
<1>4. CASE queue = <<>>
  <2>1. queue' = <<>> /\ holder' = Nobody
    BY <1>4 DEF Release
  <2>2. Len(<<>>) = 0 /\ \A q \in Invocations : q # p => pc[q] \notin InLock
    BY <1>4 DEF LockShape, InLock
  <2> QED
    BY <1>1, <1>4, <2>1, <2>2, ClientAssumption DEF LockShape, MutexTypeOK, InLock
<1>5. CASE queue # <<>>
  <2>1. holder' = Head(queue) /\ queue' = Tail(queue)
    BY <1>5 DEF Release
  <2>2. /\ Len(queue) >= 1 /\ Head(queue) = queue[1]
        /\ queue' \in Seq(Invocations) /\ Len(queue') = Len(queue) - 1
        /\ \A i \in 1 .. Len(queue') : queue'[i] = queue[i + 1]
    BY <1>2, <1>5, <2>1, HeadTailProperties, EmptySeq DEF MutexTypeOK
  <2>3. holder' \in Invocations /\ holder' # p /\ pc'[holder'] \in Waiting
    BY <1>1, <1>2, <1>3, <2>1, <2>2 DEF LockShape
  <2>4. \A i \in 1 .. Len(queue') : pc'[queue'[i]] \in Waiting /\ queue'[i] # holder'
    BY <1>1, <1>2, <1>3, <2>1, <2>2 DEF LockShape
  <2>5. \A i, j \in 1 .. Len(queue') : queue'[i] = queue'[j] => i = j
    BY <1>2, <2>2 DEF LockShape
  <2>6. ASSUME NEW q \in Invocations, pc'[q] \in Waiting
        PROVE  holder' = q \/ \E i \in 1 .. Len(queue') : queue'[i] = q
    <3>1. q # p /\ pc[q] \in Waiting
      BY <1>1, <2>6 DEF InLock
    <3>2. PICK i \in 1 .. Len(queue) : queue[i] = q
      BY <3>1 DEF LockShape
    <3>3. CASE i = 1
      BY <2>1, <2>2, <3>2, <3>3
    <3>4. CASE i # 1
      <4>1. i - 1 \in 1 .. Len(queue') /\ queue'[i - 1] = queue[i]
        BY <1>2, <2>2, <3>4
      <4> QED
        BY <3>2, <4>1
    <3> QED
      BY <3>3, <3>4
  <2>7. \A q \in Invocations : pc'[q] \notin Holding
    BY <1>1 DEF LockShape, InLock
  <2> QED
    BY <2>2, <2>3, <2>4, <2>5, <2>6, <2>7, ClientAssumption DEF LockShape, MutexTypeOK
<1> QED
  BY <1>4, <1>5

\* A step of an invocation that neither takes nor gives up the mutex or its place in the
\* queue.
LEMMA LockKept ==
  ASSUME MutexTypeOK, pc \in [Invocations -> Places], LockShape, UNCHANGED mutex,
         NEW p \in Invocations, NEW a, pc' = [pc EXCEPT ![p] = a],
         \/ pc[p] \notin InLock /\ a \notin InLock
         \/ holder = p /\ a \in Holding
  PROVE  MutexTypeOK' /\ LockShape'
<1>1. /\ Holding \cap Waiting = {} /\ holder' = holder /\ queue' = queue
      /\ pc'[p] = a /\ \A q \in Invocations : q # p => pc'[q] = pc[q]
  BY DEF Holding, Waiting, mutex
<1>2. \A i \in 1 .. Len(queue) : queue[i] \in Invocations /\ queue[i] # p
  BY LenProperties, ElementOfSeq DEF MutexTypeOK, LockShape, InLock
<1> QED
  BY <1>1, <1>2 DEF LockShape, MutexTypeOK, InLock

\* A future that is dropped while it waits gives up its place, and one that neither waits
\* nor holds leaves the queue as it is (Cancel).
LEMMA LockLeft ==
  ASSUME MutexTypeOK, pc \in [Invocations -> Places], LockShape,
         NEW p \in Invocations, holder # p, queue' = Without(p), holder' = holder,
         NEW a, a \notin InLock, pc' = [pc EXCEPT ![p] = a]
  PROVE  MutexTypeOK' /\ LockShape'
<1>1. /\ Holding \cap Waiting = {}
      /\ pc'[p] = a /\ \A q \in Invocations : q # p => pc'[q] = pc[q]
  BY DEF Holding, Waiting
<1>2. Len(queue) \in Nat /\ \A i \in 1 .. Len(queue) : queue[i] \in Invocations
  BY LenProperties, ElementOfSeq DEF MutexTypeOK
<1>3. CASE ~ \E i \in 1 .. Len(queue) : queue[i] = p
  <2>1. queue' = queue
    BY <1>3 DEF Without
  <2> QED
    BY <1>1, <1>2, <1>3, <2>1 DEF LockShape, MutexTypeOK, InLock
<1>4. CASE \E i \in 1 .. Len(queue) : queue[i] = p
  <2> DEFINE k == CHOOSE i \in 1 .. Len(queue) : queue[i] = p
  <2>1. k \in 1 .. Len(queue) /\ queue[k] = p
    BY <1>4
  <2>2. queue' = SubSeq(queue, 1, k - 1) \o SubSeq(queue, k + 1, Len(queue))
    BY <1>4 DEF Without
  <2> HIDE DEF k
  <2>3. /\ SubSeq(queue, 1, k - 1) \in Seq(Invocations)
        /\ Len(SubSeq(queue, 1, k - 1)) = k - 1
        /\ \A i \in 1 .. k - 1 : SubSeq(queue, 1, k - 1)[i] = queue[i]
    <3>1. \A i \in 1 .. k - 1 : queue[i] \in Invocations
      BY <1>2, <2>1
    <3>2. k \in Int /\ k - 1 \in Int /\ 1 \in Int /\ k - 1 >= 0
      BY <1>2, <2>1
    <3> QED
      BY <3>1, <3>2, SubSeqProperties
  <2>4. /\ SubSeq(queue, k + 1, Len(queue)) \in Seq(Invocations)
        /\ Len(SubSeq(queue, k + 1, Len(queue))) = Len(queue) - k
        /\ \A i \in 1 .. Len(queue) - k : SubSeq(queue, k + 1, Len(queue))[i] = queue[k + i]
    <3>1. \A i \in k + 1 .. Len(queue) : queue[i] \in Invocations
      BY <1>2, <2>1
    <3>2. k + 1 \in Int /\ Len(queue) \in Int /\ k <= Len(queue)
      BY <1>2, <2>1
    <3>3. /\ SubSeq(queue, k + 1, Len(queue)) \in Seq(Invocations)
          /\ Len(SubSeq(queue, k + 1, Len(queue))) =
               IF k + 1 <= Len(queue) THEN Len(queue) - (k + 1) + 1 ELSE 0
          /\ \A i \in 1 .. Len(queue) - (k + 1) + 1 :
               SubSeq(queue, k + 1, Len(queue))[i] = queue[(k + 1) + i - 1]
      BY <3>1, <3>2, SubSeqProperties
    <3> QED
      BY <1>2, <2>1, <3>3
  <2>5. /\ queue' \in Seq(Invocations) /\ Len(queue') = Len(queue) - 1
        /\ \A i \in 1 .. Len(queue) - 1 :
             queue'[i] = IF i <= k - 1 THEN queue[i] ELSE queue[i + 1]
    <3> DEFINE s1 == SubSeq(queue, 1, k - 1)
               s2 == SubSeq(queue, k + 1, Len(queue))
    <3>1. /\ s1 \o s2 \in Seq(Invocations) /\ Len(s1 \o s2) = Len(s1) + Len(s2)
          /\ \A i \in 1 .. Len(s1) + Len(s2) :
               (s1 \o s2)[i] = IF i <= Len(s1) THEN s1[i] ELSE s2[i - Len(s1)]
      BY <2>3, <2>4, ConcatProperties
    <3>2. queue' = s1 \o s2 /\ Len(s1) = k - 1 /\ Len(s2) = Len(queue) - k
      BY <2>2, <2>3, <2>4
    <3>3. \A i \in 1 .. k - 1 : s1[i] = queue[i]
      BY <2>3
    <3>4. \A i \in 1 .. Len(queue) - k : s2[i] = queue[k + i]
      BY <2>4
    <3> HIDE DEF s1, s2
    <3>5. queue' \in Seq(Invocations) /\ Len(queue') = Len(queue) - 1
      BY <1>2, <2>1, <3>1, <3>2
    <3>6. ASSUME NEW i \in 1 .. Len(queue) - 1
          PROVE  queue'[i] = IF i <= k - 1 THEN queue[i] ELSE queue[i + 1]
      <4>1. queue'[i] = IF i <= k - 1 THEN s1[i] ELSE s2[i - (k - 1)]
        <5>1. i \in 1 .. Len(s1) + Len(s2)
          BY <1>2, <2>1, <3>2
        <5>2. (s1 \o s2)[i] = IF i <= Len(s1) THEN s1[i] ELSE s2[i - Len(s1)]
          BY <3>1, <5>1
        <5> QED
          BY <3>2, <5>2
      <4>2. i > k - 1 => i - (k - 1) \in 1 .. Len(queue) - k /\ k + (i - (k - 1)) = i + 1
        BY <1>2, <2>1
      <4>3. CASE i <= k - 1
        BY <1>2, <2>1, <3>3, <4>1, <4>3
      <4>4. CASE ~(i <= k - 1)
        <5>1. i > k - 1
          BY <1>2, <2>1, <4>4
        <5>2. s2[i - (k - 1)] = queue[k + (i - (k - 1))]
          BY <3>4, <4>2, <5>1
        <5>3. s2[i - (k - 1)] = queue[i + 1]
          BY <4>2, <5>1, <5>2
        <5> QED
          BY <4>1, <4>4, <5>3
      <4> QED
        BY <4>3, <4>4
    <3> QED
      BY <3>5, <3>6
  <2>6. \A i \in 1 .. Len(queue) : queue[i] = p => i = k
    BY <2>1 DEF LockShape
  <2>7. \A i \in 1 .. Len(queue') : \E j \in 1 .. Len(queue) : j # k /\ queue'[i] = queue[j]
    BY <1>2, <2>1, <2>5
  <2>8. \A i \in 1 .. Len(queue') : pc'[queue'[i]] \in Waiting /\ queue'[i] # holder'
    BY <1>1, <1>2, <2>6, <2>7 DEF LockShape
  <2>9. \A i, j \in 1 .. Len(queue') : queue'[i] = queue'[j] => i = j
    BY <1>2, <2>1, <2>5 DEF LockShape
  <2>10. ASSUME NEW q \in Invocations, pc'[q] \in Waiting, holder # q
         PROVE  \E i \in 1 .. Len(queue') : queue'[i] = q
    <3>1. q # p /\ pc[q] \in Waiting
      BY <1>1, <2>10 DEF InLock
    <3>2. PICK i \in 1 .. Len(queue) : queue[i] = q
      BY <2>10, <3>1 DEF LockShape
    <3>3. i # k
      BY <2>1, <3>1, <3>2
    <3>4. CASE i < k
      BY <1>2, <2>1, <2>5, <3>2, <3>4
    <3>5. CASE i > k
      <4>1. i - 1 \in 1 .. Len(queue') /\ queue'[i - 1] = queue[i]
        BY <1>2, <2>1, <2>5, <3>5
      <4> QED
        BY <3>2, <4>1
    <3> QED
      BY <1>2, <2>1, <3>3, <3>4, <3>5
  <2>11. holder # Nobody
    BY <1>4, <1>2 DEF LockShape
  <2> QED
    BY <1>1, <2>5, <2>8, <2>9, <2>10, <2>11 DEF LockShape, MutexTypeOK, InLock
<1> QED
  BY <1>3, <1>4

\* The mutex as the runs state it: queued exactly once.
LEMMA ShapeIsConsistent ==
  ASSUME MutexTypeOK, LockShape
  PROVE  LockConsistent
<1>1. /\ DOMAIN queue = 1 .. Len(queue)
      /\ \A i \in 1 .. Len(queue) : queue[i] \in Invocations
  BY LenProperties, ElementOfSeq DEF MutexTypeOK
<1>2. ASSUME NEW p \in Invocations, pc[p] \in Waiting, holder # p
      PROVE  Cardinality({i \in DOMAIN queue : queue[i] = p}) = 1
  <2>1. PICK k \in 1 .. Len(queue) : queue[k] = p
    BY <1>2 DEF LockShape
  <2>2. {i \in DOMAIN queue : queue[i] = p} = {k}
    BY <1>1, <2>1 DEF LockShape
  <2> QED
    BY <2>2, FS_Singleton
<1>3. \A p \in Invocations : pc[p] \notin Waiting => \A i \in DOMAIN queue : queue[i] # p
  BY <1>1 DEF LockShape
<1> QED
  BY <1>2, <1>3 DEF LockConsistent, LockShape

-----------------------------------------------------------------------------
(* The gauges. *)

Counted(f, op) == {p \in Invocations : op \in Observed(f[p])}

\* What one invocation is observed in before and after a step is what the gauge changes
\* by (Observation::begin, and its drop).
LEMMA CountedStep ==
  ASSUME pc \in [Invocations -> Places], NEW p \in Invocations, NEW a,
         pc' = [pc EXCEPT ![p] = a], NEW op \in Operations
  PROVE  /\ Cardinality(Counted(pc', op)) \in Nat
         /\ Cardinality(Counted(pc', op)) =
              Cardinality(Counted(pc, op)) - (IF op \in Observed(pc[p]) THEN 1 ELSE 0)
                + (IF op \in Observed(a) THEN 1 ELSE 0)
<1> DEFINE rest == Counted(pc, op) \ {p}
<1>1. IsFiniteSet(Counted(pc, op)) /\ IsFiniteSet(rest)
  BY FS_Subset, ClientAssumption DEF Counted
<1>2. /\ Cardinality(Counted(pc, op)) \in Nat /\ Cardinality(rest) \in Nat
      /\ Cardinality(rest) =
           Cardinality(Counted(pc, op)) - (IF op \in Observed(pc[p]) THEN 1 ELSE 0)
  <2>1. p \in Counted(pc, op) <=> op \in Observed(pc[p])
    BY DEF Counted
  <2> QED
    BY <1>1, <2>1, FS_RemoveElement, FS_CardinalityType
<1>3. Counted(pc', op) = IF op \in Observed(a) THEN rest \cup {p} ELSE rest
  <2>1. pc'[p] = a /\ \A q \in Invocations : q # p => pc'[q] = pc[q]
    OBVIOUS
  <2> QED
    BY <2>1 DEF Counted
<1>4. Cardinality(rest \cup {p}) = Cardinality(rest) + 1
  BY <1>1, FS_AddElement
<1> QED
  BY <1>2, <1>3, <1>4

\* The balance survives a step that changes the gauges by what the invocation is observed
\* in before and after.
LEMMA GaugeStep ==
  ASSUME pc \in [Invocations -> Places], gauge \in [Operations -> Nat], GaugesBalance,
         NEW p \in Invocations, NEW a, pc' = [pc EXCEPT ![p] = a],
         gauge' \in [Operations -> Int],
         \A op \in Operations :
           gauge'[op] = gauge[op] - (IF op \in Observed(pc[p]) THEN 1 ELSE 0)
                          + (IF op \in Observed(a) THEN 1 ELSE 0)
  PROVE  GaugesBalance' /\ gauge' \in [Operations -> Nat]
<1>1. \A op \in Operations : gauge[op] = Cardinality(Counted(pc, op))
  BY DEF GaugesBalance, Counted
<1>2. \A op \in Operations : gauge'[op] = Cardinality(Counted(pc', op)) /\ gauge'[op] \in Nat
  <2> SUFFICES ASSUME NEW op \in Operations
               PROVE  gauge'[op] = Cardinality(Counted(pc', op)) /\ gauge'[op] \in Nat
    OBVIOUS
  <2>1. gauge'[op] = gauge[op] - (IF op \in Observed(pc[p]) THEN 1 ELSE 0)
                       + (IF op \in Observed(a) THEN 1 ELSE 0)
    OBVIOUS
  <2>2. /\ Cardinality(Counted(pc', op)) \in Nat
        /\ Cardinality(Counted(pc', op)) =
             Cardinality(Counted(pc, op)) - (IF op \in Observed(pc[p]) THEN 1 ELSE 0)
               + (IF op \in Observed(a) THEN 1 ELSE 0)
    BY CountedStep
  <2> QED
    BY <1>1, <2>1, <2>2
<1>3. \A op \in Operations :
        gauge'[op] = Cardinality({q \in Invocations : op \in Observed(pc'[q])})
  BY <1>2 DEF Counted
<1> QED
  <2>1. GaugesBalance'
    BY <1>3 DEF GaugesBalance
  <2> QED
    BY <1>2, <2>1

\* What each place is observed in.
LEMMA ObservedIn ==
  /\ \A w \in Waiting : Observed(w) = {"registration_wait"}
  /\ Observed("registering") = {"registration"} /\ Observed("hook") = {"hook"}
  /\ \A w \in Places \ (Waiting \cup {"registering", "hook"}) : Observed(w) = {}
BY DEF Observed, Waiting, Places, Awaiting, Holding

\* An observation begins, is dropped, or there is none before and after (Begin, Drop).
LEMMA GaugeMoves ==
  ASSUME pc \in [Invocations -> Places], gauge \in [Operations -> Nat], GaugesBalance,
         NEW p \in Invocations, NEW a, pc' = [pc EXCEPT ![p] = a], NEW op \in Operations,
         \/ Observed(pc[p]) = {} /\ Observed(a) = {} /\ gauge' = gauge
         \/ Observed(pc[p]) = {} /\ Observed(a) = {op} /\ gauge' = Begin(gauge, op)
         \/ Observed(pc[p]) = {op} /\ Observed(a) = {} /\ gauge' = Drop(gauge, op)
  PROVE  GaugesBalance' /\ gauge' \in [Operations -> Nat]
<1>1. CASE Observed(pc[p]) = {} /\ Observed(a) = {} /\ gauge' = gauge
  <2>1. /\ gauge' \in [Operations -> Int]
        /\ \A o \in Operations :
             gauge'[o] = gauge[o] - (IF o \in Observed(pc[p]) THEN 1 ELSE 0)
                           + (IF o \in Observed(a) THEN 1 ELSE 0)
    BY <1>1
  <2> QED
    BY <2>1, GaugeStep
<1>2. CASE Observed(pc[p]) = {} /\ Observed(a) = {op} /\ gauge' = Begin(gauge, op)
  <2>1. /\ gauge' \in [Operations -> Int]
        /\ \A o \in Operations :
             gauge'[o] = gauge[o] - (IF o \in Observed(pc[p]) THEN 1 ELSE 0)
                           + (IF o \in Observed(a) THEN 1 ELSE 0)
    BY <1>2 DEF Begin
  <2> QED
    BY <2>1, GaugeStep
<1>3. CASE Observed(pc[p]) = {op} /\ Observed(a) = {} /\ gauge' = Drop(gauge, op)
  <2>1. /\ gauge' \in [Operations -> Int]
        /\ \A o \in Operations :
             gauge'[o] = gauge[o] - (IF o \in Observed(pc[p]) THEN 1 ELSE 0)
                           + (IF o \in Observed(a) THEN 1 ELSE 0)
    BY <1>3 DEF Drop
  <2> QED
    BY <2>1, GaugeStep
<1> QED
  BY <1>1, <1>2, <1>3

-----------------------------------------------------------------------------
(* What steps of an invocation have in common. *)

\* The parts of the invariant that the lemmas about the mutex and the gauges need.
LEMMA Parts ==
  ASSUME HooksIInv
  PROVE  /\ pc \in [Invocations -> Places] /\ MutexTypeOK /\ LockShape
         /\ gauge \in [Operations -> Nat] /\ GaugesBalance
         /\ \A p \in Invocations : pc[p] # "idle" => phase = "up"
         /\ \A p \in Invocations : pc[p] \in Holding => holder = p
BY DEF HooksIInv, HooksTypeOK, MutexTypeOK, CausesPaid, LockShape

\* A future that is finished or dropped is idle with fresh local variables, the others are
\* where they were.
LEMMA EndsLocals ==
  ASSUME HooksTypeOK, NEW p \in Invocations, Ends(p)
  PROVE  /\ pc' \in [Invocations -> Places]
         /\ reg' \in [Invocations -> 0 .. MaxIds] /\ body' \in [Invocations -> 0 .. MaxIds]
         /\ recovered' \in [Invocations -> BOOLEAN]
         /\ retries' \in [Invocations -> 0 .. Retries] /\ attempts' \in [Invocations -> Nat]
         /\ pc' = [pc EXCEPT ![p] = "idle"]
         /\ pc'[p] = "idle" /\ reg'[p] = 0 /\ ~recovered'[p] /\ attempts'[p] = 0
         /\ retries'[p] = 0
         /\ \A q \in Invocations : q # p =>
              /\ pc'[q] = pc[q] /\ reg'[q] = reg[q] /\ body'[q] = body[q]
              /\ recovered'[q] = recovered[q] /\ retries'[q] = retries[q]
              /\ attempts'[q] = attempts[q]
<1>1. recovered' \in [Invocations -> BOOLEAN]
  BY Zenon DEF HooksTypeOK, Ends
<1>2. "idle" \in Places /\ 0 \in 0 .. MaxIds /\ 0 \in 0 .. Retries
  BY ClientAssumption DEF Places
<1> QED
  BY <1>1, <1>2 DEF HooksTypeOK, Ends, Goto

\* What an invocation that ends leaves of the invariant, the cache being unchanged.
LEMMA EndsUse ==
  ASSUME HooksIInv, NEW p \in Invocations, Ends(p), cached' = cached,
         issued' \in 0 .. MaxIds, issued <= issued', refused \subseteq refused'
  PROVE  RequestMatchesRegistration' /\ RegistrationUse' /\ AttemptsPaid'
<1>1. HooksTypeOK /\ RequestMatchesRegistration /\ RegistrationUse /\ AttemptsPaid
  BY DEF HooksIInv
<1>2. /\ pc'[p] = "idle" /\ reg'[p] = 0 /\ ~recovered'[p] /\ attempts'[p] = 0 /\ retries'[p] = 0
      /\ \A q \in Invocations : q # p =>
           /\ pc'[q] = pc[q] /\ reg'[q] = reg[q] /\ body'[q] = body[q]
           /\ recovered'[q] = recovered[q] /\ retries'[q] = retries[q]
           /\ attempts'[q] = attempts[q]
  BY <1>1, EndsLocals
<1>3. RequestMatchesRegistration'
  BY <1>1, <1>2 DEF RequestMatchesRegistration
<1>4. RegistrationUse'
  <2>1. cached.id \in Int /\ issued \in Int /\ \A q \in Invocations : reg[q] \in Int
    BY <1>1 DEF HooksTypeOK, Registrations
  <2> QED
    BY <1>1, <1>2, <2>1, ClientAssumption DEF RegistrationUse, Obtained
<1>5. AttemptsPaid'
  <2> SUFFICES ASSUME NEW q \in Invocations
               PROVE  attempts'[q] <= retries'[q] + (IF recovered'[q] THEN 1 ELSE 0)
                                        + (IF pc'[q] = "hook" THEN 1 ELSE 0)
    BY DEF AttemptsPaid
  <2>1. CASE q = p
    BY <1>2, <2>1
  <2>2. CASE q # p
    BY <1>1, <1>2, <2>2 DEF AttemptsPaid
  <2> QED
    BY <2>1, <2>2
<1> QED
  BY <1>3, <1>4, <1>5

\* A step of an invocation that touches neither the cache nor the scanner; it starts
\* registering only when the cached registration is unusable.
LEMMA CausesKept ==
  ASSUME HooksIInv, NEW p \in Invocations, NEW a, pc' = [pc EXCEPT ![p] = a], phase = "up",
         UNCHANGED <<phase, cached, known, issued, refused, causes>>,
         a = "registering" => ~Usable(cached)
  PROVE  CausesPaid'
<1>1. pc \in [Invocations -> Places]
  BY Parts
<1>2. pc'[p] = a /\ \A q \in Invocations : q # p => pc'[q] = pc[q]
  BY <1>1
<1> QED
  BY <1>2 DEF HooksIInv, CausesPaid, NoRegistrationHerd, Usable

\* A registration that is issued and of no use is a cause of the next.
LEMMA CausesIssued ==
  ASSUME HooksIInv, NEW p \in Invocations, pc' = [pc EXCEPT ![p] = "idle"],
         pc[p] = "registering", phase' = phase, cached' = cached, refused' = refused,
         issued' = issued + 1, known' = known \cup {issued'}, causes' = causes + 1
  PROVE  CausesPaid'
<1>1. pc \in [Invocations -> Places] /\ phase = "up" /\ issued \in Nat /\ causes \in Nat
  <2>1. issued \in Nat /\ causes \in Nat
    BY ClientAssumption DEF HooksIInv, HooksTypeOK
  <2> QED
    BY <2>1, Parts
<1>2. pc'[p] = "idle" /\ \A q \in Invocations : q # p => pc'[q] = pc[q]
  BY <1>1
<1>3. ~Usable(cached) /\ issued <= causes
  BY <1>1 DEF HooksIInv, CausesPaid
<1>4. known' \subseteq 1 .. issued' /\ refused' \subseteq 1 .. issued' /\ refused' \cap known' = {}
  BY <1>1 DEF HooksIInv, CausesPaid
<1> QED
  BY <1>1, <1>2, <1>3, <1>4 DEF HooksIInv, CausesPaid, NoRegistrationHerd, Usable

-----------------------------------------------------------------------------
(* The steps of an invocation. *)

\* registered() begins by asking for the mutex: at the start of evaluate() and after a
\* recovery dropped the guard (Invoke, Relock).
LEMMA AskStep ==
  ASSUME HooksIInv, NEW p \in Invocations, pc[p] \in {"idle", "relock"}, phase = "up",
         Lock(p), Goto(p, IF holder = Nobody THEN "check" ELSE "want"),
         gauge' = Waits(gauge), UNCHANGED <<phase, cached, locals, scanner, history>>
  PROVE  HooksIInv'
<1> DEFINE a == IF holder = Nobody THEN "check" ELSE "want"
<1>1. /\ pc \in [Invocations -> Places] /\ pc' = [pc EXCEPT ![p] = a] /\ gauge \in [Operations -> Nat] /\ GaugesBalance
      /\ MutexTypeOK /\ LockShape
  BY DEF HooksIInv, HooksTypeOK, Goto, MutexTypeOK
<1>2. MutexTypeOK' /\ LockShape'
  BY <1>1, LockAsked DEF InLock, Holding, Waiting
<1>3. GaugesBalance' /\ gauge' \in [Operations -> Nat]
  <2>1. gauge' = IF holder = Nobody THEN gauge
                 ELSE [gauge EXCEPT !["registration_wait"] = @ + 1]
    BY DEF Waits, Begin
  <2>2. /\ Observed(pc[p]) = {} /\ Observed("check") = {}
        /\ Observed("want") = {"registration_wait"}
    BY DEF Observed, Waiting
  <2>3. /\ gauge' \in [Operations -> Int]
        /\ \A op \in Operations :
             gauge'[op] = gauge[op] - (IF op \in Observed(pc[p]) THEN 1 ELSE 0)
                            + (IF op \in Observed(a) THEN 1 ELSE 0)
    <3>1. CASE holder = Nobody
      BY <1>1, <2>1, <2>2, <3>1 DEF Operations
    <3>2. CASE holder # Nobody
      BY <1>1, <2>1, <2>2, <3>2 DEF Operations
    <3> QED
      BY <3>1, <3>2
  <2> QED
    BY <1>1, <2>3, GaugeStep
<1>4. HooksTypeOK'
  BY <1>1, <1>2, <1>3 DEF HooksIInv, HooksTypeOK, MutexTypeOK, locals, scanner, history,
     Places, Awaiting, Waiting, Holding
<1>5. /\ pc'[p] \in {"check", "want"} /\ \A q \in Invocations : q # p => pc'[q] = pc[q]
      /\ phase = "up"
      /\ UNCHANGED <<phase, cached, reg, body, recovered, retries, attempts, known, issued,
                     refused, causes>>
  BY <1>1 DEF locals, scanner, history
<1>6. RequestMatchesRegistration'
  BY <1>5 DEF HooksIInv, RequestMatchesRegistration
<1>7. RegistrationUse'
  BY <1>1, <1>5 DEF HooksIInv, RegistrationUse, Obtained
<1>8. AttemptsPaid'
  BY <1>1, <1>5 DEF HooksIInv, AttemptsPaid
<1>9. CausesPaid'
  BY <1>1, <1>5 DEF HooksIInv, CausesPaid, NoRegistrationHerd, Usable
<1> QED
  BY <1>2, <1>3, <1>4, <1>6, <1>7, <1>8, <1>9 DEF HooksIInv

\* The mutex was handed over to the first in the queue.
LEMMA GrantedStep ==
  ASSUME HooksIInv, NEW p \in Invocations, Granted(p)
  PROVE  HooksIInv'
<1> DEFINE a == IF pc[p] = "want" THEN "check" ELSE "clear"
<1>1. /\ pc \in [Invocations -> Places] /\ pc' = [pc EXCEPT ![p] = a] /\ pc[p] \in Waiting
      /\ gauge \in [Operations -> Nat] /\ GaugesBalance
      /\ MutexTypeOK /\ LockShape /\ phase = "up"
  BY Parts DEF Granted, Goto, Waiting
<1>2. a \in Holding /\ a \in Places /\ Observed(pc[p]) = {"registration_wait"} /\ Observed(a) = {}
  BY <1>1 DEF Observed, Waiting, Holding, Places
<1>3. MutexTypeOK' /\ LockShape'
  BY <1>1, <1>2, LockKept DEF Granted
<1>4. GaugesBalance' /\ gauge' \in [Operations -> Nat]
  BY <1>1, <1>2, GaugeMoves DEF Granted, Operations
<1>5. HooksTypeOK'
  BY <1>1, <1>2, <1>3, <1>4 DEF HooksIInv, HooksTypeOK, Granted, MutexTypeOK, locals, scanner, history
<1>6. /\ pc'[p] = a /\ \A q \in Invocations : q # p => pc'[q] = pc[q]
      /\ pc[p] = "want" \/ pc[p] = "wantClear"
      /\ UNCHANGED <<phase, cached, reg, body, recovered, retries, attempts, known, issued,
                     refused, causes>>
  BY <1>1 DEF Granted, locals, scanner, history, Waiting
<1>7. RequestMatchesRegistration'
  BY <1>6 DEF HooksIInv, RequestMatchesRegistration
<1>8. RegistrationUse'
  BY <1>1, <1>6 DEF HooksIInv, RegistrationUse, Obtained
<1>9. AttemptsPaid'
  BY <1>1, <1>6 DEF HooksIInv, AttemptsPaid
<1>10. CausesPaid'
  BY <1>1, <1>6, CausesKept
<1> QED
  BY <1>3, <1>4, <1>5, <1>7, <1>8, <1>9, <1>10 DEF HooksIInv

\* registered(): a usable registration is shared, otherwise register() runs under the
\* lock.
LEMMA CheckCacheStep ==
  ASSUME HooksIInv, NEW p \in Invocations, CheckCache(p)
  PROVE  HooksIInv'
<1>1. /\ pc \in [Invocations -> Places] /\ pc[p] = "check" /\ holder = p
      /\ gauge \in [Operations -> Nat] /\ GaugesBalance
      /\ MutexTypeOK /\ LockShape /\ phase = "up"
      /\ Observed("check") = {} /\ Observed("request") = {}
      /\ Observed("registering") = {"registration"}
  BY Parts DEF CheckCache, Holding, Observed, Waiting
<1>2. CASE Usable(cached) /\ Obtain(p, cached.id) /\ Release /\ UNCHANGED gauge
  <2>1. /\ pc' = [pc EXCEPT ![p] = "request"] /\ reg' = [reg EXCEPT ![p] = cached.id]
        /\ UNCHANGED <<phase, cached, body, recovered, retries, attempts, known, issued,
                       restarts, refused, causes>>
    BY <1>2 DEF CheckCache, Obtain, Goto, scanner, history
  <2>2. MutexTypeOK' /\ LockShape'
    BY <1>1, <1>2, <2>1, LockReleased DEF InLock, Holding, Waiting
  <2>3. GaugesBalance' /\ gauge' \in [Operations -> Nat]
    BY <1>1, <1>2, <2>1, GaugeMoves DEF Operations
  <2>4. cached.id \in 1 .. MaxIds /\ issued \in Int /\ reg \in [Invocations -> 0 .. MaxIds]
    BY <1>2, ClientAssumption DEF HooksIInv, HooksTypeOK, Registrations, Usable
  <2>5. HooksTypeOK'
    <3>1. pc' \in [Invocations -> Places] /\ reg' \in [Invocations -> 0 .. MaxIds]
      BY <1>1, <2>1, <2>4 DEF Places
    <3> QED
      BY <2>1, <2>2, <2>3, <3>1 DEF HooksIInv, HooksTypeOK, MutexTypeOK
  <2>6. /\ pc'[p] = "request" /\ reg'[p] = cached.id /\ reg'[p] # 0
        /\ \A q \in Invocations : q # p => pc'[q] = pc[q] /\ reg'[q] = reg[q]
    BY <1>1, <2>1, <2>4
  <2>7. RequestMatchesRegistration'
    BY <2>1, <2>6 DEF HooksIInv, RequestMatchesRegistration
  <2>8. RegistrationUse'
    BY <2>1, <2>4, <2>6 DEF HooksIInv, RegistrationUse, Obtained
  <2>9. AttemptsPaid'
    BY <1>1, <2>1, <2>6 DEF HooksIInv, AttemptsPaid
  <2>10. CausesPaid'
    BY <1>1, <2>1, CausesKept
  <2> QED
    BY <2>2, <2>3, <2>5, <2>7, <2>8, <2>9, <2>10 DEF HooksIInv
<1>3. CASE /\ ~Usable(cached) /\ Goto(p, "registering")
           /\ gauge' = Begin(gauge, "registration") /\ UNCHANGED <<locals, mutex>>
  <2>1. /\ pc' = [pc EXCEPT ![p] = "registering"]
        /\ UNCHANGED <<phase, cached, reg, body, recovered, retries, attempts, known, issued,
                       restarts, refused, causes>>
    BY <1>3 DEF CheckCache, Goto, scanner, history, locals
  <2>2. MutexTypeOK' /\ LockShape'
    BY <1>1, <1>3, <2>1, LockKept DEF Holding
  <2>3. GaugesBalance' /\ gauge' \in [Operations -> Nat]
    BY <1>1, <1>3, <2>1, GaugeMoves DEF Operations
  <2>4. HooksTypeOK'
    BY <1>1, <2>1, <2>2, <2>3 DEF HooksIInv, HooksTypeOK, MutexTypeOK, Places, Awaiting
  <2>5. pc'[p] = "registering" /\ \A q \in Invocations : q # p => pc'[q] = pc[q]
    BY <1>1, <2>1
  <2>6. RequestMatchesRegistration'
    BY <2>1, <2>5 DEF HooksIInv, RequestMatchesRegistration
  <2>7. RegistrationUse'
    BY <1>1, <2>1, <2>5 DEF HooksIInv, RegistrationUse, Obtained
  <2>8. AttemptsPaid'
    BY <1>1, <2>1, <2>5 DEF HooksIInv, AttemptsPaid
  <2>9. CausesPaid'
    BY <1>1, <1>3, <2>1, CausesKept
  <2> QED
    BY <2>2, <2>3, <2>4, <2>6, <2>7, <2>8, <2>9 DEF HooksIInv
<1> QED
  BY <1>2, <1>3 DEF CheckCache

\* The scanner registers us: the registration is cached, or the invocation fails with one
\* that is already expired.
LEMMA RegisteredStep ==
  ASSUME HooksIInv, NEW p \in Invocations, NEW life \in Lives, Registered(p, life)
  PROVE  HooksIInv'
<1>1. /\ pc \in [Invocations -> Places] /\ pc[p] = "registering" /\ holder = p
      /\ gauge \in [Operations -> Nat] /\ GaugesBalance
      /\ MutexTypeOK /\ LockShape /\ phase = "up"
      /\ Observed("idle") = {} /\ Observed("request") = {}
      /\ Observed("registering") = {"registration"}
  BY Parts DEF Registered, Holding, Observed, Waiting
<1>2. /\ issued' = issued + 1 /\ issued' \in 1 .. MaxIds /\ issued \in 0 .. MaxIds
      /\ known' = known \cup {issued'} /\ causes' \in Nat /\ causes \in Nat
      /\ causes' = causes + (IF life \in {"near", "expired"} THEN 1 ELSE 0)
      /\ UNCHANGED <<phase, restarts, refused>>
  BY ClientAssumption DEF HooksIInv, HooksTypeOK, Registered
<1>3. known' \subseteq 1 .. MaxIds
  BY <1>2 DEF HooksIInv, HooksTypeOK
<1>4. CASE life = "expired"
  <2>1. Ends(p) /\ cached' = cached /\ HooksTypeOK
    BY <1>4 DEF Registered, HooksIInv
  <2>2. pc' = [pc EXCEPT ![p] = "idle"]
    BY <2>1, EndsLocals
  <2>3. MutexTypeOK' /\ LockShape'
    BY <1>1, <2>2, LockReleased DEF Registered, InLock, Holding, Waiting
  <2>4. GaugesBalance' /\ gauge' \in [Operations -> Nat]
    BY <1>1, <2>2, GaugeMoves DEF Operations, Registered
  <2>5. HooksTypeOK'
    <3>1. /\ pc' \in [Invocations -> Places]
          /\ reg' \in [Invocations -> 0 .. MaxIds] /\ body' \in [Invocations -> 0 .. MaxIds]
          /\ recovered' \in [Invocations -> BOOLEAN]
          /\ retries' \in [Invocations -> 0 .. Retries] /\ attempts' \in [Invocations -> Nat]
      BY <2>1, EndsLocals
    <3>2. issued' \in 0 .. MaxIds
      BY <1>2
    <3> QED
      BY <1>2, <1>3, <2>1, <2>3, <2>4, <3>1, <3>2 DEF HooksTypeOK, MutexTypeOK
  <2>6. RequestMatchesRegistration' /\ RegistrationUse' /\ AttemptsPaid'
    <3>1. issued' \in 0 .. MaxIds /\ issued <= issued' /\ refused \subseteq refused'
      BY <1>2
    <3> QED
      BY <2>1, <3>1, EndsUse
  <2>7. CausesPaid'
    BY <1>1, <1>2, <1>4, <2>1, <2>2, CausesIssued
  <2> QED
    BY <2>3, <2>4, <2>5, <2>6, <2>7 DEF HooksIInv
<1>5. CASE life # "expired"
  <2>1. /\ cached' = [id |-> issued', life |-> life]
        /\ pc' = [pc EXCEPT ![p] = "request"] /\ reg' = [reg EXCEPT ![p] = issued']
        /\ UNCHANGED <<body, recovered, retries, attempts>>
    BY <1>5 DEF Registered, Obtain, Goto
  <2>2. MutexTypeOK' /\ LockShape'
    BY <1>1, <2>1, LockReleased DEF Registered, InLock, Holding, Waiting
  <2>3. GaugesBalance' /\ gauge' \in [Operations -> Nat]
    BY <1>1, <2>1, GaugeMoves DEF Operations, Registered
  <2>4. cached' \in Registrations /\ reg' \in [Invocations -> 0 .. MaxIds]
    BY <1>2, <2>1 DEF Registrations, HooksIInv, HooksTypeOK
  <2>5. HooksTypeOK'
    BY <1>1, <1>2, <1>3, <2>1, <2>2, <2>3, <2>4 DEF HooksIInv, HooksTypeOK, MutexTypeOK, Places
  <2>6. /\ pc'[p] = "request" /\ reg'[p] = issued' /\ cached'.id = issued' /\ cached'.life = life
        /\ \A q \in Invocations : q # p => pc'[q] = pc[q] /\ reg'[q] = reg[q]
        /\ \A q \in Invocations : reg[q] \in Int
    BY <1>1, <2>1 DEF HooksIInv, HooksTypeOK
  <2>7. RequestMatchesRegistration'
    BY <2>1, <2>6 DEF HooksIInv, RequestMatchesRegistration
  <2>8. RegistrationUse'
    BY <1>2, <2>1, <2>6 DEF HooksIInv, RegistrationUse, Obtained
  <2>9. AttemptsPaid'
    BY <1>1, <2>1, <2>6 DEF HooksIInv, AttemptsPaid
  <2>10. CausesPaid'
    <3>1. /\ ~Usable(cached) /\ issued <= causes
          /\ known \subseteq 1 .. issued /\ refused \subseteq 1 .. issued
      BY <1>1, <1>2 DEF HooksIInv, CausesPaid
    <3>2. \A q \in Invocations : pc'[q] # "registering"
      BY <1>1, <2>6 DEF LockShape, Holding
    <3>3. known' \subseteq 1 .. issued' /\ refused' \subseteq 1 .. issued' /\ refused' \cap known' = {}
      BY <1>2, <3>1 DEF HooksIInv, CausesPaid
    <3>4. Usable(cached)' \/ causes' = causes + 1
      BY <1>2, <1>5, <2>6 DEF Usable, Lives
    <3> QED
      BY <1>1, <1>2, <2>6, <3>1, <3>2, <3>3, <3>4 DEF CausesPaid, NoRegistrationHerd
  <2> QED
    BY <2>2, <2>3, <2>5, <2>7, <2>8, <2>9, <2>10 DEF HooksIInv
<1> QED
  BY <1>4, <1>5

\* register() fails and the invocation with it, whether the scanner issued a registration
\* or not.
LEMMA RegisterFailsStep ==
  ASSUME HooksIInv, NEW p \in Invocations, NEW lost \in BOOLEAN, RegisterFails(p, lost)
  PROVE  HooksIInv'
<1>1. /\ pc \in [Invocations -> Places] /\ pc[p] = "registering" /\ holder = p
      /\ gauge \in [Operations -> Nat] /\ GaugesBalance
      /\ MutexTypeOK /\ LockShape /\ phase = "up"
      /\ Observed("idle") = {} /\ Observed("registering") = {"registration"}
  BY Parts DEF RegisterFails, Holding, Observed, Waiting
<1>2. /\ \/ issued' = issued + 1 /\ known' = known \cup {issued'} /\ causes' = causes + 1
         \/ UNCHANGED <<issued, known, causes>>
      /\ issued \in 0 .. MaxIds /\ issued' \in 0 .. MaxIds /\ issued <= issued'
      /\ causes \in Nat /\ causes' \in Nat
      /\ UNCHANGED <<phase, cached, restarts, refused>>
  <2>1. CASE lost
    BY <2>1, ClientAssumption DEF HooksIInv, HooksTypeOK, RegisterFails
  <2>2. CASE ~lost
    BY <2>2, ClientAssumption DEF HooksIInv, HooksTypeOK, RegisterFails
  <2> QED
    BY <2>1, <2>2
<1>3. known' \subseteq 1 .. MaxIds
  <2>1. known \subseteq 1 .. MaxIds
    BY DEF HooksIInv, HooksTypeOK
  <2>2. CASE issued' = issued + 1 /\ known' = known \cup {issued'}
    <3>1. issued' \in 1 .. MaxIds
      BY <1>2, <2>2, ClientAssumption
    <3> QED
      BY <2>1, <2>2, <3>1
  <2>3. CASE known' = known
    BY <2>1, <2>3
  <2> QED
    BY <1>2, <2>2, <2>3
<1>4. Ends(p) /\ HooksTypeOK
  BY DEF RegisterFails, HooksIInv
<1>5. pc' = [pc EXCEPT ![p] = "idle"]
  BY <1>4, EndsLocals
<1>6. MutexTypeOK' /\ LockShape'
  BY <1>1, <1>5, LockReleased DEF RegisterFails, InLock, Holding, Waiting
<1>7. GaugesBalance' /\ gauge' \in [Operations -> Nat]
  BY <1>1, <1>5, GaugeMoves DEF Operations, RegisterFails
<1>8. HooksTypeOK'
  BY <1>2, <1>3, <1>4, <1>6, <1>7, EndsLocals DEF HooksTypeOK, MutexTypeOK
<1>9. RequestMatchesRegistration' /\ RegistrationUse' /\ AttemptsPaid'
  BY <1>2, <1>4, EndsUse
<1>10. CausesPaid'
  BY <1>1, <1>2, <1>5, CausesIssued, CausesKept
<1> QED
  BY <1>6, <1>7, <1>8, <1>9, <1>10 DEF HooksIInv

\* The request is posted, for the first time or after a pause (BuildRequest, Retry).
LEMMA PostStep ==
  ASSUME HooksIInv, NEW p \in Invocations, PostHook(p),
         \/ pc[p] = "request" /\ body' = [body EXCEPT ![p] = reg[p]]
         \/ pc[p] = "backoff" /\ body' = body,
         UNCHANGED <<phase, cached, mutex, reg, recovered, retries, scanner, history>>
  PROVE  HooksIInv'
<1>1. /\ pc \in [Invocations -> Places] /\ pc[p] \in {"request", "backoff"}
      /\ gauge \in [Operations -> Nat] /\ GaugesBalance
      /\ MutexTypeOK /\ LockShape /\ phase = "up"
      /\ Observed(pc[p]) = {} /\ Observed("hook") = {"hook"}
  BY Parts DEF Observed, Waiting
<1>2. /\ pc' = [pc EXCEPT ![p] = "hook"] /\ attempts' = [attempts EXCEPT ![p] = @ + 1]
      /\ gauge' = Begin(gauge, "hook")
      /\ UNCHANGED <<phase, cached, reg, recovered, retries, known, issued, restarts, refused,
                     causes>>
  BY DEF PostHook, Goto, scanner, history
<1>3. MutexTypeOK' /\ LockShape'
  BY <1>1, <1>2, LockKept DEF InLock, Holding, Waiting
<1>4. GaugesBalance' /\ gauge' \in [Operations -> Nat]
  BY <1>1, <1>2, GaugeMoves DEF Operations
<1>5. /\ reg \in [Invocations -> 0 .. MaxIds] /\ body \in [Invocations -> 0 .. MaxIds]
      /\ attempts \in [Invocations -> Nat] /\ retries \in [Invocations -> 0 .. Retries]
  BY DEF HooksIInv, HooksTypeOK
<1>6. HooksTypeOK'
  <2>1. pc' \in [Invocations -> Places] /\ attempts' \in [Invocations -> Nat]
    BY <1>1, <1>2, <1>5 DEF Places, Awaiting
  <2>2. body' \in [Invocations -> 0 .. MaxIds]
    BY <1>5
  <2> QED
    BY <1>2, <1>3, <1>4, <2>1, <2>2 DEF HooksIInv, HooksTypeOK, MutexTypeOK
<1>7. /\ pc'[p] = "hook" /\ attempts'[p] = attempts[p] + 1 /\ body'[p] = reg[p]
      /\ \A q \in Invocations : q # p =>
           pc'[q] = pc[q] /\ attempts'[q] = attempts[q] /\ body'[q] = body[q]
  <2>1. pc[p] = "backoff" => body[p] = reg[p]
    BY DEF HooksIInv, RequestMatchesRegistration
  <2> QED
    BY <1>1, <1>2, <1>5, <2>1
<1>8. RequestMatchesRegistration'
  BY <1>2, <1>7 DEF HooksIInv, RequestMatchesRegistration
<1>9. RegistrationUse'
  BY <1>1, <1>2, <1>7 DEF HooksIInv, RegistrationUse, Obtained
<1>10. AttemptsPaid'
  <2>1. AttemptsPaid /\ \A q \in Invocations : attempts[q] \in Int /\ retries[q] \in Int
    BY <1>5, ClientAssumption DEF HooksIInv
  <2>2. attempts[p] <= retries[p] + (IF recovered[p] THEN 1 ELSE 0)
    BY <1>1, <2>1 DEF AttemptsPaid
  <2> QED
    BY <1>2, <1>7, <2>1, <2>2 DEF AttemptsPaid
<1>11. CausesPaid'
  BY <1>1, <1>2, CausesKept
<1> QED
  BY <1>3, <1>4, <1>6, <1>8, <1>9, <1>10, <1>11 DEF HooksIInv

\* The invocation ends without the mutex: the session cannot be projected, or the answer
\* to its hook is final (RequestFails, HookEnds, a second refusal).
LEMMA FinalStep ==
  ASSUME HooksIInv, NEW p \in Invocations, Ends(p),
         \/ pc[p] = "request" /\ gauge' = gauge
         \/ pc[p] = "hook" /\ gauge' = Drop(gauge, "hook"),
         refused' = refused \/ (pc[p] = "hook" /\ reg[p] \notin known /\ refused' = refused \cup {reg[p]}),
         UNCHANGED <<phase, cached, mutex, scanner, causes>>
  PROVE  HooksIInv'
<1>1. /\ pc \in [Invocations -> Places] /\ pc[p] \in {"request", "hook"}
      /\ gauge \in [Operations -> Nat] /\ GaugesBalance
      /\ MutexTypeOK /\ LockShape /\ phase = "up" /\ HooksTypeOK
      /\ Observed("request") = {} /\ Observed("idle") = {} /\ Observed("hook") = {"hook"}
  <2>1. HooksTypeOK
    BY DEF HooksIInv
  <2> QED
    BY <2>1, Parts DEF Observed, Waiting
<1>2. /\ pc' = [pc EXCEPT ![p] = "idle"]
      /\ UNCHANGED <<phase, cached, known, issued, restarts, causes>>
  BY <1>1, EndsLocals DEF scanner
<1>3. MutexTypeOK' /\ LockShape'
  BY <1>1, <1>2, LockKept DEF InLock, Holding, Waiting
<1>4. GaugesBalance' /\ gauge' \in [Operations -> Nat]
  BY <1>1, <1>2, GaugeMoves DEF Operations
<1>5. reg[p] \in 1 .. issued /\ issued \in 0 .. MaxIds
  BY <1>1, ClientAssumption DEF HooksIInv, HooksTypeOK, RegistrationUse, Obtained
<1>6. /\ refused \subseteq refused' /\ refused' \subseteq 1 .. issued
      /\ refused' \cap known = {} /\ refused' \subseteq 1 .. MaxIds
  <2>1. refused \subseteq 1 .. issued /\ refused \cap known = {}
    BY DEF HooksIInv, CausesPaid
  <2>2. refused' \subseteq 1 .. issued
    BY <1>5, <2>1
  <2>3. 1 .. issued \subseteq 1 .. MaxIds
    BY <1>5, ClientAssumption
  <2> QED
    BY <2>1, <2>2, <2>3
<1>7. HooksTypeOK'
  <2>1. /\ pc' \in [Invocations -> Places]
        /\ reg' \in [Invocations -> 0 .. MaxIds] /\ body' \in [Invocations -> 0 .. MaxIds]
        /\ recovered' \in [Invocations -> BOOLEAN]
        /\ retries' \in [Invocations -> 0 .. Retries] /\ attempts' \in [Invocations -> Nat]
    BY <1>1, EndsLocals
  <2> QED
    BY <1>1, <1>2, <1>3, <1>4, <1>6, <2>1 DEF HooksTypeOK, MutexTypeOK
<1>8. RequestMatchesRegistration' /\ RegistrationUse' /\ AttemptsPaid'
  <2>1. issued' \in 0 .. MaxIds /\ issued <= issued'
    BY <1>2, <1>5, ClientAssumption
  <2> QED
    BY <1>2, <1>6, <2>1, EndsUse
<1>9. CausesPaid'
  <2>1. pc'[p] = "idle" /\ \A q \in Invocations : q # p => pc'[q] = pc[q]
    BY <1>1, <1>2
  <2> QED
    BY <1>1, <1>2, <1>6, <2>1 DEF HooksIInv, CausesPaid, NoRegistrationHerd, Usable
<1> QED
  BY <1>3, <1>4, <1>7, <1>8, <1>9 DEF HooksIInv

\* A first refusal asks for the mutex, to drop the registration that was refused.
LEMMA RecoverStep ==
  ASSUME HooksIInv, NEW p \in Invocations, pc[p] = "hook", reg[p] \notin known,
         refused' = refused \cup {reg[p]}, ~recovered[p], Recover(p),
         UNCHANGED <<phase, cached, scanner, causes>>
  PROVE  HooksIInv'
<1> DEFINE a == IF holder = Nobody THEN "clear" ELSE "wantClear"
<1>1. /\ pc \in [Invocations -> Places] /\ gauge \in [Operations -> Nat] /\ GaugesBalance
      /\ MutexTypeOK /\ LockShape /\ phase = "up"
  BY Parts
<1>2. /\ pc' = [pc EXCEPT ![p] = a] /\ recovered' = [recovered EXCEPT ![p] = TRUE]
      /\ gauge' = Waits(Drop(gauge, "hook"))
      /\ UNCHANGED <<phase, cached, reg, body, retries, attempts, known, issued, restarts, causes>>
  BY DEF Recover, Goto, scanner
<1>3. MutexTypeOK' /\ LockShape'
  <2>1. "clear" \in Holding /\ "wantClear" \in Waiting /\ pc[p] \notin InLock
    BY DEF InLock, Holding, Waiting
  <2> QED
    BY <1>1, <1>2, <2>1, LockAsked DEF Recover
<1>4. GaugesBalance' /\ gauge' \in [Operations -> Nat]
  <2>1. /\ Observed("hook") = {"hook"} /\ Observed("clear") = {}
        /\ Observed("wantClear") = {"registration_wait"}
    BY DEF Observed, Waiting
  <2>2. /\ gauge' \in [Operations -> Int]
        /\ \A op \in Operations :
             gauge'[op] = gauge[op] - (IF op \in Observed(pc[p]) THEN 1 ELSE 0)
                            + (IF op \in Observed(a) THEN 1 ELSE 0)
    <3>1. CASE holder = Nobody
      <4>1. gauge' = [gauge EXCEPT !["hook"] = @ - 1]
        BY <1>2, <3>1 DEF Waits, Drop
      <4> QED
        BY <1>1, <2>1, <3>1, <4>1 DEF Operations
    <3>2. CASE holder # Nobody
      <4>1. gauge' = [[gauge EXCEPT !["hook"] = @ - 1] EXCEPT !["registration_wait"] = @ + 1]
        BY <1>2, <3>2 DEF Waits, Drop, Begin
      <4> QED
        BY <1>1, <2>1, <3>2, <4>1 DEF Operations
    <3> QED
      BY <3>1, <3>2
  <2> QED
    BY <1>1, <1>2, <2>2, GaugeStep
<1>5. reg[p] \in 1 .. issued /\ issued \in 0 .. MaxIds
  BY ClientAssumption DEF HooksIInv, HooksTypeOK, RegistrationUse, Obtained
<1>6. /\ refused \subseteq refused' /\ refused' \subseteq 1 .. issued
      /\ refused' \cap known = {} /\ refused' \subseteq 1 .. MaxIds
  <2>1. refused \subseteq 1 .. issued /\ refused \cap known = {}
    BY DEF HooksIInv, CausesPaid
  <2>2. refused' \subseteq 1 .. issued
    BY <1>5, <2>1
  <2>3. 1 .. issued \subseteq 1 .. MaxIds
    BY <1>5, ClientAssumption
  <2> QED
    BY <2>1, <2>2, <2>3
<1>7. HooksTypeOK'
  <2>1. recovered' \in [Invocations -> BOOLEAN]
    BY <1>2, Zenon DEF HooksIInv, HooksTypeOK
  <2>2. pc' \in [Invocations -> Places]
    BY <1>1, <1>2 DEF Places, Awaiting, Waiting, Holding
  <2> QED
    BY <1>2, <1>3, <1>4, <1>6, <2>1, <2>2 DEF HooksIInv, HooksTypeOK, MutexTypeOK
<1>8. /\ pc'[p] \in {"clear", "wantClear"} /\ recovered'[p]
      /\ \A q \in Invocations : q # p => pc'[q] = pc[q] /\ recovered'[q] = recovered[q]
  <2>1. recovered \in [Invocations -> BOOLEAN]
    BY DEF HooksIInv, HooksTypeOK
  <2> QED
    BY <1>1, <1>2, <2>1
<1>9. RequestMatchesRegistration'
  BY <1>2, <1>8 DEF HooksIInv, RequestMatchesRegistration
<1>10. RegistrationUse'
  BY <1>2, <1>5, <1>8 DEF HooksIInv, RegistrationUse, Obtained
<1>11. AttemptsPaid'
  <2>1. /\ AttemptsPaid
        /\ \A q \in Invocations : attempts[q] \in Int /\ retries[q] \in Int
    BY ClientAssumption DEF HooksIInv, HooksTypeOK
  <2>2. attempts[p] <= retries[p] + 1
    BY <2>1 DEF AttemptsPaid
  <2> QED
    BY <1>2, <1>8, <2>1, <2>2 DEF AttemptsPaid
<1>12. CausesPaid'
  BY <1>1, <1>2, <1>6, <1>8 DEF HooksIInv, CausesPaid, NoRegistrationHerd, Usable
<1> QED
  BY <1>3, <1>4, <1>7, <1>9, <1>10, <1>11, <1>12 DEF HooksIInv

\* The registration that was refused is dropped, a newer one is kept: nothing that the
\* scanner knows is lost.
LEMMA ClearRefusedStep ==
  ASSUME HooksIInv, NEW p \in Invocations, ClearRefused(p)
  PROVE  HooksIInv'
<1>1. /\ pc \in [Invocations -> Places] /\ pc[p] = "clear" /\ holder = p
      /\ gauge \in [Operations -> Nat] /\ GaugesBalance
      /\ MutexTypeOK /\ LockShape /\ phase = "up"
      /\ Observed("clear") = {} /\ Observed("relock") = {}
  BY Parts DEF ClearRefused, Holding, Observed, Waiting
<1>2. /\ pc' = [pc EXCEPT ![p] = "relock"]
      /\ cached' = IF cached.id = reg[p] THEN NoRegistration ELSE cached
      /\ UNCHANGED <<phase, gauge, reg, body, recovered, retries, attempts, known, issued,
                     restarts, refused, causes>>
  BY DEF ClearRefused, Goto, locals, scanner, history
<1>3. MutexTypeOK' /\ LockShape'
  <2>1. "relock" \notin InLock /\ Release
    BY DEF ClearRefused, InLock, Holding, Waiting
  <2> QED
    BY <1>1, <1>2, <2>1, LockReleased
<1>4. GaugesBalance' /\ gauge' \in [Operations -> Nat]
  BY <1>1, <1>2, GaugeMoves DEF Operations
<1>5. HooksTypeOK'
  <2>1. pc' \in [Invocations -> Places] /\ cached' \in Registrations
    BY <1>1, <1>2, ClientAssumption
       DEF HooksIInv, HooksTypeOK, Places, Registrations, NoRegistration, Lives
  <2> QED
    BY <1>2, <1>3, <1>4, <2>1 DEF HooksIInv, HooksTypeOK, MutexTypeOK
<1>6. /\ pc'[p] = "relock" /\ \A q \in Invocations : q # p => pc'[q] = pc[q]
      /\ \/ cached.id = reg[p] /\ cached' = NoRegistration /\ cached'.id = 0
         \/ cached.id # reg[p] /\ cached' = cached
      /\ reg[p] # 0 /\ reg[p] \in refused /\ recovered[p] /\ issued \in Nat
  BY <1>1, <1>2, ClientAssumption
     DEF NoRegistration, HooksIInv, HooksTypeOK, RegistrationUse, Obtained
<1>7. RequestMatchesRegistration'
  BY <1>2, <1>6 DEF HooksIInv, RequestMatchesRegistration
<1>8. RegistrationUse'
  BY <1>2, <1>6 DEF HooksIInv, RegistrationUse, Obtained
<1>9. AttemptsPaid'
  BY <1>1, <1>2, <1>6 DEF HooksIInv, AttemptsPaid
<1>10. CausesPaid'
  <2>1. cached.id = reg[p] => cached.id \notin known
    BY <1>6 DEF HooksIInv, CausesPaid
  <2>2. ~Usable(NoRegistration)
    BY DEF Usable, NoRegistration
  <2>3. \A q \in Invocations : pc'[q] # "registering"
    BY <1>1, <1>6 DEF LockShape, Holding
  <2> QED
    BY <1>1, <1>2, <1>6, <2>1, <2>2, <2>3 DEF HooksIInv, CausesPaid, NoRegistrationHerd
<1> QED
  BY <1>3, <1>4, <1>5, <1>7, <1>8, <1>9, <1>10 DEF HooksIInv

\* A transient failure backs off, a retry being left.
LEMMA HookTransientStep ==
  ASSUME HooksIInv, NEW p \in Invocations, HookTransient(p)
  PROVE  HooksIInv'
<1>1. /\ pc \in [Invocations -> Places] /\ pc[p] = "hook"
      /\ gauge \in [Operations -> Nat] /\ GaugesBalance
      /\ MutexTypeOK /\ LockShape /\ phase = "up"
      /\ Observed("backoff") = {} /\ Observed("hook") = {"hook"}
  BY Parts DEF HookTransient, Observed, Waiting
<1>2. /\ pc' = [pc EXCEPT ![p] = "backoff"] /\ retries' = [retries EXCEPT ![p] = @ + 1]
      /\ retries[p] < Retries /\ gauge' = Drop(gauge, "hook")
      /\ UNCHANGED <<phase, cached, mutex, reg, body, recovered, attempts, known, issued,
                     restarts, refused, causes>>
  BY DEF HookTransient, Goto, scanner, history
<1>3. MutexTypeOK' /\ LockShape'
  BY <1>1, <1>2, LockKept DEF InLock, Holding, Waiting
<1>4. GaugesBalance' /\ gauge' \in [Operations -> Nat]
  BY <1>1, <1>2, GaugeMoves DEF Operations
<1>5. attempts \in [Invocations -> Nat] /\ retries \in [Invocations -> 0 .. Retries]
  BY DEF HooksIInv, HooksTypeOK
<1>6. HooksTypeOK'
  <2>1. pc' \in [Invocations -> Places] /\ retries' \in [Invocations -> 0 .. Retries]
    BY <1>1, <1>2, <1>5, ClientAssumption DEF Places, Awaiting
  <2> QED
    BY <1>2, <1>3, <1>4, <2>1 DEF HooksIInv, HooksTypeOK, MutexTypeOK
<1>7. /\ pc'[p] = "backoff" /\ retries'[p] = retries[p] + 1
      /\ \A q \in Invocations : q # p => pc'[q] = pc[q] /\ retries'[q] = retries[q]
  BY <1>1, <1>2, <1>5
<1>8. RequestMatchesRegistration'
  BY <1>1, <1>2, <1>7 DEF HooksIInv, RequestMatchesRegistration
<1>9. RegistrationUse'
  BY <1>1, <1>2, <1>7 DEF HooksIInv, RegistrationUse, Obtained
<1>10. AttemptsPaid'
  <2>1. AttemptsPaid /\ \A q \in Invocations : attempts[q] \in Int /\ retries[q] \in Int
    BY <1>5, ClientAssumption DEF HooksIInv
  <2>2. attempts[p] <= retries[p] + (IF recovered[p] THEN 1 ELSE 0) + 1
    BY <1>1, <2>1 DEF AttemptsPaid
  <2> QED
    BY <1>2, <1>7, <2>1, <2>2 DEF AttemptsPaid
<1>11. CausesPaid'
  BY <1>1, <1>2, CausesKept
<1> QED
  BY <1>3, <1>4, <1>6, <1>8, <1>9, <1>10, <1>11 DEF HooksIInv

\* The deadline drops the future at the await it is in, with the guard or the place in the
\* queue and the observation it owns.
LEMMA DeadlineStep ==
  ASSUME HooksIInv, NEW p \in Invocations, Deadline(p)
  PROVE  HooksIInv'
<1>1. /\ pc \in [Invocations -> Places] /\ pc[p] \in Awaiting
      /\ gauge \in [Operations -> Nat] /\ GaugesBalance
      /\ MutexTypeOK /\ LockShape /\ phase = "up" /\ HooksTypeOK /\ Ends(p)
      /\ Observed("idle") = {}
  <2>1. HooksTypeOK
    BY DEF HooksIInv
  <2> QED
    BY <2>1, Parts DEF Deadline, Awaiting, Observed, Waiting
<1>2. pc' = [pc EXCEPT ![p] = "idle"]
  BY <1>1, EndsLocals
<1>3. MutexTypeOK' /\ LockShape'
  <2>1. "idle" \notin InLock
    BY DEF InLock, Holding, Waiting
  <2>2. CASE holder = p
    <3>1. Release
      BY <2>2 DEF Deadline, Cancel
    <3> QED
      BY <1>1, <1>2, <2>1, <2>2, <3>1, LockReleased
  <2>3. CASE holder # p
    <3>1. queue' = Without(p) /\ holder' = holder
      BY <2>3 DEF Deadline, Cancel
    <3> QED
      BY <1>1, <1>2, <2>1, <2>3, <3>1, LockLeft
  <2> QED
    BY <2>2, <2>3
<1>4. GaugesBalance' /\ gauge' \in [Operations -> Nat]
  <2>1. gauge' = [op \in Operations |-> gauge[op] - (IF op \in Observed(pc[p]) THEN 1 ELSE 0)]
    BY DEF Deadline, Cancelled
  <2>2. /\ gauge' \in [Operations -> Int]
        /\ \A op \in Operations :
             gauge'[op] = gauge[op] - (IF op \in Observed(pc[p]) THEN 1 ELSE 0)
                            + (IF op \in Observed("idle") THEN 1 ELSE 0)
    BY <1>1, <2>1
  <2> QED
    BY <1>1, <1>2, <2>2, GaugeStep
<1>5. /\ \/ UNCHANGED <<known, issued, causes>>
         \/ /\ pc[p] = "registering" /\ issued' = issued + 1 /\ issued' \in 1 .. MaxIds
            /\ known' = known \cup {issued'} /\ causes' = causes + 1
      /\ issued \in 0 .. MaxIds /\ causes \in Nat
      /\ UNCHANGED <<phase, cached, restarts, refused>>
  BY <1>1, ClientAssumption DEF HooksTypeOK, Deadline, scanner
<1>6. /\ issued' \in 0 .. MaxIds /\ issued <= issued' /\ causes' \in Nat
      /\ known' \subseteq 1 .. MaxIds
  <2>1. known \subseteq 1 .. MaxIds
    BY <1>1 DEF HooksTypeOK
  <2>2. CASE UNCHANGED <<known, issued, causes>>
    BY <1>5, <2>1, <2>2, ClientAssumption
  <2>3. CASE issued' = issued + 1 /\ issued' \in 1 .. MaxIds /\ known' = known \cup {issued'}
             /\ causes' = causes + 1
    BY <1>5, <2>1, <2>3, ClientAssumption
  <2> QED
    BY <1>5, <2>2, <2>3
<1>7. HooksTypeOK'
  <2>1. /\ pc' \in [Invocations -> Places]
        /\ reg' \in [Invocations -> 0 .. MaxIds] /\ body' \in [Invocations -> 0 .. MaxIds]
        /\ recovered' \in [Invocations -> BOOLEAN]
        /\ retries' \in [Invocations -> 0 .. Retries] /\ attempts' \in [Invocations -> Nat]
    BY <1>1, EndsLocals
  <2> QED
    BY <1>1, <1>3, <1>4, <1>5, <1>6, <2>1 DEF HooksTypeOK, MutexTypeOK
<1>8. RequestMatchesRegistration' /\ RegistrationUse' /\ AttemptsPaid'
  BY <1>1, <1>5, <1>6, EndsUse
<1>9. CausesPaid'
  BY <1>1, <1>2, <1>5, CausesIssued, CausesKept
<1> QED
  BY <1>3, <1>4, <1>7, <1>8, <1>9 DEF HooksIInv

-----------------------------------------------------------------------------
(* The steps of the process, of time and of the scanner. *)

\* A step during which no invocation moves.
LEMMA OthersKept ==
  ASSUME HooksIInv, UNCHANGED <<mutex, gauge, pc, locals>>
  PROVE  LockShape' /\ GaugesBalance' /\ RequestMatchesRegistration' /\ AttemptsPaid'
<1>1. UNCHANGED <<holder, queue, pc, gauge, reg, body, recovered, retries, attempts>>
  BY DEF mutex, locals
<1> QED
  BY <1>1 DEF HooksIInv, LockShape, GaugesBalance, RequestMatchesRegistration, AttemptsPaid

\* The first registration, also one that is issued although its answer is lost.
LEMMA StartupStep ==
  ASSUME HooksIInv, StartupRetries \/ StartupFails \/ \E life \in Lives : StartupRegisters(life)
  PROVE  HooksIInv'
<1>1. /\ HooksTypeOK /\ CausesPaid /\ RegistrationUse /\ phase = "starting"
      /\ UNCHANGED <<mutex, gauge, pc, locals, restarts, refused>>
  BY DEF HooksIInv, StartupRetries, StartupFails, StartupRegisters, scanner, history
<1>2. /\ UNCHANGED <<holder, queue, reg, body, recovered, retries, attempts>>
      /\ \A q \in Invocations : pc[q] = "idle" /\ ~recovered[q]
      /\ cached = NoRegistration /\ issued <= causes /\ issued \in 0 .. MaxIds /\ causes \in Nat
      /\ known \subseteq 1 .. MaxIds
      /\ known \subseteq 1 .. issued /\ refused \subseteq 1 .. issued /\ refused \cap known = {}
      /\ ~Usable(NoRegistration) /\ NoRegistration.id = 0
  <2>1. ~Usable(NoRegistration) /\ NoRegistration.id = 0
    BY DEF Usable, NoRegistration
  <2> QED
    BY <1>1, <2>1 DEF CausesPaid, RegistrationUse, HooksTypeOK, mutex, locals
<1>3. LockShape' /\ GaugesBalance' /\ RequestMatchesRegistration' /\ AttemptsPaid'
  BY <1>1, OthersKept
<1>4. CASE StartupFails
  <2>1. phase' = "failed" /\ UNCHANGED <<cached, known, issued, causes>>
    BY <1>4 DEF StartupFails, scanner, history
  <2>2. HooksTypeOK'
    BY <1>1, <1>2, <2>1 DEF HooksTypeOK
  <2>3. RegistrationUse'
    BY <1>1, <1>2, <2>1 DEF RegistrationUse
  <2>4. CausesPaid'
    BY <1>1, <1>2, <2>1 DEF CausesPaid, NoRegistrationHerd
  <2> QED
    BY <1>3, <2>2, <2>3, <2>4 DEF HooksIInv
<1>5. CASE StartupRetries \/ \E life \in Lives : StartupRegisters(life)
  <2>1. /\ issued' = issued + 1 /\ issued' \in 1 .. MaxIds /\ known' = known \cup {issued'}
        /\ \/ phase' \in {"starting", "failed"} /\ cached' = cached /\ causes' \in {causes, causes + 1}
           \/ /\ phase' = "up" /\ cached' \in Registrations /\ cached'.id = issued'
              /\ causes' \in {causes, causes + 1}
        /\ phase' = "starting" => causes' = causes + 1
        /\ phase' = "up" => causes' = causes + 1 \/ Usable(cached)'
    <3>1. CASE StartupRetries
      BY <1>1, <1>2, <3>1, ClientAssumption DEF StartupRetries
    <3>2. CASE \E life \in Lives : StartupRegisters(life)
      <4>1. PICK life \in Lives : StartupRegisters(life)
        BY <3>2
      <4>2. issued' = issued + 1 /\ issued' \in 1 .. MaxIds /\ known' = known \cup {issued'}
            /\ causes' \in {causes, causes + 1} /\ (life = "near" => causes' = causes + 1)
        BY <1>2, <4>1, ClientAssumption DEF StartupRegisters
      <4>3. CASE life = "expired"
        BY <4>1, <4>2, <4>3 DEF StartupRegisters
      <4>4. CASE life # "expired"
        <5>1. phase' = "up" /\ cached' = [id |-> issued', life |-> life]
          BY <4>1, <4>4 DEF StartupRegisters
        <5>2. cached'.id = issued' /\ cached'.life = life /\ cached' \in Registrations
          BY <4>2, <5>1 DEF Registrations
        <5>3. life # "near" => Usable(cached)'
          BY <4>2, <4>4, <5>2 DEF Usable, Lives
        <5> QED
          BY <4>2, <5>1, <5>2, <5>3
      <4> QED
        BY <4>3, <4>4
    <3> QED
      BY <1>5, <3>1, <3>2
  <2>2. known' \subseteq 1 .. issued' /\ refused' \subseteq 1 .. issued' /\ refused' \cap known' = {}
        /\ known' \subseteq 1 .. MaxIds
    BY <1>1, <1>2, <2>1
  <2>3. HooksTypeOK'
    <3>1. /\ phase' \in {"starting", "up", "closing", "closed", "failed"}
          /\ cached' \in Registrations /\ issued' \in 0 .. MaxIds /\ causes' \in Nat
      BY <1>1, <1>2, <2>1 DEF HooksTypeOK
    <3> QED
      BY <1>1, <1>2, <2>2, <3>1 DEF HooksTypeOK
  <2>4. RegistrationUse'
    <3>1. cached'.id <= issued' /\ \A q \in Invocations : reg'[q] <= issued'
      BY <1>1, <1>2, <2>1 DEF RegistrationUse, HooksTypeOK
    <3> QED
      BY <1>1, <1>2, <3>1 DEF RegistrationUse, Obtained
  <2>5. CausesPaid'
    <3>1. NoRegistrationHerd'
      BY <1>2, <2>1 DEF NoRegistrationHerd
    <3>2. \A q \in Invocations : pc'[q] = "idle"
      BY <1>1, <1>2
    <3>3. phase' = "starting" => cached' = NoRegistration
      BY <1>2, <2>1
    <3>4. phase' \in {"starting", "up", "closing"} =>
            issued' <= causes' + (IF Usable(cached)' /\ cached'.id \in known' THEN 1 ELSE 0)
      <4>1. issued' \in known' /\ issued' <= causes + 1
        BY <1>2, <2>1
      <4> QED
        BY <1>2, <2>1, <4>1
    <3> QED
      BY <2>2, <3>1, <3>2, <3>3, <3>4 DEF CausesPaid
  <2> QED
    BY <1>3, <2>3, <2>4, <2>5 DEF HooksIInv
<1> QED
  BY <1>4, <1>5

\* deregister, once the connections have drained.
LEMMA ShutdownStep ==
  ASSUME HooksIInv, Close \/ \E ok \in BOOLEAN : Deregister(ok)
  PROVE  HooksIInv'
<1>1. /\ HooksTypeOK /\ CausesPaid /\ RegistrationUse
      /\ UNCHANGED <<mutex, gauge, pc, locals, issued, restarts, history>>
  BY DEF HooksIInv, Close, Deregister, scanner
<1>2. UNCHANGED <<holder, queue, reg, body, recovered, retries, attempts, refused, causes>>
  BY <1>1 DEF mutex, locals, history
<1>3. LockShape' /\ GaugesBalance' /\ RequestMatchesRegistration' /\ AttemptsPaid'
  BY <1>1, OthersKept
<1>4. CASE Close
  <2>1. /\ phase = "up" /\ phase' = "closing" /\ UNCHANGED <<cached, known>>
        /\ \A q \in Invocations : pc[q] = "idle"
    BY <1>4 DEF Close, scanner
  <2>2. HooksTypeOK'
    BY <1>1, <1>2, <2>1 DEF HooksTypeOK
  <2>3. RegistrationUse'
    BY <1>1, <1>2, <2>1 DEF RegistrationUse
  <2>4. CausesPaid'
    BY <1>1, <1>2, <2>1 DEF CausesPaid, NoRegistrationHerd, Usable
  <2> QED
    BY <1>3, <2>2, <2>3, <2>4 DEF HooksIInv
<1>5. CASE \E ok \in BOOLEAN : Deregister(ok)
  <2>1. /\ phase = "closing" /\ phase' = "closed" /\ cached' = NoRegistration
        /\ known' \subseteq known
    BY <1>5 DEF Deregister
  <2>2. \A q \in Invocations : pc[q] = "idle" /\ ~recovered[q]
    BY <1>1, <2>1 DEF CausesPaid, RegistrationUse
  <2>3. cached' \in Registrations /\ cached'.id = 0
    BY <2>1, ClientAssumption DEF NoRegistration, Registrations, Lives
  <2>4. HooksTypeOK'
    <3>1. known' \subseteq 1 .. MaxIds
      BY <1>1, <2>1 DEF HooksTypeOK
    <3> QED
      BY <1>1, <1>2, <2>1, <2>3, <3>1 DEF HooksTypeOK
  <2>5. RegistrationUse'
    <3>1. cached'.id <= issued'
      BY <1>1, <2>3, ClientAssumption DEF HooksTypeOK
    <3> QED
      BY <1>1, <1>2, <2>2, <3>1 DEF RegistrationUse, Obtained
  <2>6. CausesPaid'
    BY <1>1, <1>2, <2>1, <2>2 DEF CausesPaid, NoRegistrationHerd
  <2> QED
    BY <1>3, <2>4, <2>5, <2>6 DEF HooksIInv
<1> QED
  BY <1>4, <1>5

\* Time passes for the cached registration: nearly expired, it is a cause of the next.
LEMMA AgeStep ==
  ASSUME HooksIInv, Age
  PROVE  HooksIInv'
<1>1. /\ HooksTypeOK /\ CausesPaid /\ RegistrationUse
      /\ UNCHANGED <<phase, mutex, gauge, pc, locals, issued, restarts, refused>>
  BY DEF HooksIInv, Age
<1>2. UNCHANGED <<holder, queue, reg, body, recovered, retries, attempts>>
  BY <1>1 DEF mutex, locals
<1>3. LockShape' /\ GaugesBalance' /\ RequestMatchesRegistration' /\ AttemptsPaid'
  BY <1>1, OthersKept
<1>4. /\ cached \in [id : 0 .. MaxIds, life : Lives] /\ cached.id # 0
      /\ cached' = [cached EXCEPT !.life = IF @ = "fresh" THEN "near" ELSE "expired"]
      /\ cached.life \in {"fresh", "near"}
      /\ known' = IF cached.life = "near" THEN known \ {cached.id} ELSE known
      /\ causes' = causes + (IF cached.life = "fresh" THEN 1 ELSE 0)
      /\ causes \in Nat /\ issued \in Nat
  BY <1>1, ClientAssumption DEF Age, HooksTypeOK, Registrations
<1>5. cached'.id = cached.id /\ cached'.life \in {"near", "expired"} /\ cached' \in Registrations
  BY <1>4 DEF Registrations, Lives
<1>6. known' \subseteq known /\ causes' \in Nat
  BY <1>4
<1>7. HooksTypeOK'
  <2>1. known' \subseteq 1 .. MaxIds
    BY <1>1, <1>6 DEF HooksTypeOK
  <2> QED
    BY <1>1, <1>2, <1>5, <1>6, <2>1 DEF HooksTypeOK
<1>8. RegistrationUse'
  BY <1>1, <1>2, <1>5 DEF RegistrationUse
<1>9. CausesPaid'
  <2>1. /\ phase # "starting" /\ issued <= 1 + causes
        /\ phase \in {"up", "closing"} =>
             issued <= causes + (IF Usable(cached) /\ cached.id \in known THEN 1 ELSE 0)
    BY <1>1, <1>4 DEF CausesPaid, NoRegistration, NoRegistrationHerd
  <2>2. phase' = phase /\ issued' = issued /\ refused' = refused /\ pc' = pc
    BY <1>1
  <2>3. phase' \in {"up", "closing"} => issued' <= causes'
    <3>1. CASE cached.life = "fresh"
      <4>1. causes' = causes + 1
        BY <1>4, <3>1
      <4> QED
        BY <1>4, <2>1, <2>2, <4>1
    <3>2. CASE cached.life = "near"
      <4>1. ~Usable(cached) /\ causes' = causes
        BY <1>4, <3>2 DEF Usable
      <4> QED
        BY <1>4, <2>1, <2>2, <4>1
    <3> QED
      BY <1>4, <3>1, <3>2
  <2>4. issued' <= 1 + causes'
    <3>1. causes <= causes'
      BY <1>4
    <3> QED
      BY <1>4, <1>6, <2>1, <2>2, <3>1
  <2>5. /\ phase' # "up" => \A p \in Invocations : pc'[p] = "idle"
        /\ known' \subseteq 1 .. issued' /\ refused' \subseteq 1 .. issued'
        /\ refused' \cap known' = {}
    BY <1>1, <1>6, <2>2 DEF CausesPaid
  <2>6. ~Usable(cached')
    BY <1>5 DEF Usable
  <2> QED
    BY <1>4, <1>6, <2>1, <2>2, <2>3, <2>4, <2>5, <2>6 DEF CausesPaid, NoRegistrationHerd
<1> QED
  BY <1>3, <1>7, <1>8, <1>9 DEF HooksIInv

\* A scanner that restarts has forgotten every registration, and is a cause of the next.
LEMMA RestartStep ==
  ASSUME HooksIInv, Restart
  PROVE  HooksIInv'
<1>1. /\ HooksTypeOK /\ CausesPaid /\ RegistrationUse
      /\ UNCHANGED <<phase, cached, mutex, gauge, pc, locals, issued, refused>>
      /\ restarts' = restarts + 1 /\ restarts < MaxRestarts /\ known' = {}
      /\ causes' = causes + 1
  BY DEF HooksIInv, Restart
<1>2. UNCHANGED <<holder, queue, reg, body, recovered, retries, attempts>>
  BY <1>1 DEF mutex, locals
<1>3. LockShape' /\ GaugesBalance' /\ RequestMatchesRegistration' /\ AttemptsPaid'
  BY <1>1, OthersKept
<1>4. causes \in Nat /\ issued \in Nat /\ restarts' \in 0 .. MaxRestarts
  BY <1>1, ClientAssumption DEF HooksTypeOK
<1>5. HooksTypeOK'
  BY <1>1, <1>2, <1>4 DEF HooksTypeOK
<1>6. RegistrationUse'
  BY <1>1, <1>2 DEF RegistrationUse
<1>7. CausesPaid'
  <2>1. phase \in {"starting", "up", "closing"} => issued' <= causes'
    BY <1>1, <1>4 DEF CausesPaid
  <2>2. NoRegistrationHerd'
    BY <1>1, <1>4 DEF CausesPaid, NoRegistrationHerd
  <2> QED
    BY <1>1, <1>2, <2>1, <2>2 DEF CausesPaid, Usable
<1> QED
  BY <1>3, <1>5, <1>6, <1>7 DEF HooksIInv

-----------------------------------------------------------------------------
(* The inductive invariant. *)

\* Before with_options has registered nothing is cached, held, counted or issued.
LEMMA HooksStarts ==
  ASSUME HooksInit
  PROVE  HooksIInv
<1>1. HooksTypeOK
  BY ClientAssumption
     DEF HooksInit, HooksTypeOK, Registrations, NoRegistration, Lives, Places
<1>2. LockShape
  BY ClientAssumption DEF HooksInit, LockShape, Holding, Waiting
<1>3. GaugesBalance
  <2>1. Observed("idle") = {}
    BY DEF Observed, Waiting
  <2>2. \A op \in Operations : {p \in Invocations : op \in Observed(pc[p])} = {}
    BY <2>1 DEF HooksInit
  <2> QED
    BY <2>2, FS_EmptySet DEF HooksInit, GaugesBalance
<1>4. RequestMatchesRegistration /\ RegistrationUse /\ AttemptsPaid
  BY DEF HooksInit, RequestMatchesRegistration, RegistrationUse, AttemptsPaid, Obtained,
     NoRegistration
<1>5. CausesPaid
  BY DEF HooksInit, CausesPaid, NoRegistrationHerd, Usable, NoRegistration
<1> QED
  BY <1>1, <1>2, <1>3, <1>4, <1>5 DEF HooksIInv

\* What an invocation does by itself or on an answer.
LEMMA OwnStep ==
  ASSUME HooksIInv, NEW p \in Invocations, Step(p)
  PROVE  HooksIInv'
<1>1. CASE HookEnds(p)
  BY <1>1, FinalStep DEF HookEnds, history
<1>2. CASE RequestFails(p)
  BY <1>2, FinalStep DEF RequestFails, history
<1>3. CASE HookRefused(p)
  <2>1. CASE ~recovered[p] /\ Recover(p)
    BY <1>3, <2>1, RecoverStep DEF HookRefused
  <2>2. CASE recovered[p] /\ Ends(p) /\ gauge' = Drop(gauge, "hook") /\ UNCHANGED mutex
    BY <1>3, <2>2, FinalStep DEF HookRefused
  <2> QED
    BY <1>3, <2>1, <2>2 DEF HookRefused
<1>4. CASE BuildRequest(p)
  BY <1>4, PostStep DEF BuildRequest
<1>5. CASE Retry(p)
  BY <1>5, PostStep DEF Retry
<1>6. CASE Relock(p)
  <2>1. phase = "up" /\ pc[p] = "relock"
    BY <1>6, Parts DEF Relock
  <2> QED
    BY <1>6, <2>1, AskStep DEF Relock
<1>7. CASE \E life \in Lives : Registered(p, life)
  BY <1>7, RegisteredStep
<1>8. CASE \E lost \in BOOLEAN : RegisterFails(p, lost)
  BY <1>8, RegisterFailsStep
<1> QED
  BY <1>1, <1>2, <1>3, <1>4, <1>5, <1>6, <1>7, <1>8, GrantedStep, CheckCacheStep,
     HookTransientStep, ClearRefusedStep DEF Step

\* Every step of the client, its callers, time or the scanner keeps the invariant.
LEMMA HooksStep ==
  ASSUME HooksIInv, [HooksNext]_hooksVars
  PROVE  HooksIInv'
<1>1. CASE \E p \in Invocations : Invoke(p)
  <2>1. PICK p \in Invocations : Invoke(p)
    BY <1>1
  <2> QED
    BY <2>1, AskStep DEF Invoke
<1>2. CASE \E p \in Invocations : Step(p) \/ Deadline(p)
  BY <1>2, OwnStep, DeadlineStep
<1>3. CASE Close \/ \E ok \in BOOLEAN : Deregister(ok)
  BY <1>3, ShutdownStep
<1>4. CASE StartupRetries \/ StartupFails \/ \E life \in Lives : StartupRegisters(life)
  BY <1>4, StartupStep
<1>5. CASE UNCHANGED hooksVars
  <2>1. UNCHANGED <<phase, cached, holder, queue, gauge, pc, reg, body, recovered, retries,
                    attempts, known, issued, restarts, refused, causes>>
    BY <1>5 DEF hooksVars, mutex, locals, scanner, history
  <2>2. LockShape' /\ GaugesBalance' /\ RequestMatchesRegistration' /\ AttemptsPaid'
    BY <1>5, OthersKept DEF hooksVars
  <2>3. HooksTypeOK' /\ RegistrationUse'
    BY <2>1 DEF HooksIInv, HooksTypeOK, RegistrationUse
  <2>4. CausesPaid'
    BY <2>1 DEF HooksIInv, CausesPaid, NoRegistrationHerd, Usable
  <2> QED
    BY <2>2, <2>3, <2>4 DEF HooksIInv
<1> QED
  BY <1>1, <1>2, <1>3, <1>4, <1>5, AgeStep, RestartStep DEF HooksNext

\* Every reachable state of the policy client satisfies the inductive invariant.
THEOREM HooksInvariant == HooksSpec => []HooksIInv
<1>1. HooksInit => HooksIInv
  BY HooksStarts
<1>2. HooksIInv /\ [HooksNext]_hooksVars => HooksIInv'
  BY HooksStep
<1> QED
  BY <1>1, <1>2, PTL DEF HooksSpec

\* Every variable keeps its type: in particular no gauge goes below zero and the retries
\* of one invocation never exceed HooksOptions.retries.
THEOREM HooksTypeCorrect == HooksSpec => []HooksTypeOK
<1>1. HooksIInv => HooksTypeOK
  BY DEF HooksIInv
<1> QED
  BY <1>1, HooksInvariant, PTL

\* The registration mutex is never lost and never held by a call that ended, wherever a
\* deadline drops the future, for any number of concurrent callers.
THEOREM MutexIsNeverLost == HooksSpec => []LockConsistent
<1>1. HooksIInv => LockConsistent
  BY Parts, ShapeIsConsistent
<1> QED
  BY <1>1, HooksInvariant, PTL

\* The statistics count exactly the futures that are alive: OperationStats.active returns
\* to zero when the invocations are over.
THEOREM GaugesAreBalanced == HooksSpec => []GaugesBalance
<1>1. HooksIInv => GaugesBalance
  BY DEF HooksIInv
<1> QED
  BY <1>1, HooksInvariant, PTL

\* Every request carries the properties of the registration it is posted to.
THEOREM RequestsMatch == HooksSpec => []RequestMatchesRegistration
<1>1. HooksIInv => RequestMatchesRegistration
  BY DEF HooksIInv
<1> QED
  BY <1>1, HooksInvariant, PTL

\* One evaluate() posts at most retries + 2 hooks, whatever the scanner answers.
THEOREM AttemptsAreBounded == HooksSpec => []BoundedAttempts
<1>1. HooksIInv => BoundedAttempts
  <2> SUFFICES ASSUME HooksIInv, NEW p \in Invocations
               PROVE  attempts[p] <= Retries + 2
    BY DEF BoundedAttempts
  <2>1. /\ attempts[p] \in Nat /\ retries[p] \in 0 .. Retries
        /\ attempts[p] <= retries[p] + (IF recovered[p] THEN 1 ELSE 0)
                            + (IF pc[p] = "hook" THEN 1 ELSE 0)
    BY DEF HooksIInv, HooksTypeOK, AttemptsPaid
  <2> QED
    BY <2>1, ClientAssumption
<1> QED
  BY <1>1, HooksInvariant, PTL

\* However many invocations find the registration gone at once, the scanner is asked for
\* one registration per event that makes one necessary.
THEOREM RegistrationIsShared == HooksSpec => []NoRegistrationHerd
<1>1. HooksIInv => NoRegistrationHerd
  BY DEF HooksIInv, CausesPaid
<1> QED
  BY <1>1, HooksInvariant, PTL
-----------------------------------------------------------------------------
(* What a step may never do. *)

\* Who changes what is cached.
LEMMA CacheDropped ==
  ASSUME HooksIInv, HooksNext, cached.id # 0, cached'.id = 0
  PROVE  cached.id \in refused \/ phase = "closing"
<1>1. CASE \E p \in Invocations : ClearRefused(p)
  <2>1. PICK p \in Invocations : ClearRefused(p)
    BY <1>1
  <2>2. pc[p] = "clear" /\ (cached.id = reg[p] \/ cached' = cached)
    BY <2>1 DEF ClearRefused
  <2>3. reg[p] \in refused
    BY <2>2 DEF HooksIInv, RegistrationUse
  <2> QED
    BY <2>2, <2>3
<1>2. CASE \E p \in Invocations : \E life \in Lives : Registered(p, life)
  <2>1. PICK p \in Invocations : \E life \in Lives : Registered(p, life)
    BY <1>2
  <2>2. PICK life \in Lives : Registered(p, life)
    BY <2>1
  <2>3. issued' # 0 /\ (cached' = cached \/ cached' = [id |-> issued', life |-> life])
    BY <2>2, ClientAssumption DEF Registered, HooksIInv, HooksTypeOK
  <2> QED
    BY <2>3
<1>3. CASE StartupRetries \/ StartupFails \/ \E life \in Lives : StartupRegisters(life)
  <2>1. phase = "starting"
    BY <1>3 DEF StartupRetries, StartupFails, StartupRegisters
  <2>2. cached.id = 0
    BY <2>1 DEF HooksIInv, CausesPaid, NoRegistration
  <2> QED
    BY <2>2
<1>4. CASE \E ok \in BOOLEAN : Deregister(ok)
  BY <1>4 DEF Deregister
<1>5. CASE Age
  <2>1. /\ cached \in [id : 0 .. MaxIds, life : Lives]
        /\ cached' = [cached EXCEPT !.life = IF @ = "fresh" THEN "near" ELSE "expired"]
    BY <1>5 DEF Age, HooksIInv, HooksTypeOK, Registrations
  <2>2. cached'.id = cached.id
    BY <2>1
  <2> QED
    BY <2>2
<1>6. CASE /\ ~ \E p \in Invocations : ClearRefused(p) \/ \E life \in Lives : Registered(p, life)
           /\ \E p \in Invocations : Invoke(p) \/ Step(p) \/ Deadline(p)
  <2>1. cached' = cached
    BY <1>6 DEF Invoke, Step, Deadline, Granted, CheckCache, HookEnds, HookRefused, HookTransient,
       BuildRequest, RequestFails, Relock, Retry, RegisterFails
  <2> QED
    BY <2>1
<1>7. CASE Close \/ Restart
  BY <1>7 DEF Close, Restart
<1> QED
  BY <1>1, <1>2, <1>3, <1>4, <1>5, <1>6, <1>7 DEF HooksNext

\* A late 404 for an old registration never discards its replacement: invoke compares the
\* id under the mutex before it clears the cache.
THEOREM ReplacementIsKept == HooksSpec => OnlyRefusedIsDropped
<1>1. HooksIInv /\ [HooksNext]_hooksVars =>
        [cached.id # 0 /\ cached'.id = 0 => cached.id \in refused \/ phase = "closing"]_hooksVars
  BY CacheDropped
<1> QED
  BY <1>1, HooksInvariant, PTL DEF HooksSpec, OnlyRefusedIsDropped

\* Who obtains a registration.
LEMMA ObtainsAnother ==
  ASSUME HooksIInv, HooksNext, NEW p \in Invocations, pc[p] \in {"check", "registering"},
         pc'[p] = "request", recovered[p]
  PROVE  reg'[p] # reg[p]
<1>1. /\ pc \in [Invocations -> Places] /\ reg \in [Invocations -> 0 .. MaxIds]
      /\ issued \in 0 .. MaxIds /\ reg[p] <= issued /\ cached.id # reg[p]
  BY DEF HooksIInv, HooksTypeOK, RegistrationUse
<1>2. PICK q \in Invocations : Invoke(q) \/ Step(q) \/ Deadline(q)
  BY DEF HooksNext, StartupRetries, StartupFails, StartupRegisters, Close, Age, Restart,
     Deregister
<1>3. q = p
  <2>1. \E a : pc' = [pc EXCEPT ![q] = a]
    BY <1>2 DEF Invoke, Step, Deadline, Granted, CheckCache, HookEnds, HookRefused, HookTransient,
       BuildRequest, RequestFails, ClearRefused, Relock, Retry, Registered, RegisterFails,
       Goto, Ends, Obtain, PostHook, Recover
  <2>2. PICK a : pc' = [pc EXCEPT ![q] = a]
    BY <2>1
  <2> QED
    BY <1>1, <2>2
<1>4. CheckCache(p) \/ \E life \in Lives : Registered(p, life)
  <2>1. ~Ends(p) /\ \A a : Goto(p, a) => a = "request"
    BY <1>1 DEF Ends, Goto
  <2> QED
    BY <1>2, <1>3, <2>1 DEF Invoke, Step, Deadline, Granted, HookEnds, HookRefused, HookTransient,
       BuildRequest, RequestFails, ClearRefused, Relock, Retry, RegisterFails, Waiting
<1>5. CASE CheckCache(p)
  <2>1. reg' = [reg EXCEPT ![p] = cached.id]
    BY <1>1, <1>5 DEF CheckCache, Obtain, Goto
  <2> QED
    BY <1>1, <2>1
<1>6. CASE \E life \in Lives : Registered(p, life)
  <2>1. reg' = [reg EXCEPT ![p] = issued'] /\ issued' = issued + 1
    BY <1>1, <1>6 DEF Registered, Obtain, Ends, Goto
  <2> QED
    BY <1>1, <2>1, ClientAssumption
<1> QED
  BY <1>4, <1>5, <1>6

\* After its one recovery an invocation works with another registration than the one that
\* was refused to it, whether it registers itself or shares what another caller cached.
THEOREM RecoveryMakesProgress == HooksSpec => RecoveryUsesAnother
<1>1. HooksIInv /\ [HooksNext]_hooksVars =>
        [\A p \in Invocations :
           pc[p] \in {"check", "registering"} /\ pc'[p] = "request" /\ recovered[p] =>
             reg'[p] # reg[p]]_hooksVars
  BY ObtainsAnother
<1> QED
  BY <1>1, HooksInvariant, PTL DEF HooksSpec, RecoveryUsesAnother
=============================================================================
