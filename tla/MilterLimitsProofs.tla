------------------------ MODULE MilterLimitsProofs ------------------------
(***************************************************************************)
(* More proofs about MilterSession, from its inductive invariant.  It      *)
(* stays within the limits that are sums: the macro batches held, the raw  *)
(* message rebuilt from the session and the frames of a list of edits      *)
(* (sums are reasoned about in SumLemmas).  And the hook request that      *)
(* HookRequest builds from it is always that of the current transaction.   *)
(***************************************************************************)
EXTENDS HookRequest, MilterSessionProofs, SumLemmas

-----------------------------------------------------------------------------
(* Macro batches. *)

\* There are finitely many macro stages.
LEMMA MacroStagesFinite == IsFiniteSet(MacroStages)
<1>1. \A x, y : IsFiniteSet({x} \cup {y})
  BY FS_Singleton, FS_Union
<1>2. IsFiniteSet({"C"} \cup {"H"}) /\ IsFiniteSet({"M"} \cup {"R"}) /\ IsFiniteSet({"T"} \cup {"U"})
      /\ IsFiniteSet({"N"} \cup {"E"}) /\ IsFiniteSet({"L"} \cup {"B"})
  BY <1>1
<1>3. \A S, T : IsFiniteSet(S) /\ IsFiniteSet(T) => IsFiniteSet(S \cup T)
  BY FS_Union
<1>4. IsFiniteSet(((({"C"} \cup {"H"}) \cup ({"M"} \cup {"R"})) \cup (({"T"} \cup {"U"})
        \cup ({"N"} \cup {"E"}))) \cup ({"L"} \cup {"B"}))
  BY <1>2, <1>3, Zenon
<1>5. MacroStages = ((({"C"} \cup {"H"}) \cup ({"M"} \cup {"R"})) \cup (({"T"} \cup {"U"})
        \cup ({"N"} \cup {"E"}))) \cup ({"L"} \cup {"B"})
  BY DEF MacroStages
<1> QED
  BY <1>4, <1>5

\* A macro map is a function from a finite set to the naturals: it has a total.
LEMMA BatchesHaveTotal ==
  ASSUME NEW f, IsBatches(f)
  PROVE  IsFiniteSet(DOMAIN f) /\ f \in [DOMAIN f -> Nat] /\ SumFunction(f) \in Nat
<1>1. IsFiniteSet(DOMAIN f) /\ f \in [DOMAIN f -> Nat]
  BY MacroStagesFinite, FS_Subset DEF IsBatches
<1>2. PICK D : D = DOMAIN f
  OBVIOUS
<1>3. SumFunction(f) \in Nat
  BY <1>1, <1>2, SumSetApart
<1> QED
  BY <1>1, <1>3

\* Retaining some batches never adds to their total (reset_message).
LEMMA RetainedTotal ==
  ASSUME NEW f, NEW S, IsBatches(f)
  PROVE  SumFunction(Retain(f, S)) <= SumFunction(f)
<1>1. PICK D : D = DOMAIN f
  OBVIOUS
<1>2. IsFiniteSet(D) /\ f \in [D -> Nat] /\ D \cap S \in SUBSET D
  BY <1>1, BatchesHaveTotal
<1>3. Retain(f, S) = Restrict(f, D \cap S)
  BY <1>1 DEF Retain, Restrict
<1> QED
  BY <1>2, <1>3, SumOfPart

\* Removing a batch takes its bytes off the total.
LEMMA RemovedTotal ==
  ASSUME NEW f, NEW k, IsBatches(f), k \in DOMAIN f
  PROVE  f[k] \in Nat /\ SumFunction(f) = f[k] + SumFunction(Remove(f, k))
<1>1. PICK D : D = DOMAIN f
  OBVIOUS
<1>2. IsFiniteSet(D) /\ f \in [D -> Nat] /\ k \in D
  BY <1>1, BatchesHaveTotal
<1>3. Remove(f, k) = Restrict(f, D \ {k})
  BY <1>1 DEF Remove, Retain, Restrict
<1> QED
  BY <1>2, <1>3, SumSetApart

\* Inserting a batch adds its bytes at most: it may replace another.
LEMMA InsertedTotal ==
  ASSUME NEW f, NEW k \in MacroStages, NEW v \in Nat, IsBatches(f)
  PROVE  SumFunction(Put(f, k, v)) <= v + SumFunction(f)
<1> DEFINE p == Put(f, k, v)
<1>1. IsBatches(p) /\ k \in DOMAIN p /\ p[k] = v
  BY PutBatches DEF Put
<1>2. Remove(p, k) = Remove(f, k)
  BY DEF Remove, Retain, Put
<1> HIDE DEF p
<1>3. SumFunction(p) = v + SumFunction(Remove(f, k))
  BY <1>1, <1>2, RemovedTotal
<1>4. SumFunction(Remove(f, k)) <= SumFunction(f)
  BY RetainedTotal DEF Remove
<1>5. SumFunction(Remove(f, k)) \in Nat /\ SumFunction(f) \in Nat
  BY RetainBatches, BatchesHaveTotal DEF Remove
<1> QED
  BY <1>3, <1>4, <1>5 DEF p

\* Moving a batch from the waiting map to the active one never adds to the total
\* (activate_macros).
LEMMA ActivatedTotal ==
  ASSUME NEW f, NEW g, NEW op \in MacroStages, IsBatches(f), IsBatches(g)
  PROVE  MacroTotal(Activated(f, g, op), Remove(g, op)) <= MacroTotal(f, g)
<1>1. SumFunction(f) \in Nat /\ SumFunction(g) \in Nat
  BY BatchesHaveTotal
<1>2. IsBatches(Activated(f, g, op)) /\ IsBatches(Remove(g, op)) /\ IsBatches(Remove(f, op))
  BY ActivateBatches, RetainBatches DEF Remove
<1>3. /\ SumFunction(Activated(f, g, op)) \in Nat /\ SumFunction(Remove(g, op)) \in Nat
      /\ SumFunction(Remove(f, op)) \in Nat
  BY <1>2, BatchesHaveTotal
<1>4. CASE op \in DOMAIN g
  <2>1. g[op] \in Nat /\ SumFunction(g) = g[op] + SumFunction(Remove(g, op))
    BY <1>4, RemovedTotal
  <2>2. SumFunction(Activated(f, g, op)) <= g[op] + SumFunction(f)
    BY <1>4, <2>1, InsertedTotal DEF Activated
  <2> QED
    BY <1>1, <1>3, <2>1, <2>2 DEF MacroTotal
<1>5. CASE op \notin DOMAIN g
  <2>1. Activated(f, g, op) = Remove(f, op)
    BY <1>5 DEF Activated
  <2>2. SumFunction(Remove(f, op)) <= SumFunction(f) /\ SumFunction(Remove(g, op)) <= SumFunction(g)
    BY RetainedTotal DEF Remove
  <2> QED
    BY <1>1, <1>3, <2>1, <2>2 DEF MacroTotal
<1> QED
  BY <1>4, <1>5

\* Nor does retaining batches of both maps.
LEMMA RetainedTotals ==
  ASSUME NEW f, NEW g, NEW S, NEW T, IsBatches(f), IsBatches(g)
  PROVE  MacroTotal(Retain(f, S), Retain(g, T)) <= MacroTotal(f, g)
<1>1. SumFunction(f) \in Nat /\ SumFunction(g) \in Nat
  BY BatchesHaveTotal
<1>2. SumFunction(Retain(f, S)) \in Nat /\ SumFunction(Retain(g, T)) \in Nat
  BY RetainBatches, BatchesHaveTotal
<1>3. SumFunction(Retain(f, S)) <= SumFunction(f) /\ SumFunction(Retain(g, T)) <= SumFunction(g)
  BY RetainedTotal
<1> QED
  BY <1>1, <1>2, <1>3 DEF MacroTotal

\* A step leaves the total of the batches where it was or lower, or announces a batch
\* that was tested against the limit.
LEMMA MacroTotalsStay ==
  ASSUME IInv, [Next]_vars
  PROVE  \/ MacroTotal(macros', pendingMacros') <= MacroTotal(macros, pendingMacros)
         \/ MacroTotal(macros', pendingMacros') <= MacroBytes
<1> DEFINE Lower == MacroTotal(macros', pendingMacros') <= MacroTotal(macros, pendingMacros)
<1>1. IsBatches(macros) /\ IsBatches(pendingMacros)
  BY DEF IInv, TypeOK
<1>2. MacroTotal(macros, pendingMacros) \in Nat
  BY <1>1, BatchesHaveTotal DEF MacroTotal
<1>3. ASSUME UNCHANGED <<macros, pendingMacros>>
      PROVE  Lower
  BY <1>2, <1>3
<1>4. ASSUME NEW op \in MacroStages, ActivateMacros(op)
      PROVE  Lower
  BY <1>1, <1>4, ActivatedTotal DEF ActivateMacros
<1>5. ASSUME ResetMessage
      PROVE  Lower
  BY <1>1, <1>5, RetainedTotals DEF ResetMessage
<1>6. ASSUME NEW cmd \in Commands, Mail(cmd)
      PROVE  Lower
  <2> DEFINE f == Retain(macros, ConnectionMacros)
             g == Retain(pendingMacros, ConnectionMacros \cup {"M"})
  <2>1. IsBatches(f) /\ IsBatches(g) /\ "M" \in MacroStages
    BY <1>1, RetainBatches DEF MacroStages
  <2>2. macros' = Activated(f, g, "M") /\ pendingMacros' = Retain(pendingMacros, ConnectionMacros)
    BY <1>6 DEF Mail
  <2>3. Retain(pendingMacros, ConnectionMacros) = Remove(g, "M")
    BY DEF Remove, Retain, ConnectionMacros
  <2>4. MacroTotal(f, g) <= MacroTotal(macros, pendingMacros)
    BY <1>1, RetainedTotals
  <2>5. MacroTotal(f, g) \in Nat
    BY <2>1, BatchesHaveTotal DEF MacroTotal
  <2>6. IsBatches(Activated(f, g, "M")) /\ IsBatches(Remove(g, "M"))
    BY <2>1, ActivateBatches
  <2> HIDE DEF f, g
  <2>7. MacroTotal(Activated(f, g, "M"), Remove(g, "M")) <= MacroTotal(f, g)
    BY <2>1, ActivatedTotal
  <2>8. MacroTotal(Activated(f, g, "M"), Remove(g, "M")) \in Nat
    BY <2>6, BatchesHaveTotal DEF MacroTotal
  <2> QED
    BY <1>2, <2>2, <2>3, <2>4, <2>5, <2>7, <2>8
<1>7. ASSUME NEW cmd \in Commands, QuitNewConnection(cmd)
      PROVE  Lower
  <2>1. SumFunction(NoBatches) = 0
    BY SumOfNothing DEF NoBatches
  <2>2. macros' = NoBatches /\ pendingMacros' = NoBatches
    BY <1>7 DEF QuitNewConnection
  <2> QED
    BY <1>2, <2>1, <2>2 DEF MacroTotal
<1>8. ASSUME NEW cmd \in Commands, Macro(cmd)
      PROVE  MacroTotal(macros', pendingMacros') <= MacroBytes
  <2>1. MacrosFit(cmd.arg)
    BY <1>8 DEF Macro, Takes, Accepted, WithinLimits
  <2>2. macros' = macros /\ pendingMacros' = Put(pendingMacros, cmd.arg.stage, cmd.arg.bytes)
    BY <1>8 DEF Macro
  <2> QED
    BY <2>1, <2>2 DEF MacrosFit
<1>9. ASSUME NEW cmd \in Commands, Receive(cmd)
      PROVE  \/ UNCHANGED <<macros, pendingMacros>>
             \/ \E op \in MacroStages : ActivateMacros(op)
             \/ ResetMessage
             \/ Mail(cmd) \/ QuitNewConnection(cmd) \/ Macro(cmd)
  <2>1. CASE Negotiate(cmd) \/ Refuse(cmd)
    BY <2>1 DEF Negotiate, Refuse
  <2>2. CASE Connect(cmd) \/ Helo(cmd) \/ Recipient(cmd) \/ Data(cmd) \/ Header(cmd)
    BY <2>2 DEF Connect, Helo, Recipient, Data, Header, MacroStages
  <2>3. CASE EndHeaders(cmd) \/ Body(cmd) \/ EndMessage(cmd) \/ Unknown(cmd)
    BY <2>3 DEF EndHeaders, Body, EndMessage, Unknown, MacroStages
  <2>4. CASE Abort(cmd) \/ Quit(cmd)
    BY <2>4 DEF Abort, Quit
  <2> QED
    BY <1>9, <2>1, <2>2, <2>3, <2>4 DEF Receive
<1>10. ASSUME NEW d \in Decisions, Complete(d)
       PROVE  ResetMessage \/ UNCHANGED <<macros, pendingMacros>>
  BY <1>10 DEF Complete, ApplyVerdict, RefuseRecipient
<1>11. CASE UNCHANGED vars
  BY <1>3, <1>11 DEF vars
<1> HIDE DEF Lower
<1>12. ASSUME NEW cmd \in Commands, Receive(cmd)
       PROVE  Lower \/ MacroTotal(macros', pendingMacros') <= MacroBytes
  BY <1>3, <1>4, <1>5, <1>6, <1>7, <1>8, <1>9, <1>12
<1>13. ASSUME NEW d \in Decisions, Complete(d)
       PROVE  Lower
  BY <1>3, <1>5, <1>10, <1>13
<1> QED
  BY <1>11, <1>12, <1>13 DEF Next, Lower

\* The macro batches held, active and waiting together, are within the limit whatever the
\* MTA announces and whichever command follows (receive, activate_macros, reset_message).
THEOREM MacrosStayWithinBudget == Spec => []MacroBudget
<1>1. Init => MacroBudget
  <2>1. SumFunction(NoBatches) = 0
    BY SumOfNothing DEF NoBatches
  <2> QED
    BY <2>1, LimitsAssumption DEF Init, MacroBudget, MacroTotal
<1>2. IInv /\ MacroBudget /\ [Next]_vars /\ IInv' => MacroBudget'
  <2> SUFFICES ASSUME IInv, MacroBudget, [Next]_vars, IInv'
               PROVE  MacroBudget'
    OBVIOUS
  <2>1. MacroTotal(macros, pendingMacros) \in Nat /\ MacroTotal(macros', pendingMacros') \in Nat
    <3>1. IsBatches(macros) /\ IsBatches(pendingMacros)
      BY DEF IInv, TypeOK
    <3>2. IsBatches(macros') /\ IsBatches(pendingMacros')
      BY DEF IInv, TypeOK
    <3> QED
      BY <3>1, <3>2, BatchesHaveTotal DEF MacroTotal
  <2>2. MacroTotal(macros', pendingMacros') <= MacroBytes
    BY <2>1, MacroTotalsStay, LimitsAssumption DEF MacroBudget
  <2> QED
    BY <2>2 DEF MacroBudget, MacroTotal
<1> QED
  BY <1>1, <1>2, SessionInvariant, PTL DEF Spec

-----------------------------------------------------------------------------
(* The raw message. *)

\* RawFieldBytes and its sum over the header fields, with the negotiated bit as an argument.
RawField(h, leading) == h.bytes + 3 + (IF leading \/ h.fold THEN 0 ELSE 1)
RawFields(hs, leading) == SumFunction([i \in DOMAIN hs |-> RawField(hs[i], leading)])

\* What raw_message will write so far, compared with what the session charged: fields,
\* the blank line once the headers ended, and the body.
Charged == RawFields(message.headers, LeadingSpace) + (IF state = "Body" THEN 2 ELSE 0)
             + message.body <= message.bytes

\* A field takes at most the four bytes more than its own that receive charges for it.
LEMMA FieldIsCharged ==
  ASSUME NEW h \in HeaderFields, NEW leading \in BOOLEAN
  PROVE  RawField(h, leading) \in Nat /\ h.bytes \in Nat /\ RawField(h, leading) <= h.bytes + 4
<1>1. h.bytes \in Nat /\ h.fold \in BOOLEAN
  BY MtaAssumption
<1>2. CASE leading \/ h.fold
  BY <1>1, <1>2 DEF RawField
<1>3. CASE ~(leading \/ h.fold)
  BY <1>1, <1>3 DEF RawField
<1> QED
  BY <1>2, <1>3

\* The header fields have a total.
LEMMA FieldsHaveTotal ==
  ASSUME NEW hs \in Seq(HeaderFields), NEW leading \in BOOLEAN
  PROVE  RawFields(hs, leading) \in Nat
<1> DEFINE f == [i \in DOMAIN hs |-> RawField(hs[i], leading)]
<1>1. IsFiniteSet(DOMAIN hs)
  <2>1. DOMAIN hs = 1 .. Len(hs) /\ Len(hs) \in Nat
    OBVIOUS
  <2> QED
    BY <2>1, FS_Interval
<1>2. \A i \in DOMAIN hs : hs[i] \in HeaderFields
  OBVIOUS
<1>3. f \in [DOMAIN hs -> Nat]
  BY <1>2, FieldIsCharged
<1> HIDE DEF f
<1>4. PICK D : D = DOMAIN hs
  OBVIOUS
<1>5. SumFunction(f) \in Nat
  BY <1>1, <1>3, <1>4, SumSetApart
<1> QED
  BY <1>5 DEF RawFields, f

\* Without fields the total is nothing, and one more field adds its own bytes.
LEMMA FieldsGrow ==
  ASSUME NEW hs \in Seq(HeaderFields), NEW h \in HeaderFields, NEW leading \in BOOLEAN
  PROVE  RawFields(Append(hs, h), leading) = RawFields(hs, leading) + RawField(h, leading)
<1>1. PICK n : n = Len(hs)
  OBVIOUS
<1>2. n \in Nat /\ DOMAIN hs = 1 .. n
  BY <1>1
<1> DEFINE t == Append(hs, h)
           f == [i \in DOMAIN t |-> RawField(t[i], leading)]
           e == [i \in DOMAIN hs |-> RawField(hs[i], leading)]
           D == 1 .. (n + 1)
<1>3. t \in Seq(HeaderFields) /\ Len(t) = n + 1
  BY <1>1
<1>4. DOMAIN t = D
  BY <1>2, <1>3
<1>5. t[n + 1] = h /\ \A i \in 1 .. n : t[i] = hs[i]
  BY <1>1, <1>2
<1>6. \A i \in D : t[i] \in HeaderFields
  BY <1>3, <1>4
<1> HIDE DEF t
<1>7. f \in [D -> Nat]
  BY <1>4, <1>6, FieldIsCharged
<1>8. IsFiniteSet(D) /\ n + 1 \in D
  BY <1>2, FS_Interval
<1>9. D \ {n + 1} = 1 .. n
  BY <1>2
<1>10. Restrict(f, D \ {n + 1}) = e
  BY <1>2, <1>4, <1>5, <1>9 DEF Restrict
<1>11. f[n + 1] = RawField(h, leading)
  BY <1>4, <1>5, <1>8
<1> HIDE DEF f, D, e
<1>12. SumFunction(f) = f[n + 1] + SumFunction(Restrict(f, D \ {n + 1}))
  BY <1>7, <1>8, SumSetApart
<1>13. RawFields(t, leading) = SumFunction(f) /\ RawFields(hs, leading) = SumFunction(e)
  BY DEF RawFields, f, e
<1>14. SumFunction(e) \in Nat
  BY <1>13, FieldsHaveTotal
<1>15. RawField(h, leading) \in Nat
  BY FieldIsCharged
<1> QED
  BY <1>10, <1>11, <1>12, <1>13, <1>14, <1>15 DEF t

\* An empty message needs no bytes.
LEMMA NoFields ==
  ASSUME NEW leading
  PROVE  RawFields(<<>>, leading) = 0
<1> DEFINE f == [i \in DOMAIN <<>> |-> RawField(<<>>[i], leading)]
<1>1. DOMAIN f = {}
  OBVIOUS
<1> HIDE DEF f
<1>2. SumFunction(f) = 0
  BY <1>1, SumOfNothing
<1> QED
  BY <1>2 DEF RawFields, f

\* What a step does to the content: it starts over, adds a field, the blank line or a
\* piece of the body and charges it, or leaves content and charge alone.
ContentCleared == message'.headers = <<>> /\ message'.body = 0 /\ state' # "Body"
ContentKept == /\ message'.headers = message.headers /\ message'.body = message.body
               /\ message'.bytes = message.bytes /\ options' = options
               /\ state' = "Body" => state = "Body"
FieldAdded(h) == /\ message'.headers = Append(message.headers, h)
                 /\ message'.bytes = message.bytes + h.bytes + 4
                 /\ message'.body = message.body /\ options' = options
                 /\ state' # "Body"
HeadersEnded == /\ message'.headers = message.headers /\ message'.body = message.body
                /\ message'.bytes = message.bytes + 2 /\ options' = options
                /\ state # "Body"
BodyAdded(n) == /\ message'.headers = message.headers
                /\ message'.body = message.body + n
                /\ message'.bytes = message.bytes + n /\ options' = options
                /\ state = "Body"

\* Each command of the MTA does one of these to the content (receive).
LEMMA ReceivedContent ==
  ASSUME IInv, NEW cmd \in Commands, Receive(cmd)
  PROVE  \/ ContentCleared \/ ContentKept \/ HeadersEnded
         \/ \E h \in HeaderFields : FieldAdded(h)
         \/ \E n \in Nat : BodyAdded(n)
<1>1. message \in MessageType
  BY DEF IInv, TypeOK, MessageType
<1>2. EmptyMessage.headers = <<>> /\ EmptyMessage.body = 0
  BY DEF EmptyMessage
<1>3. CASE Negotiate(cmd)
  <2>1. message = EmptyMessage /\ message' = message /\ state' # "Body"
    BY <1>3 DEF Negotiate, Takes, Accepted, RequiredStates, IInv, TransactionShape, InTransaction
  <2> QED
    BY <1>2, <2>1 DEF ContentCleared
<1>4. CASE Macro(cmd) \/ Helo(cmd) \/ EndMessage(cmd) \/ Unknown(cmd) \/ Refuse(cmd)
  BY <1>4 DEF Macro, Helo, EndMessage, Unknown, Refuse, context, ContentKept
<1>5. CASE Connect(cmd) \/ Data(cmd)
  BY <1>5 DEF Connect, Data, context, ContentKept
<1>6. CASE Mail(cmd)
  <2>1. message' = [EmptyMessage EXCEPT !.sender = cmd.arg, !.envelopeBytes = cmd.arg.bytes]
    BY <1>6 DEF Mail
  <2>2. message'.headers = <<>> /\ message'.body = 0
    BY <2>1 DEF EmptyMessage
  <2>3. state' # "Body"
    BY <1>6 DEF Mail
  <2> QED
    BY <2>2, <2>3 DEF ContentCleared
<1>7. CASE Recipient(cmd)
  <2>1. message' = [message EXCEPT !.recipients = Append(@, cmd.arg),
                                   !.envelopeBytes = @ + cmd.arg.bytes]
    BY <1>7 DEF Recipient
  <2>2. /\ message'.headers = message.headers /\ message'.body = message.body
        /\ message'.bytes = message.bytes
    BY <1>1, <2>1 DEF MessageType
  <2>3. options' = options /\ state' # "Body"
    BY <1>7 DEF Recipient, context
  <2> QED
    BY <2>2, <2>3 DEF ContentKept
<1>8. CASE Header(cmd)
  <2>1. message' = [message EXCEPT !.headers = Append(@, cmd.arg),
                                   !.bytes = @ + cmd.arg.bytes + 4]
    BY <1>8 DEF Header
  <2>2. /\ message'.headers = Append(message.headers, cmd.arg)
        /\ message'.body = message.body
        /\ message'.bytes = message.bytes + cmd.arg.bytes + 4
    BY <1>1, <2>1 DEF MessageType
  <2>3. options' = options /\ state' # "Body" /\ cmd.op = "L"
    BY <1>8 DEF Header, Takes, context
  <2>4. cmd.arg \in HeaderFields
    BY <2>3, CommandArguments
  <2> QED
    BY <2>2, <2>3, <2>4 DEF FieldAdded
<1>9. CASE EndHeaders(cmd)
  <2>1. message' = [message EXCEPT !.bytes = @ + 2]
    BY <1>9 DEF EndHeaders
  <2>2. /\ message'.headers = message.headers /\ message'.body = message.body
        /\ message'.bytes = message.bytes + 2
    BY <1>1, <2>1 DEF MessageType
  <2>3. options' = options /\ state # "Body"
    BY <1>9 DEF EndHeaders, Takes, Accepted, RequiredStates, context
  <2> QED
    BY <2>2, <2>3 DEF HeadersEnded
<1>10. CASE Body(cmd)
  <2>1. message' = [message EXCEPT !.body = @ + cmd.arg.bytes, !.bytes = @ + cmd.arg.bytes]
    BY <1>10 DEF Body
  <2>2. /\ message'.headers = message.headers
        /\ message'.body = message.body + cmd.arg.bytes
        /\ message'.bytes = message.bytes + cmd.arg.bytes
    BY <1>1, <2>1 DEF MessageType
  <2>3. options' = options /\ state = "Body" /\ cmd.op = "B"
    BY <1>10 DEF Body, Takes, Accepted, RequiredStates, context
  <2>4. cmd.arg.bytes \in Nat
    BY <2>3, CommandArguments
  <2> QED
    BY <2>2, <2>3, <2>4 DEF BodyAdded
<1>11. CASE Abort(cmd) \/ QuitNewConnection(cmd) \/ Quit(cmd)
  <2>1. message' = EmptyMessage
    BY <1>11 DEF Abort, QuitNewConnection, Quit, ResetMessage
  <2>2. state' # "Body"
    <3>1. CASE Abort(cmd)
      <4>1. state = "Body" => connection
        BY DEF IInv, TransactionShape, InTransaction
      <4> QED
        BY <3>1, <4>1 DEF Abort
    <3> QED
      BY <1>11, <3>1 DEF QuitNewConnection, Quit
  <2> QED
    BY <1>2, <2>1, <2>2 DEF ContentCleared
<1> QED
  BY <1>3, <1>4, <1>5, <1>6, <1>7, <1>8, <1>9, <1>10, <1>11 DEF Receive

\* A verdict clears the content or leaves it alone (complete).
LEMMA CompletedContent ==
  ASSUME IInv, NEW d \in Decisions, Complete(d)
  PROVE  ContentCleared \/ ContentKept
<1>1. message \in MessageType
  BY DEF IInv, TypeOK, MessageType
<1>2. EmptyMessage.headers = <<>> /\ EmptyMessage.body = 0
  BY DEF EmptyMessage
<1>3. options' = options
  BY DEF Complete, context
<1>4. \/ ResetMessage /\ state' # "Body"
      \/ RefuseRecipient
      \/ message' = message /\ (state' = state \/ state' = "Stopped")
  BY DEF Complete, ApplyVerdict
<1>5. CASE ResetMessage /\ state' # "Body"
  BY <1>2, <1>5 DEF ResetMessage, ContentCleared
<1>6. CASE RefuseRecipient
  <2>1. message' = [message EXCEPT !.recipients = DropLast(@)] /\ state' # "Body"
    BY <1>6 DEF RefuseRecipient
  <2>2. /\ message'.headers = message.headers /\ message'.body = message.body
        /\ message'.bytes = message.bytes
    BY <1>1, <2>1 DEF MessageType
  <2> QED
    BY <1>3, <2>1, <2>2 DEF ContentKept
<1>7. CASE message' = message /\ (state' = state \/ state' = "Stopped")
  BY <1>3, <1>7 DEF ContentKept
<1> QED
  BY <1>4, <1>5, <1>6, <1>7

\* Every byte raw_message will write has been charged.
LEMMA ChargedStays == IInv /\ Charged /\ [Next]_vars /\ IInv' => Charged'
<1> SUFFICES ASSUME IInv, Charged, [Next]_vars, IInv'
             PROVE  Charged'
  OBVIOUS
<1>1. /\ message.headers \in Seq(HeaderFields) /\ message.body \in Nat /\ message.bytes \in Nat
      /\ LeadingSpace \in BOOLEAN
  BY LimitsAssumption DEF IInv, TypeOK, LeadingSpace
<1>2. message'.bytes \in Nat
  BY LimitsAssumption DEF IInv, TypeOK
<1>3. PICK total : total = RawFields(message.headers, LeadingSpace)
  OBVIOUS
<1>4. total \in Nat
  BY <1>1, <1>3, FieldsHaveTotal
<1>5. total + (IF state = "Body" THEN 2 ELSE 0) + message.body <= message.bytes
  BY <1>3 DEF Charged
<1>6. options' = options => LeadingSpace' = LeadingSpace
  BY DEF LeadingSpace
<1>7. SUFFICES RawFields(message'.headers, LeadingSpace') + (IF state' = "Body" THEN 2 ELSE 0)
                 + message'.body <= message'.bytes
  BY <1>7 DEF Charged, RawFields
<1>8. CASE ContentCleared
  <2>1. RawFields(message'.headers, LeadingSpace') = 0
    BY <1>8, NoFields DEF ContentCleared
  <2> QED
    BY <1>2, <1>8, <2>1 DEF ContentCleared
<1>9. CASE ContentKept
  <2>1. RawFields(message'.headers, LeadingSpace') = total
    BY <1>3, <1>6, <1>9 DEF ContentKept
  <2> QED
    BY <1>1, <1>4, <1>5, <1>9, <2>1 DEF ContentKept
<1>10. CASE HeadersEnded
  <2>1. RawFields(message'.headers, LeadingSpace') = total
    BY <1>3, <1>6, <1>10 DEF HeadersEnded
  <2> QED
    BY <1>1, <1>4, <1>5, <1>10, <2>1 DEF HeadersEnded
<1>11. ASSUME NEW h \in HeaderFields, FieldAdded(h)
       PROVE  RawFields(message'.headers, LeadingSpace') + (IF state' = "Body" THEN 2 ELSE 0)
                 + message'.body <= message'.bytes
  <2>1. PICK field : field = RawField(h, LeadingSpace)
    OBVIOUS
  <2>2. field \in Nat /\ h.bytes \in Nat /\ field <= h.bytes + 4
    BY <1>1, <2>1, FieldIsCharged
  <2>3. RawFields(message'.headers, LeadingSpace') = total + field
    BY <1>1, <1>3, <1>6, <1>11, <2>1, FieldsGrow DEF FieldAdded
  <2> QED
    BY <1>1, <1>4, <1>5, <1>11, <2>2, <2>3 DEF FieldAdded
<1>12. ASSUME NEW n \in Nat, BodyAdded(n)
       PROVE  RawFields(message'.headers, LeadingSpace') + (IF state' = "Body" THEN 2 ELSE 0)
                 + message'.body <= message'.bytes
  <2>1. RawFields(message'.headers, LeadingSpace') = total
    BY <1>3, <1>6, <1>12 DEF BodyAdded
  <2> QED
    BY <1>1, <1>4, <1>5, <1>12, <2>1 DEF BodyAdded
<1>13. CASE UNCHANGED vars
  BY <1>9, <1>13 DEF vars, ContentKept
<1>14. CASE Next
  <2>1. \/ ContentCleared \/ ContentKept \/ HeadersEnded
        \/ \E h \in HeaderFields : FieldAdded(h)
        \/ \E n \in Nat : BodyAdded(n)
    BY <1>14, ReceivedContent, CompletedContent DEF Next
  <2> QED
    BY <1>8, <1>9, <1>10, <1>11, <1>12, <2>1
<1> QED
  BY <1>13, <1>14

\* The message raw_message rebuilds is never larger than what the session charged for it,
\* hence within the message limit, whatever fields and pieces the MTA sent and whatever
\* was negotiated about the leading space (receive, account, raw_message).
THEOREM RawMessagesFit == Spec => []RawMessageFits
<1>1. Init => Charged
  <2> SUFFICES ASSUME Init PROVE Charged
    OBVIOUS
  <2>1. /\ message.headers = <<>> /\ message.body = 0 /\ message.bytes = 0
        /\ state # "Body"
    BY DEF Init, EmptyMessage
  <2>2. RawFields(message.headers, LeadingSpace) = 0
    BY <2>1, NoFields
  <2> QED
    BY <2>1, <2>2 DEF Charged
<1>2. IInv /\ Charged => RawMessageFits
  <2> SUFFICES ASSUME IInv, Charged, state = "Body"
               PROVE  RawBytes <= message.bytes /\ message.bytes <= MessageBytes
    BY DEF RawMessageFits
  <2>1. /\ message.headers \in Seq(HeaderFields) /\ message.body \in Nat
        /\ message.bytes \in 0 .. MessageBytes
        /\ LeadingSpace \in BOOLEAN
    BY DEF IInv, TypeOK, LeadingSpace
  <2>2. RawFields(message.headers, LeadingSpace) \in Nat
    BY <2>1, FieldsHaveTotal
  <2>3. RawBytes = RawFields(message.headers, LeadingSpace) + 2 + message.body
    BY DEF RawBytes, RawFields, RawFieldBytes, RawField
  <2>4. RawFields(message.headers, LeadingSpace) + 2 + message.body <= message.bytes
    BY DEF Charged
  <2> QED
    BY <2>1, <2>3, <2>4, LimitsAssumption
<1> QED
  BY <1>1, <1>2, ChargedStays, SessionInvariant, PTL DEF Spec

-----------------------------------------------------------------------------
(* The frames of a list of edits. *)

\* The frames a modification may become, and those within the frame limit.
EditFrame == [cmd : EditCodes, len : Int]
SmallFrame == {w \in EditFrame : w.len + 1 <= FrameBytes}

\* EditFrames with the negotiated bit as an argument, and one unfolding of its recursion.
Unwound(mods, leading, u) ==
  [n \in 0 .. Len(mods) |-> IF n = 0 THEN <<>>
                            ELSE u[n - 1] \o ModificationFrames(mods[n], leading)]
Wire(mods, leading, k) == (CHOOSE u : u = Unwound(mods, leading, u))[k]

\* Both say the same.
LEMMA WireIsEditFrames ==
  ASSUME NEW mods, NEW k
  PROVE  EditFrames(mods, k) = Wire(mods, LeadingSpace, k)
BY DEF EditFrames, Wire, Unwound

\* A body becomes a sequence of frames: no piece is left out and there is always one.
LEMMA BodyIsFrames ==
  ASSUME NEW bytes \in Nat
  PROVE  BodyFrames(bytes) \in Seq(EditFrame)
<1>1. BodyChunk \in Nat \ {0}
  BY BodyChunkAssumption
<1>2. PICK n : n = Chunks(bytes)
  OBVIOUS
<1>3. n \in Nat
  BY <1>1, <1>2 DEF Chunks
<1>4. CASE bytes = 0
  <2>1. EmptyFrame("b") \in EditFrame
    BY DEF EmptyFrame, EditFrame, EditCodes
  <2> QED
    BY <1>4, <2>1 DEF BodyFrames
<1>5. CASE bytes # 0
  <2> DEFINE piece(i) == [cmd |-> "b", len |-> IF i < n THEN BodyChunk
                                               ELSE bytes - (n - 1) * BodyChunk]
  <2>1. bytes - (n - 1) * BodyChunk \in Int
    BY <1>1, <1>3
  <2>2. \A i \in 1 .. n : piece(i) \in EditFrame
    BY <1>1, <2>1 DEF EditFrame, EditCodes
  <2>3. BodyFrames(bytes) = [i \in 1 .. n |-> piece(i)]
    BY <1>2, <1>5 DEF BodyFrames
  <2> HIDE DEF piece
  <2>4. [i \in 1 .. n |-> piece(i)] \in Seq(EditFrame)
    BY <1>3, <2>2
  <2> QED
    BY <2>3, <2>4
<1> QED
  BY <1>4, <1>5

\* A frame of NUL-terminated strings is a frame.
LEMMA StringFrameOK ==
  ASSUME NEW c \in EditCodes, NEW bytes \in Int, NEW strings \in Int
  PROVE  <<StringFrame(c, bytes, strings)>> \in Seq(EditFrame)
<1>1. StringFrame(c, bytes, strings) \in EditFrame
  BY DEF StringFrame, EditFrame
<1> QED
  BY <1>1

\* Every modification becomes a sequence of frames (Modification::frames).
LEMMA ModificationIsFrames ==
  ASSUME NEW m \in Modifications, NEW leading \in BOOLEAN
  PROVE  ModificationFrames(m, leading) \in Seq(EditFrame)
<1>1. m.kind \in ModificationKinds /\ m.name \in Nat /\ m.value \in Nat /\ m.params \in BOOLEAN
  BY DEF Modifications
<1>2. AddedSpace(m, leading) \in Nat /\ ParameterBytes(m) \in Nat
  BY <1>1 DEF AddedSpace, ParameterBytes
<1>3. (IF leading THEN 0 ELSE 1) \in Int /\ (IF m.params THEN 2 ELSE 1) \in Int
  OBVIOUS
<1>4. (IF m.params THEN "2" ELSE "+") \in EditCodes
  BY DEF EditCodes
<1>5. CASE m.kind = "ReplaceBody"
  BY <1>1, <1>5, BodyIsFrames DEF ModificationFrames
<1>6. CASE m.kind = "InsertRawHeader"
  <2>1. 4 + m.name + m.value - (IF leading THEN 0 ELSE 1) \in Int /\ "i" \in EditCodes
    BY <1>1, <1>3 DEF EditCodes
  <2> QED
    BY <1>6, <2>1, StringFrameOK DEF ModificationFrames
<1>7. CASE m.kind = "AddHeader"
  <2>1. m.name + m.value + AddedSpace(m, leading) \in Int /\ "h" \in EditCodes
    BY <1>1, <1>2 DEF EditCodes
  <2> QED
    BY <1>7, <2>1, StringFrameOK DEF ModificationFrames
<1>8. CASE m.kind \in {"InsertHeader", "ChangeHeader"}
  <2>1. 4 + m.name + m.value + AddedSpace(m, leading) \in Int /\ "i" \in EditCodes /\ "m" \in EditCodes
    BY <1>1, <1>2 DEF EditCodes
  <2> QED
    BY <1>8, <2>1, StringFrameOK DEF ModificationFrames
<1>9. CASE m.kind \in {"ChangeFrom", "AddRecipient"}
  <2>1. m.name + ParameterBytes(m) \in Int /\ "e" \in EditCodes
    BY <1>1, <1>2 DEF EditCodes
  <2>2. PICK c : c = IF m.params THEN "2" ELSE "+"
    OBVIOUS
  <2>3. PICK n : n = IF m.params THEN 2 ELSE 1
    OBVIOUS
  <2>4. \/ ModificationFrames(m, leading) = <<StringFrame("e", m.name + ParameterBytes(m), n)>>
        \/ ModificationFrames(m, leading) = <<StringFrame(c, m.name + ParameterBytes(m), n)>>
    BY <1>9, <2>2, <2>3 DEF ModificationFrames
  <2>5. c \in EditCodes /\ n \in Int
    BY <1>3, <1>4, <2>2, <2>3
  <2> QED
    BY <2>1, <2>4, <2>5, StringFrameOK
<1>10. CASE m.kind \in {"DeleteRecipient", "Quarantine"}
  <2>1. m.name \in Int /\ "-" \in EditCodes /\ "q" \in EditCodes
    BY <1>1 DEF EditCodes
  <2>2. \/ ModificationFrames(m, leading) = <<StringFrame("-", m.name, 1)>>
        \/ ModificationFrames(m, leading) = <<StringFrame("q", m.name, 1)>>
    <3>1. CASE m.kind = "DeleteRecipient"
      BY <3>1 DEF ModificationFrames
    <3>2. CASE m.kind = "Quarantine"
      BY <3>2 DEF ModificationFrames
    <3> QED
      BY <1>10, <3>1, <3>2
  <2>3. <<StringFrame("-", m.name, 1)>> \in Seq(EditFrame)
    BY <2>1, StringFrameOK
  <2>4. <<StringFrame("q", m.name, 1)>> \in Seq(EditFrame)
    BY <2>1, StringFrameOK
  <2> QED
    BY <2>2, <2>3, <2>4
<1> QED
  BY <1>1, <1>5, <1>6, <1>7, <1>8, <1>9, <1>10
     DEF ModificationKinds, HeaderKinds, AddressKinds, TextKinds

\* The recursion of EditFrames has a solution: one that holds up to n gives one up to n + 1.
LEMMA WireExists ==
  ASSUME NEW mods \in Seq(Modifications), NEW leading
  PROVE  \E u : u = Unwound(mods, leading, u)
<1> DEFINE Upto(n) == \E u : \A i \in 0 .. Len(mods) :
                        i <= n => u[i] = Unwound(mods, leading, u)[i]
<1>1. Len(mods) \in Nat
  OBVIOUS
<1>2. Upto(0)
  <2> DEFINE u == [i \in 0 .. Len(mods) |-> <<>>]
  <2>1. 0 \in 0 .. Len(mods) /\ \A i \in 0 .. Len(mods) : i <= 0 => i = 0
    BY <1>1
  <2>2. u[0] = <<>> /\ Unwound(mods, leading, u)[0] = <<>>
    BY <2>1 DEF Unwound
  <2> QED
    BY <2>1, <2>2
<1>3. ASSUME NEW n \in Nat, Upto(n)
      PROVE  Upto(n + 1)
  <2>1. PICK u : \A i \in 0 .. Len(mods) : i <= n => u[i] = Unwound(mods, leading, u)[i]
    BY <1>3
  <2> DEFINE w == Unwound(mods, leading, u)
  <2>2. ASSUME NEW i \in 0 .. Len(mods), i <= n + 1
        PROVE  w[i] = Unwound(mods, leading, w)[i]
    <3>1. CASE i = 0
      BY <3>1 DEF Unwound
    <3>2. CASE i # 0
      <4>1. i - 1 \in 0 .. Len(mods) /\ i - 1 <= n
        BY <1>1, <2>2, <3>2
      <4>2. u[i - 1] = w[i - 1]
        BY <2>1, <4>1
      <4>3. w[i] = u[i - 1] \o ModificationFrames(mods[i], leading)
        BY <3>2 DEF Unwound
      <4>4. Unwound(mods, leading, w)[i] = w[i - 1] \o ModificationFrames(mods[i], leading)
        BY <3>2 DEF Unwound
      <4> QED
        BY <4>2, <4>3, <4>4
    <3> QED
      BY <3>1, <3>2
  <2> QED
    BY <2>2
<1>4. ASSUME NEW m \in Nat
      PROVE  Upto(m)
  <2> DEFINE B == {n \in Nat : ~Upto(n)}
  <2>1. SUFFICES ASSUME B # {} PROVE FALSE
    BY <2>1
  <2>2. PICK n \in B : \A k \in B : n <= k
    BY <2>1, SmallestNumber
  <2>3. n # 0 /\ n \in Nat /\ ~Upto(n)
    BY <1>2, <2>2
  <2> HIDE DEF Upto
  <2>4. n - 1 \in Nat /\ Upto(n - 1)
    BY <2>2, <2>3
  <2>5. Upto((n - 1) + 1)
    BY <1>3, <2>4
  <2>6. (n - 1) + 1 = n
    BY <2>3
  <2> QED
    BY <2>3, <2>5, <2>6
<1>5. PICK u : \A i \in 0 .. Len(mods) : i <= Len(mods) => u[i] = Unwound(mods, leading, u)[i]
  <2>1. Upto(Len(mods))
    BY <1>1, <1>4
  <2> QED
    BY <2>1
<1>6. \A i \in 0 .. Len(mods) : u[i] = Unwound(mods, leading, u)[i]
  BY <1>1, <1>5
<1> DEFINE w == Unwound(mods, leading, u)
<1>7. \A i \in 0 .. Len(mods) : i # 0 => u[i - 1] = w[i - 1]
  BY <1>1, <1>6
<1>8. w = Unwound(mods, leading, w)
  BY <1>7 DEF Unwound
<1> QED
  BY <1>8

\* The frames of no edit are none, and each edit appends its own.
LEMMA WireGrows ==
  ASSUME NEW mods \in Seq(Modifications), NEW leading
  PROVE  /\ Wire(mods, leading, 0) = <<>>
         /\ \A n \in 1 .. Len(mods) : Wire(mods, leading, n) =
              Wire(mods, leading, n - 1) \o ModificationFrames(mods[n], leading)
<1>1. PICK u : u = (CHOOSE v : v = Unwound(mods, leading, v))
  OBVIOUS
<1>2. u = Unwound(mods, leading, u)
  BY <1>1, WireExists
<1>3. \A n : Wire(mods, leading, n) = u[n]
  BY <1>1 DEF Wire
<1>4. Len(mods) \in Nat
  OBVIOUS
<1>5. \A n \in 1 .. Len(mods) : n \in 0 .. Len(mods) /\ n # 0
  BY <1>4
<1>6. u[0] = <<>> /\ \A n \in 1 .. Len(mods) : u[n] = u[n - 1] \o ModificationFrames(mods[n], leading)
  BY <1>2, <1>4, <1>5 DEF Unwound
<1>7. ASSUME NEW n \in 1 .. Len(mods)
      PROVE  Wire(mods, leading, n) = Wire(mods, leading, n - 1) \o ModificationFrames(mods[n], leading)
  BY <1>3, <1>6
<1>8. Wire(mods, leading, 0) = <<>>
  BY <1>3, <1>6
<1> QED
  BY <1>7, <1>8

\* When the frames of each edit are within the frame limit, so are those of the list.
LEMMA WireIsSmall ==
  ASSUME NEW mods \in Seq(Modifications), NEW leading \in BOOLEAN,
         \A k \in DOMAIN mods : \A i \in DOMAIN ModificationFrames(mods[k], leading) :
           ModificationFrames(mods[k], leading)[i].len + 1 <= FrameBytes
  PROVE  \A n \in 0 .. Len(mods) : Wire(mods, leading, n) \in Seq(SmallFrame)
<1>1. Len(mods) \in Nat /\ DOMAIN mods = 1 .. Len(mods)
  OBVIOUS
<1>2. ASSUME NEW k \in 1 .. Len(mods)
      PROVE  ModificationFrames(mods[k], leading) \in Seq(SmallFrame)
  <2>1. PICK fs : fs = ModificationFrames(mods[k], leading)
    OBVIOUS
  <2>2. mods[k] \in Modifications
    BY <1>1
  <2>3. fs \in Seq(EditFrame)
    BY <2>1, <2>2, ModificationIsFrames
  <2>4. \A i \in DOMAIN fs : fs[i].len + 1 <= FrameBytes
    BY <1>1, <2>1
  <2>5. \A i \in 1 .. Len(fs) : fs[i] \in SmallFrame
    BY <2>3, <2>4 DEF SmallFrame
  <2>6. fs \in Seq(SmallFrame)
    BY <2>3, <2>5
  <2> QED
    BY <2>1, <2>6
<1> DEFINE B == {n \in 0 .. Len(mods) : ~(Wire(mods, leading, n) \in Seq(SmallFrame))}
<1>3. SUFFICES ASSUME B # {} PROVE FALSE
  BY <1>3
<1>4. PICK n \in B : \A k \in B : n <= k
  <2>1. B \subseteq Nat
    BY <1>1
  <2> HIDE DEF B
  <2> QED
    BY <1>3, <2>1, SmallestNumber
<1>5. n \in 0 .. Len(mods) /\ ~(Wire(mods, leading, n) \in Seq(SmallFrame))
  BY <1>4
<1>6. n # 0
  <2>1. Wire(mods, leading, 0) = <<>>
    BY WireGrows
  <2>2. Wire(mods, leading, 0) \in Seq(SmallFrame)
    <3>1. <<>> \in Seq(SmallFrame)
      OBVIOUS
    <3> QED
      BY <2>1, <3>1
  <2> QED
    BY <1>5, <2>2
<1>7. n \in 1 .. Len(mods) /\ n - 1 \in 0 .. Len(mods)
  BY <1>1, <1>5, <1>6
<1>8. Wire(mods, leading, n - 1) \in Seq(SmallFrame)
  BY <1>1, <1>4, <1>7
<1>9. Wire(mods, leading, n) = Wire(mods, leading, n - 1) \o ModificationFrames(mods[n], leading)
  BY <1>7, WireGrows
<1>10. Wire(mods, leading, n) \in Seq(SmallFrame)
  BY <1>2, <1>7, <1>8, <1>9
<1> QED
  BY <1>5, <1>10

\* OutputFits of given edits and reply, with the negotiated bit as an argument.
Fits(edits, reply, leading) ==
  /\ TotalLength(Wire(edits, leading, Len(edits))) <= MessageBytes
  /\ \A i \in DOMAIN Wire(edits, leading, Len(edits)) :
       Wire(edits, leading, Len(edits))[i].len + 1 <= FrameBytes
  /\ reply.len + 1 <= FrameBytes

\* A lone reply frame fits.
LEMMA BareReplyFits ==
  ASSUME NEW c, NEW leading
  PROVE  Fits(<<>>, EmptyFrame(c), leading)
<1>1. Len(<<>>) = 0 /\ <<>> \in Seq(Modifications)
  OBVIOUS
<1>2. Wire(<<>>, leading, 0) = <<>>
  BY <1>1, WireGrows
<1>3. TotalLength(<<>>) = 0
  <2>1. DOMAIN FrameLengths(<<>>) = {}
    BY DEF FrameLengths
  <2> QED
    BY <2>1, SumOfNothing DEF TotalLength
<1>4. DOMAIN Wire(<<>>, leading, 0) = {}
  BY <1>2
<1>5. EmptyFrame(c).len = 0
  BY DEF EmptyFrame
<1> QED
  BY <1>1, <1>2, <1>3, <1>4, <1>5, LimitsAssumption DEF Fits

\* What complete returns fits: the test of the last edit is that of the whole list.
LEMMA DecisionFits ==
  ASSUME IInv, NEW d \in Decisions, DecisionValid(d)
  PROVE  Fits(DecisionFrames(d).edits, DecisionFrames(d).reply, LeadingSpace)
<1>1. LeadingSpace \in BOOLEAN /\ d.mods \in Seq(Modifications)
  BY PolicyAssumption DEF LeadingSpace
<1>2. DecisionFrames(d).reply = FinalFrame(d) /\ FinalFrame(d).len + 1 <= FrameBytes
  BY DEF DecisionFrames, DecisionValid
<1>3. DecisionFrames(d).edits = <<>> \/ DecisionFrames(d).edits = d.mods
  BY DEF DecisionFrames
<1>4. CASE DecisionFrames(d).edits = <<>>
  <2>1. Fits(<<>>, EmptyFrame("c"), LeadingSpace)
    BY BareReplyFits
  <2> QED
    BY <1>2, <1>4, <2>1 DEF Fits
<1>5. CASE d.mods # <<>> /\ DecisionFrames(d).edits = d.mods
  <2>1. PICK n : n = Len(d.mods)
    OBVIOUS
  <2>2. n \in Nat \ {0} /\ n \in DOMAIN d.mods /\ n \in 0 .. Len(d.mods)
    BY <1>1, <1>5, <2>1
  <2>3. \A k \in DOMAIN d.mods : EditValid(d.mods, k)
    BY DEF DecisionValid
  <2>4. TotalLength(Wire(d.mods, LeadingSpace, n)) <= MessageBytes
    BY <2>2, <2>3, WireIsEditFrames DEF EditValid
  <2>5. \A k \in DOMAIN d.mods : \A i \in DOMAIN ModificationFrames(d.mods[k], LeadingSpace) :
          ModificationFrames(d.mods[k], LeadingSpace)[i].len + 1 <= FrameBytes
    BY <2>3 DEF EditValid
  <2>6. Wire(d.mods, LeadingSpace, n) \in Seq(SmallFrame)
    BY <1>1, <2>2, <2>5, WireIsSmall
  <2>7. \A i \in DOMAIN Wire(d.mods, LeadingSpace, n) :
          Wire(d.mods, LeadingSpace, n)[i].len + 1 <= FrameBytes
    BY <2>6 DEF SmallFrame
  <2> QED
    BY <1>2, <1>5, <2>1, <2>4, <2>7 DEF Fits
<1> QED
  BY <1>3, <1>4, <1>5

\* Each step either keeps the frames and the negotiated bit or returns frames that fit.
LEMMA OutputSteps ==
  ASSUME IInv, [Next]_vars
  PROVE  \/ frames' = frames /\ LeadingSpace' = LeadingSpace
         \/ Fits(frames'.edits, frames'.reply, LeadingSpace')
<1>1. ASSUME NEW c, frames' = Answer(c)
      PROVE  Fits(frames'.edits, frames'.reply, LeadingSpace')
  <2>1. frames'.edits = <<>> /\ frames'.reply = EmptyFrame(c)
    BY <1>1 DEF Answer
  <2> QED
    BY <2>1, BareReplyFits
<1>2. Silence = Answer("none")
  BY DEF Silence, Answer, NoReply
<1>3. ASSUME NEW cmd \in Commands, Receive(cmd)
      PROVE  \E c : frames' = Answer(c)
  <2>1. ASSUME NEW op, NEW stage, Conclude(op, stage)
        PROVE  \E c : frames' = Answer(c)
    BY <1>2, <2>1 DEF Conclude
  <2>2. CASE Negotiate(cmd) \/ Macro(cmd) \/ Refuse(cmd)
    BY <1>2, <2>2 DEF Negotiate, Macro, Refuse
  <2>3. CASE Connect(cmd) \/ Helo(cmd) \/ Mail(cmd) \/ Recipient(cmd) \/ Data(cmd)
    BY <2>1, <2>3 DEF Connect, Helo, Mail, Recipient, Data
  <2>4. CASE Header(cmd) \/ EndHeaders(cmd) \/ Body(cmd) \/ EndMessage(cmd) \/ Abort(cmd)
    BY <2>1, <2>4 DEF Header, EndHeaders, Body, EndMessage, Abort
  <2>5. CASE QuitNewConnection(cmd) \/ Quit(cmd) \/ Unknown(cmd)
    BY <2>1, <2>5 DEF QuitNewConnection, Quit, Unknown
  <2> QED
    BY <1>3, <2>2, <2>3, <2>4, <2>5 DEF Receive
<1>4. ASSUME NEW d \in Decisions, Complete(d)
      PROVE  Fits(frames'.edits, frames'.reply, LeadingSpace')
  <2>1. DecisionValid(d) /\ frames' = DecisionFrames(d) /\ options' = options
    BY <1>4 DEF Complete, context
  <2>2. LeadingSpace' = LeadingSpace
    BY <2>1 DEF LeadingSpace
  <2> QED
    BY <2>1, <2>2, DecisionFits
<1>5. CASE UNCHANGED vars
  BY <1>5 DEF vars, LeadingSpace
<1> QED
  BY <1>1, <1>3, <1>4, <1>5 DEF Next

\* What complete returns respects the limits it is given, for every list of edits and
\* every frame size: the list as a whole is within the message limit and each of its
\* frames, body pieces included, within the frame limit (complete, Modification::frames).
THEOREM OutputsFit == Spec => []OutputFits
<1> DEFINE Small == Fits(frames.edits, frames.reply, LeadingSpace)
<1>1. Init => Small
  <2>1. frames = Silence => frames.edits = <<>> /\ frames.reply = EmptyFrame("none")
    BY DEF Silence, NoReply
  <2> QED
    BY <2>1, BareReplyFits DEF Init
<1>2. IInv /\ Small /\ [Next]_vars => Small'
  <2> SUFFICES ASSUME IInv, Small, [Next]_vars
               PROVE  Fits(frames'.edits, frames'.reply, LeadingSpace')
    BY DEF Fits, Wire, Unwound
  <2> QED
    BY OutputSteps
<1>3. Small => OutputFits
  BY WireIsEditFrames DEF Fits, OutputFits
<1> QED
  <2> HIDE DEF Small
  <2> QED
    BY <1>1, <1>2, <1>3, SessionInvariant, PTL DEF Spec

-----------------------------------------------------------------------------
(* Hook requests. *)

\* At connect and ehlo the session is outside a transaction: only the batches of the
\* connection are active (activate_macros, reset_message).
LEMMA NoTransactionSource ==
  ASSUME IInv, pending \in BeforeMail, NEW property \in OFFERED_PROPERTIES
  PROVE  Sources(pending, property) \cap TransactionSources = {}
<1>1. state = "Ready"
  BY DEF IInv, CallbackHasContext, BeforeMail
<1>2. DOMAIN macros \cap TransactionSources = {}
  <2>1. DOMAIN macros \subseteq MacroStages
    BY DEF IInv, TypeOK, IsBatches
  <2>2. pending # "EndMessage"
    BY DEF BeforeMail
  <2>3. DOMAIN macros \cap {"M", "R", "T", "L", "N", "B", "E"} = {}
    BY <1>1, <2>1, <2>2 DEF IInv, MacroScope, InTransaction
  <2> QED
    BY <2>1, <2>3 DEF TransactionSources, MacroStages, ConnectionMacros
<1>3. EnvelopeSources(pending) = {} /\ pending # "EndMessage"
  BY DEF EnvelopeSources, BeforeMail
<1> QED
  BY <1>2, <1>3 DEF Sources, Present, TransactionSources, MacroStages

\* Every request the policy client builds can be built and is of its own transaction.
THEOREM RequestsAreCurrent == Spec => []RequestIsCurrent
<1>1. IInv => RequestIsCurrent
  <2> SUFFICES ASSUME IInv, pending # "none" PROVE RequestIsCurrent
    BY DEF RequestIsCurrent
  <2>1. connection
    BY DEF IInv, CallbackHasContext
  <2>2. ASSUME pending \notin BeforeMail
        PROVE  /\ state \in InTransaction /\ message.sender # NoSender
               /\ pending \in {"Recipient", "EndMessage"} => message.recipients # <<>>
    BY <2>2 DEF IInv, TypeOK, CallbackHasContext, TransactionShape, BeforeMail, InTransaction, Stages
  <2>3. pending = "EndMessage" => message.sender # NoSender
    BY <2>2 DEF BeforeMail
  <2>4. ASSUME NEW property \in OFFERED_PROPERTIES PROVE ~RequestRefused(pending, property)
    BY <2>1, <2>3 DEF RequestRefused
  <2>5. pending \notin BeforeMail => "sender" \in Sources(pending, "envelope")
    BY <2>2 DEF Sources, EnvelopeSources
  <2>6. pending \in {"Recipient", "EndMessage"} => "recipients" \in Sources(pending, "envelope")
    BY <2>2 DEF Sources, EnvelopeSources, Present, BeforeMail
  <2> QED
    BY <2>4, <2>5, <2>6, NoTransactionSource DEF RequestIsCurrent
<1> QED
  BY <1>1, SessionInvariant, PTL
=============================================================================
