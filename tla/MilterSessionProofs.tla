------------------------ MODULE MilterSessionProofs ------------------------
(***************************************************************************)
(* Proofs about MilterSession, for every value of its constants.  The      *)
(* inductive invariant is IInv: no conjunct of it is inductive alone.      *)
(***************************************************************************)
EXTENDS MilterSession, SequenceTheorems, TLAPS

IInv == /\ TypeOK
        /\ HonestNegotiation
        /\ ReplyBalance
        /\ TransactionShape
        /\ CallbackHasContext
        /\ MacroScope

-----------------------------------------------------------------------------
\* Retaining part of a macro map (BTreeMap::retain) gives a macro map on the stages kept.
LEMMA RetainBatches ==
  ASSUME NEW f, NEW S, IsBatches(f)
  PROVE  IsBatches(Retain(f, S)) /\ DOMAIN Retain(f, S) = DOMAIN f \cap S
BY DEF IsBatches, Retain

\* Inserting a batch keeps a macro map one.
LEMMA PutBatches ==
  ASSUME NEW f, NEW k \in MacroStages, NEW v \in Nat, IsBatches(f)
  PROVE  IsBatches(Put(f, k, v)) /\ DOMAIN Put(f, k, v) = DOMAIN f \cup {k}
BY DEF IsBatches, Put

\* activate_macros leaves both maps well formed and touches one stage only.
LEMMA ActivateBatches ==
  ASSUME NEW f, NEW g, NEW op \in MacroStages, IsBatches(f), IsBatches(g)
  PROVE  /\ IsBatches(Activated(f, g, op))
         /\ DOMAIN Activated(f, g, op) \subseteq DOMAIN f \cup {op}
         /\ IsBatches(Remove(g, op))
<1>0. ASSUME NEW h, IsBatches(h)
      PROVE  IsBatches(Remove(h, op)) /\ DOMAIN Remove(h, op) \subseteq DOMAIN h
  BY <1>0, RetainBatches DEF Remove
<1>1. CASE op \in DOMAIN g
  <2>1. g[op] \in Nat
    BY <1>1 DEF IsBatches
  <2>2. Activated(f, g, op) = Put(f, op, g[op])
    BY <1>1 DEF Activated
  <2>3. /\ IsBatches(Put(f, op, g[op]))
        /\ DOMAIN Put(f, op, g[op]) = DOMAIN f \cup {op}
    BY <2>1, PutBatches
  <2> QED
    BY <1>0, <2>2, <2>3
<1>2. CASE op \notin DOMAIN g
  <2>1. Activated(f, g, op) = Remove(f, op)
    BY <1>2 DEF Activated
  <2> QED
    BY <1>0, <2>1
<1> QED
  BY <1>1, <1>2

\* A lone reply frame, or none, is well-formed output.
LEMMA BareFrames ==
  /\ \A c \in ReplyCodes : Answer(c) \in [edits : Seq(Modifications), reply : WireFrame]
  /\ Silence \in [edits : Seq(Modifications), reply : WireFrame]
<1>1. <<>> \in Seq(Modifications)
  OBVIOUS
<1>2. \A c \in ReplyCodes : EmptyFrame(c) \in WireFrame
  BY DEF EmptyFrame, WireFrame
<1>3. \A c \in ReplyCodes : Answer(c) \in [edits : Seq(Modifications), reply : WireFrame]
  BY <1>1, <1>2 DEF Answer
<1>4. Silence = Answer("none")
  BY DEF Silence, Answer, NoReply
<1> QED
  BY <1>3, <1>4 DEF ReplyCodes

\* The end of receive answers a command or leaves its callback pending, and leaves the
\* MTA waiting exactly in the second case.
LEMMA ConcludeBalances ==
  ASSUME NEW op, NEW stage,
         pending = "none", owed = 0, HonestNegotiation,
         stages \subseteq Stages, Conclude(op, stage), op # "O",
         \/ stage = "none" /\ op # "E"
         \/ stage = "EndMessage" /\ op = "E"
         \/ stage \in DOMAIN StageOp /\ op = StageOp[stage]
  PROVE  /\ pending' \in {"none", stage}
         /\ stage = "EndMessage" => pending' = stage
         /\ frames' \in [edits : Seq(Modifications), reply : WireFrame]
         /\ owed' = IF pending' = "none" THEN 0 ELSE 1
<1> DEFINE event == IF stage = "EndMessage" \/ stage \in stages THEN stage ELSE "none"
           reply == event = "none" /\ op \in RepliedOps /\ op \notin options.protocol
<1>1. /\ pending' = event
      /\ frames' = IF reply THEN Answer("c") ELSE Silence
      /\ owed' = owed + (IF MtaAwaits(op) THEN 1 ELSE 0) - (IF reply THEN 1 ELSE 0)
  BY DEF Conclude
<1>2. frames' \in [edits : Seq(Modifications), reply : WireFrame]
  <2>1. Answer("c") \in [edits : Seq(Modifications), reply : WireFrame]
    BY BareFrames DEF ReplyCodes
  <2>2. Silence \in [edits : Seq(Modifications), reply : WireFrame]
    BY BareFrames
  <2>3. frames' = Answer("c") \/ frames' = Silence
    BY <1>1
  <2> QED
    BY <2>1, <2>2, <2>3
<1>3. CASE event = "none"
  <2>1. MtaAwaits(op) <=> reply
    BY <1>3 DEF MtaAwaits, StageOp, Stages
  <2> QED
    BY <1>1, <1>2, <1>3, <2>1
<1>4. CASE event # "none"
  <2>1. MtaAwaits(op)
    BY <1>4 DEF MtaAwaits, StageOp, RepliedOps, HonestNegotiation, Stages
  <2> QED
    BY <1>1, <1>2, <1>4, <2>1
<1> QED
  BY <1>3, <1>4

\* A command carries the argument its opcode calls for.
LEMMA CommandArguments ==
  ASSUME NEW cmd \in Commands
  PROVE  /\ cmd.op = "O" => cmd.arg \in Offers
         /\ cmd.op = "D" => cmd.arg.stage \in MacroStages /\ cmd.arg.bytes \in Nat
         /\ cmd.op \in {"M", "R"} => cmd.arg \in Envelopes
         /\ cmd.op = "L" => cmd.arg \in HeaderFields
         /\ cmd.op = "B" => cmd.arg.bytes \in Nat
BY MtaAssumption DEF Commands

\* The message fits its type when its parts do.
MessageType == [sender : Envelopes \cup {NoSender}, recipients : Seq(Envelopes),
                headers : Seq(HeaderFields), body : Nat,
                bytes : 0 .. MessageBytes, envelopeBytes : 0 .. EnvelopeBytes]

\* The empty message is well formed and within the limits.
LEMMA EmptyMessageOK ==
  /\ EmptyMessage \in MessageType
  /\ Len(EmptyMessage.recipients) = 0 /\ Len(EmptyMessage.headers) = 0
BY LimitsAssumption DEF EmptyMessage, MessageType

\* reset_message establishes a well-formed empty message and keeps the connection's
\* batches only.
LEMMA ResetOK ==
  ASSUME IInv, ResetMessage
  PROVE  /\ message' = EmptyMessage
         /\ message' \in MessageType
         /\ Len(message'.recipients) <= MaxRecipients /\ Len(message'.headers) <= MaxHeaders
         /\ IsBatches(macros') /\ IsBatches(pendingMacros')
         /\ DOMAIN macros' \subseteq DOMAIN macros \cap ConnectionMacros
<1>1. IsBatches(macros) /\ IsBatches(pendingMacros)
  BY DEF IInv, TypeOK
<1>2. /\ message' = EmptyMessage
      /\ macros' = Retain(macros, ConnectionMacros)
      /\ pendingMacros' = Retain(pendingMacros, ConnectionMacros)
  BY DEF ResetMessage
<1>3. /\ IsBatches(macros') /\ IsBatches(pendingMacros')
      /\ DOMAIN macros' = DOMAIN macros \cap ConnectionMacros
  BY <1>1, <1>2, RetainBatches
<1> QED
  BY <1>2, <1>3, EmptyMessageOK, LimitsAssumption

\* CONNECT preserves the invariant.
LEMMA ConnectStep ==
  ASSUME IInv, NEW cmd \in Commands, Connect(cmd)
  PROVE  IInv'
<1>1. /\ pending = "none" /\ owed = 0 /\ cmd.op = "C"
      /\ state \in RequiredStates("C") /\ WithinLimits(cmd)
  BY DEF Connect, Takes, Accepted, IInv, ReplyBalance
<1>2. /\ pending' \in {"none", "Connect"}
      /\ frames' \in [edits : Seq(Modifications), reply : WireFrame]
      /\ owed' = IF pending' = "none" THEN 0 ELSE 1
  <2>1. Conclude("C", "Connect") /\ HonestNegotiation /\ stages \subseteq Stages
    BY DEF Connect, IInv, TypeOK
  <2> QED
    BY <1>1, <2>1, ConcludeBalances DEF StageOp
<1>3. /\ IsBatches(macros') /\ IsBatches(pendingMacros')
      /\ DOMAIN macros' \subseteq DOMAIN macros \cup {"C"}
  <2>1. /\ macros' = Activated(macros, pendingMacros, "C")
        /\ pendingMacros' = Remove(pendingMacros, "C")
        /\ IsBatches(macros) /\ IsBatches(pendingMacros) /\ "C" \in MacroStages
    BY DEF Connect, ActivateMacros, IInv, TypeOK, MacroStages
  <2> QED
    BY <2>1, ActivateBatches
<1>4. state \in {"Negotiated"}
  BY <1>1 DEF RequiredStates, States
<1>5. message' = message
  BY DEF Connect
<1>6. TypeOK'
  BY <1>2, <1>3, <1>4, <1>5 DEF IInv, TypeOK, Connect, context, Stages, States, MessageType
<1>7. HonestNegotiation' /\ ReplyBalance'
  BY <1>2 DEF IInv, HonestNegotiation, ReplyBalance, Connect, context
<1>8. TransactionShape'
  BY <1>4, <1>5 DEF IInv, TransactionShape, Connect, context, InTransaction
<1>9. CallbackHasContext'
  BY <1>1, <1>2, <1>4 DEF IInv, CallbackHasContext, TransactionShape, Connect, context, InTransaction
<1>10. MacroScope'
  BY <1>1, <1>2, <1>3, <1>4 DEF IInv, MacroScope, TransactionShape, Connect, context, InTransaction
<1> QED
  BY <1>6, <1>7, <1>8, <1>9, <1>10 DEF IInv

\* HELO preserves the invariant.
LEMMA HeloStep ==
  ASSUME IInv, NEW cmd \in Commands, Helo(cmd)
  PROVE  IInv'
<1>1. /\ pending = "none" /\ owed = 0 /\ cmd.op = "H"
      /\ state \in RequiredStates("H") /\ WithinLimits(cmd)
  BY DEF Helo, Takes, Accepted, IInv, ReplyBalance
<1>2. /\ pending' \in {"none", "Helo"}
      /\ frames' \in [edits : Seq(Modifications), reply : WireFrame]
      /\ owed' = IF pending' = "none" THEN 0 ELSE 1
  <2>1. Conclude("H", "Helo") /\ HonestNegotiation /\ stages \subseteq Stages
    BY DEF Helo, IInv, TypeOK
  <2> QED
    BY <1>1, <2>1, ConcludeBalances DEF StageOp
<1>3. /\ IsBatches(macros') /\ IsBatches(pendingMacros')
      /\ DOMAIN macros' \subseteq DOMAIN macros \cup {"H"}
  <2>1. /\ macros' = Activated(macros, pendingMacros, "H")
        /\ pendingMacros' = Remove(pendingMacros, "H")
        /\ IsBatches(macros) /\ IsBatches(pendingMacros) /\ "H" \in MacroStages
    BY DEF Helo, ActivateMacros, IInv, TypeOK, MacroStages
  <2> QED
    BY <2>1, ActivateBatches
<1>4. state \in {"Ready"}
  BY <1>1 DEF RequiredStates, States
<1>5. message' = message
  BY DEF Helo
<1>6. TypeOK'
  BY <1>2, <1>3, <1>4, <1>5 DEF IInv, TypeOK, Helo, context, Stages, States, MessageType
<1>7. HonestNegotiation' /\ ReplyBalance'
  BY <1>2 DEF IInv, HonestNegotiation, ReplyBalance, Helo, context
<1>8. TransactionShape'
  BY <1>4, <1>5 DEF IInv, TransactionShape, Helo, context, InTransaction
<1>9. CallbackHasContext'
  BY <1>1, <1>2, <1>4 DEF IInv, CallbackHasContext, TransactionShape, Helo, context, InTransaction
<1>10. MacroScope'
  BY <1>1, <1>2, <1>3, <1>4 DEF IInv, MacroScope, TransactionShape, Helo, context, InTransaction
<1> QED
  BY <1>6, <1>7, <1>8, <1>9, <1>10 DEF IInv

\* DATA preserves the invariant.
LEMMA DataStep ==
  ASSUME IInv, NEW cmd \in Commands, Data(cmd)
  PROVE  IInv'
<1>1. /\ pending = "none" /\ owed = 0 /\ cmd.op = "T"
      /\ state \in RequiredStates("T") /\ WithinLimits(cmd)
  BY DEF Data, Takes, Accepted, IInv, ReplyBalance
<1>2. /\ pending' \in {"none", "none"}
      /\ frames' \in [edits : Seq(Modifications), reply : WireFrame]
      /\ owed' = IF pending' = "none" THEN 0 ELSE 1
  <2>1. Conclude("T", "none") /\ HonestNegotiation /\ stages \subseteq Stages
    BY DEF Data, IInv, TypeOK
  <2> QED
    BY <1>1, <2>1, ConcludeBalances DEF StageOp
<1>3. /\ IsBatches(macros') /\ IsBatches(pendingMacros')
      /\ DOMAIN macros' \subseteq DOMAIN macros \cup {"T"}
  <2>1. /\ macros' = Activated(macros, pendingMacros, "T")
        /\ pendingMacros' = Remove(pendingMacros, "T")
        /\ IsBatches(macros) /\ IsBatches(pendingMacros) /\ "T" \in MacroStages
    BY DEF Data, ActivateMacros, IInv, TypeOK, MacroStages
  <2> QED
    BY <2>1, ActivateBatches
<1>4. state \in {"Recipients"}
  BY <1>1 DEF RequiredStates, States
<1>5. message' = message
  BY DEF Data
<1>6. TypeOK'
  BY <1>2, <1>3, <1>4, <1>5 DEF IInv, TypeOK, Data, context, Stages, States, MessageType
<1>7. HonestNegotiation' /\ ReplyBalance'
  BY <1>2 DEF IInv, HonestNegotiation, ReplyBalance, Data, context
<1>8. TransactionShape'
  BY <1>4, <1>5 DEF IInv, TransactionShape, Data, context, InTransaction
<1>9. CallbackHasContext'
  BY <1>1, <1>2, <1>4 DEF IInv, CallbackHasContext, TransactionShape, Data, context, InTransaction
<1>10. MacroScope'
  BY <1>1, <1>2, <1>3, <1>4 DEF IInv, MacroScope, TransactionShape, Data, context, InTransaction
<1> QED
  BY <1>6, <1>7, <1>8, <1>9, <1>10 DEF IInv

\* End of message preserves the invariant.
LEMMA EndMessageStep ==
  ASSUME IInv, NEW cmd \in Commands, EndMessage(cmd)
  PROVE  IInv'
<1>1. /\ pending = "none" /\ owed = 0 /\ cmd.op = "E"
      /\ state \in RequiredStates("E") /\ WithinLimits(cmd)
  BY DEF EndMessage, Takes, Accepted, IInv, ReplyBalance
<1>2. /\ pending' = "EndMessage"
      /\ frames' \in [edits : Seq(Modifications), reply : WireFrame]
      /\ owed' = IF pending' = "none" THEN 0 ELSE 1
  <2>1. Conclude("E", "EndMessage") /\ HonestNegotiation /\ stages \subseteq Stages
    BY DEF EndMessage, IInv, TypeOK
  <2> QED
    BY <1>1, <2>1, ConcludeBalances DEF StageOp
<1>3. /\ IsBatches(macros') /\ IsBatches(pendingMacros')
      /\ DOMAIN macros' \subseteq DOMAIN macros \cup {"E"}
  <2>1. /\ macros' = Activated(macros, pendingMacros, "E")
        /\ pendingMacros' = Remove(pendingMacros, "E")
        /\ IsBatches(macros) /\ IsBatches(pendingMacros) /\ "E" \in MacroStages
    BY DEF EndMessage, ActivateMacros, IInv, TypeOK, MacroStages
  <2> QED
    BY <2>1, ActivateBatches
<1>4. state \in {"Body"}
  BY <1>1 DEF RequiredStates, States
<1>5. message' = message
  BY DEF EndMessage
<1>6. TypeOK'
  BY <1>2, <1>3, <1>4, <1>5 DEF IInv, TypeOK, EndMessage, context, Stages, States, MessageType
<1>7. HonestNegotiation' /\ ReplyBalance'
  BY <1>2 DEF IInv, HonestNegotiation, ReplyBalance, EndMessage, context
<1>8. TransactionShape'
  BY <1>4, <1>5 DEF IInv, TransactionShape, EndMessage, context, InTransaction
<1>9. CallbackHasContext'
  BY <1>1, <1>2, <1>4 DEF IInv, CallbackHasContext, TransactionShape, EndMessage, context, InTransaction
<1>10. MacroScope'
  BY <1>1, <1>2, <1>3, <1>4 DEF IInv, MacroScope, TransactionShape, EndMessage, context, InTransaction
<1> QED
  BY <1>6, <1>7, <1>8, <1>9, <1>10 DEF IInv

\* An unknown SMTP command preserves the invariant.
LEMMA UnknownStep ==
  ASSUME IInv, NEW cmd \in Commands, Unknown(cmd)
  PROVE  IInv'
<1>1. /\ pending = "none" /\ owed = 0 /\ cmd.op = "U"
      /\ state \in RequiredStates("U") /\ WithinLimits(cmd)
  BY DEF Unknown, Takes, Accepted, IInv, ReplyBalance
<1>2. /\ pending' \in {"none", "none"}
      /\ frames' \in [edits : Seq(Modifications), reply : WireFrame]
      /\ owed' = IF pending' = "none" THEN 0 ELSE 1
  <2>1. Conclude("U", "none") /\ HonestNegotiation /\ stages \subseteq Stages
    BY DEF Unknown, IInv, TypeOK
  <2> QED
    BY <1>1, <2>1, ConcludeBalances DEF StageOp
<1>3. /\ IsBatches(macros') /\ IsBatches(pendingMacros')
      /\ DOMAIN macros' \subseteq DOMAIN macros \cup {"U"}
  <2>1. /\ macros' = Activated(macros, pendingMacros, "U")
        /\ pendingMacros' = Remove(pendingMacros, "U")
        /\ IsBatches(macros) /\ IsBatches(pendingMacros) /\ "U" \in MacroStages
    BY DEF Unknown, ActivateMacros, IInv, TypeOK, MacroStages
  <2> QED
    BY <2>1, ActivateBatches
<1>4. state \in States \ {"Initial", "Closed"}
  BY <1>1 DEF RequiredStates, States
<1>5. message' = message
  BY DEF Unknown
<1>6. TypeOK'
  BY <1>2, <1>3, <1>4, <1>5 DEF IInv, TypeOK, Unknown, context, Stages, States, MessageType
<1>7. HonestNegotiation' /\ ReplyBalance'
  BY <1>2 DEF IInv, HonestNegotiation, ReplyBalance, Unknown, context
<1>8. TransactionShape'
  BY <1>4, <1>5 DEF IInv, TransactionShape, Unknown, context, InTransaction
<1>9. CallbackHasContext'
  BY <1>1, <1>2, <1>4 DEF IInv, CallbackHasContext, TransactionShape, Unknown, context, InTransaction
<1>10. MacroScope'
  BY <1>1, <1>2, <1>3, <1>4 DEF IInv, MacroScope, TransactionShape, Unknown, context, InTransaction
<1> QED
  BY <1>6, <1>7, <1>8, <1>9, <1>10 DEF IInv

\* RCPT preserves the invariant.
LEMMA RecipientStep ==
  ASSUME IInv, NEW cmd \in Commands, Recipient(cmd)
  PROVE  IInv'
<1>1. /\ pending = "none" /\ owed = 0 /\ cmd.op = "R"
      /\ state \in RequiredStates("R") /\ WithinLimits(cmd)
  BY DEF Recipient, Takes, Accepted, IInv, ReplyBalance
<1>2. /\ pending' \in {"none", "Recipient"}
      /\ frames' \in [edits : Seq(Modifications), reply : WireFrame]
      /\ owed' = IF pending' = "none" THEN 0 ELSE 1
  <2>1. Conclude("R", "Recipient") /\ HonestNegotiation /\ stages \subseteq Stages
    BY DEF Recipient, IInv, TypeOK
  <2> QED
    BY <1>1, <2>1, ConcludeBalances DEF StageOp
<1>3. /\ IsBatches(macros') /\ IsBatches(pendingMacros')
      /\ DOMAIN macros' \subseteq DOMAIN macros \cup {"R"}
  <2>1. /\ macros' = Activated(macros, pendingMacros, "R")
        /\ pendingMacros' = Remove(pendingMacros, "R")
        /\ IsBatches(macros) /\ IsBatches(pendingMacros) /\ "R" \in MacroStages
    BY DEF Recipient, ActivateMacros, IInv, TypeOK, MacroStages
  <2> QED
    BY <2>1, ActivateBatches
<1>4. state \in {"Mail", "Recipients"}
  BY <1>1 DEF RequiredStates, States
<1>5. /\ message' \in MessageType
      /\ message'.recipients \in Seq(Envelopes) /\ Len(message'.recipients) <= MaxRecipients
      /\ message'.recipients # <<>>
      /\ message'.headers = message.headers /\ message'.sender = message.sender
      /\ message'.body = message.body
  <2>1. /\ message' = [message EXCEPT !.recipients = Append(@, cmd.arg),
                                      !.envelopeBytes = @ + cmd.arg.bytes]
        /\ message \in MessageType
    BY DEF Recipient, IInv, TypeOK, MessageType
  <2>2. cmd.arg \in Envelopes /\ cmd.arg.bytes \in Nat
    BY <1>1, CommandArguments, MtaAssumption
  <2>3. /\ Len(message.recipients) < MaxRecipients
        /\ message.envelopeBytes + cmd.arg.bytes <= EnvelopeBytes
    BY <1>1 DEF WithinLimits, RecipientFits, FitsEnvelope
  <2>4. /\ message.recipients \in Seq(Envelopes)
        /\ message.envelopeBytes \in 0 .. EnvelopeBytes
    BY <2>1 DEF MessageType
  <2>5. /\ Append(message.recipients, cmd.arg) \in Seq(Envelopes)
        /\ message.envelopeBytes + cmd.arg.bytes \in 0 .. EnvelopeBytes
    BY <2>2, <2>3, <2>4, LimitsAssumption
  <2>6. message' \in MessageType
    BY <2>1, <2>5 DEF MessageType
  <2>7. /\ message'.sender = message.sender
        /\ message'.recipients = Append(message.recipients, cmd.arg)
        /\ message'.headers = message.headers
        /\ message'.body = message.body
        /\ message'.bytes = message.bytes
        /\ message'.envelopeBytes = message.envelopeBytes + cmd.arg.bytes
    BY <2>1 DEF MessageType
  <2>8. /\ Len(Append(message.recipients, cmd.arg)) = Len(message.recipients) + 1
        /\ Len(message.recipients) \in Nat
        /\ Append(message.recipients, cmd.arg) # <<>>
    BY <2>2, <2>4
  <2> QED
    BY <2>1, <2>2, <2>3, <2>4, <2>5, <2>6, <2>7, <2>8, LimitsAssumption
<1>6. TypeOK'
  BY <1>2, <1>3, <1>4, <1>5 DEF IInv, TypeOK, Recipient, context, Stages, States, MessageType
<1>7. HonestNegotiation' /\ ReplyBalance'
  BY <1>2 DEF IInv, HonestNegotiation, ReplyBalance, Recipient, context
<1>8. TransactionShape'
  BY <1>4, <1>5 DEF IInv, TransactionShape, Recipient, context, InTransaction
<1>9. CallbackHasContext'
  BY <1>1, <1>2, <1>4 DEF IInv, CallbackHasContext, TransactionShape, Recipient, context, InTransaction
<1>10. MacroScope'
  BY <1>1, <1>2, <1>3, <1>4 DEF IInv, MacroScope, TransactionShape, Recipient, context, InTransaction
<1> QED
  BY <1>6, <1>7, <1>8, <1>9, <1>10 DEF IInv

\* A header field preserves the invariant.
LEMMA HeaderStep ==
  ASSUME IInv, NEW cmd \in Commands, Header(cmd)
  PROVE  IInv'
<1>1. /\ pending = "none" /\ owed = 0 /\ cmd.op = "L"
      /\ state \in RequiredStates("L") /\ WithinLimits(cmd)
  BY DEF Header, Takes, Accepted, IInv, ReplyBalance
<1>2. /\ pending' \in {"none", "none"}
      /\ frames' \in [edits : Seq(Modifications), reply : WireFrame]
      /\ owed' = IF pending' = "none" THEN 0 ELSE 1
  <2>1. Conclude("L", "none") /\ HonestNegotiation /\ stages \subseteq Stages
    BY DEF Header, IInv, TypeOK
  <2> QED
    BY <1>1, <2>1, ConcludeBalances DEF StageOp
<1>3. /\ IsBatches(macros') /\ IsBatches(pendingMacros')
      /\ DOMAIN macros' \subseteq DOMAIN macros \cup {"L"}
  <2>1. /\ macros' = Activated(macros, pendingMacros, "L")
        /\ pendingMacros' = Remove(pendingMacros, "L")
        /\ IsBatches(macros) /\ IsBatches(pendingMacros) /\ "L" \in MacroStages
    BY DEF Header, ActivateMacros, IInv, TypeOK, MacroStages
  <2> QED
    BY <2>1, ActivateBatches
<1>4. state \in {"Data", "Headers"}
  BY <1>1 DEF RequiredStates, States
<1>5. /\ message' \in MessageType
      /\ Len(message'.headers) <= MaxHeaders
      /\ message'.recipients = message.recipients /\ message'.sender = message.sender
      /\ message'.body = message.body
  <2>1. /\ message' = [message EXCEPT !.headers = Append(@, cmd.arg),
                                      !.bytes = @ + cmd.arg.bytes + 4]
        /\ message \in MessageType
    BY DEF Header, IInv, TypeOK, MessageType
  <2>2. cmd.arg \in HeaderFields /\ cmd.arg.bytes \in Nat
    BY <1>1, CommandArguments, MtaAssumption
  <2>3. /\ Len(message.headers) < MaxHeaders
        /\ message.bytes + (cmd.arg.bytes + 4) <= MessageBytes
    BY <1>1 DEF WithinLimits, HeaderFits, FitsMessage
  <2>4. /\ message.headers \in Seq(HeaderFields)
        /\ message.bytes \in 0 .. MessageBytes
    BY <2>1 DEF MessageType
  <2>5. /\ Append(message.headers, cmd.arg) \in Seq(HeaderFields)
        /\ message.bytes + cmd.arg.bytes + 4 \in 0 .. MessageBytes
    BY <2>2, <2>3, <2>4, LimitsAssumption
  <2>6. message' \in MessageType
    BY <2>1, <2>5 DEF MessageType
  <2>7. /\ message'.sender = message.sender
        /\ message'.recipients = message.recipients
        /\ message'.headers = Append(message.headers, cmd.arg)
        /\ message'.body = message.body
        /\ message'.bytes = message.bytes + cmd.arg.bytes + 4
        /\ message'.envelopeBytes = message.envelopeBytes
    BY <2>1 DEF MessageType
  <2>8. /\ Len(Append(message.headers, cmd.arg)) = Len(message.headers) + 1
        /\ Len(message.headers) \in Nat
        /\ Append(message.headers, cmd.arg) # <<>>
    BY <2>2, <2>4
  <2> QED
    BY <2>1, <2>2, <2>3, <2>4, <2>5, <2>6, <2>7, <2>8, LimitsAssumption
<1>6. TypeOK'
  BY <1>2, <1>3, <1>4, <1>5 DEF IInv, TypeOK, Header, context, Stages, States, MessageType
<1>7. HonestNegotiation' /\ ReplyBalance'
  BY <1>2 DEF IInv, HonestNegotiation, ReplyBalance, Header, context
<1>8. TransactionShape'
  BY <1>4, <1>5 DEF IInv, TransactionShape, Header, context, InTransaction
<1>9. CallbackHasContext'
  BY <1>1, <1>2, <1>4 DEF IInv, CallbackHasContext, TransactionShape, Header, context, InTransaction
<1>10. MacroScope'
  BY <1>1, <1>2, <1>3, <1>4 DEF IInv, MacroScope, TransactionShape, Header, context, InTransaction
<1> QED
  BY <1>6, <1>7, <1>8, <1>9, <1>10 DEF IInv

\* End of headers preserves the invariant.
LEMMA EndHeadersStep ==
  ASSUME IInv, NEW cmd \in Commands, EndHeaders(cmd)
  PROVE  IInv'
<1>1. /\ pending = "none" /\ owed = 0 /\ cmd.op = "N"
      /\ state \in RequiredStates("N") /\ WithinLimits(cmd)
  BY DEF EndHeaders, Takes, Accepted, IInv, ReplyBalance
<1>2. /\ pending' \in {"none", "none"}
      /\ frames' \in [edits : Seq(Modifications), reply : WireFrame]
      /\ owed' = IF pending' = "none" THEN 0 ELSE 1
  <2>1. Conclude("N", "none") /\ HonestNegotiation /\ stages \subseteq Stages
    BY DEF EndHeaders, IInv, TypeOK
  <2> QED
    BY <1>1, <2>1, ConcludeBalances DEF StageOp
<1>3. /\ IsBatches(macros') /\ IsBatches(pendingMacros')
      /\ DOMAIN macros' \subseteq DOMAIN macros \cup {"N"}
  <2>1. /\ macros' = Activated(macros, pendingMacros, "N")
        /\ pendingMacros' = Remove(pendingMacros, "N")
        /\ IsBatches(macros) /\ IsBatches(pendingMacros) /\ "N" \in MacroStages
    BY DEF EndHeaders, ActivateMacros, IInv, TypeOK, MacroStages
  <2> QED
    BY <2>1, ActivateBatches
<1>4. state \in {"Data", "Headers"}
  BY <1>1 DEF RequiredStates, States
<1>5. /\ message' \in MessageType
      /\ message'.recipients = message.recipients /\ message'.sender = message.sender
      /\ message'.headers = message.headers
  <2>1. message' = [message EXCEPT !.bytes = @ + 2] /\ message \in MessageType
    BY DEF EndHeaders, IInv, TypeOK, MessageType
  <2>2. message.bytes + 2 <= MessageBytes
    BY <1>1 DEF WithinLimits, FitsMessage
  <2>4. /\ message.bytes \in 0 .. MessageBytes
    BY <2>1 DEF MessageType
  <2>5. /\ message.bytes + 2 \in 0 .. MessageBytes
    BY <2>1, <2>2, <2>4, LimitsAssumption
  <2>6. message' \in MessageType
    BY <2>1, <2>5 DEF MessageType
  <2>7. /\ message'.sender = message.sender
        /\ message'.recipients = message.recipients
        /\ message'.headers = message.headers
        /\ message'.body = message.body
        /\ message'.bytes = message.bytes + 2
        /\ message'.envelopeBytes = message.envelopeBytes
    BY <2>1 DEF MessageType
  <2> QED
    BY <2>1, <2>2, <2>4, <2>5, <2>6, <2>7, LimitsAssumption
<1>6. TypeOK'
  BY <1>2, <1>3, <1>4, <1>5 DEF IInv, TypeOK, EndHeaders, context, Stages, States, MessageType
<1>7. HonestNegotiation' /\ ReplyBalance'
  BY <1>2 DEF IInv, HonestNegotiation, ReplyBalance, EndHeaders, context
<1>8. TransactionShape'
  BY <1>4, <1>5 DEF IInv, TransactionShape, EndHeaders, context, InTransaction
<1>9. CallbackHasContext'
  BY <1>1, <1>2, <1>4 DEF IInv, CallbackHasContext, TransactionShape, EndHeaders, context, InTransaction
<1>10. MacroScope'
  BY <1>1, <1>2, <1>3, <1>4 DEF IInv, MacroScope, TransactionShape, EndHeaders, context, InTransaction
<1> QED
  BY <1>6, <1>7, <1>8, <1>9, <1>10 DEF IInv

\* A body piece preserves the invariant.
LEMMA BodyStep ==
  ASSUME IInv, NEW cmd \in Commands, Body(cmd)
  PROVE  IInv'
<1>1. /\ pending = "none" /\ owed = 0 /\ cmd.op = "B"
      /\ state \in RequiredStates("B") /\ WithinLimits(cmd)
  BY DEF Body, Takes, Accepted, IInv, ReplyBalance
<1>2. /\ pending' \in {"none", "none"}
      /\ frames' \in [edits : Seq(Modifications), reply : WireFrame]
      /\ owed' = IF pending' = "none" THEN 0 ELSE 1
  <2>1. Conclude("B", "none") /\ HonestNegotiation /\ stages \subseteq Stages
    BY DEF Body, IInv, TypeOK
  <2> QED
    BY <1>1, <2>1, ConcludeBalances DEF StageOp
<1>3. /\ IsBatches(macros') /\ IsBatches(pendingMacros')
      /\ DOMAIN macros' \subseteq DOMAIN macros \cup {"B"}
  <2>1. /\ macros' = Activated(macros, pendingMacros, "B")
        /\ pendingMacros' = Remove(pendingMacros, "B")
        /\ IsBatches(macros) /\ IsBatches(pendingMacros) /\ "B" \in MacroStages
    BY DEF Body, ActivateMacros, IInv, TypeOK, MacroStages
  <2> QED
    BY <2>1, ActivateBatches
<1>4. state \in {"Body"}
  BY <1>1 DEF RequiredStates, States
<1>5. /\ message' \in MessageType
      /\ message'.recipients = message.recipients /\ message'.sender = message.sender
      /\ message'.headers = message.headers
  <2>1. /\ message' = [message EXCEPT !.body = @ + cmd.arg.bytes, !.bytes = @ + cmd.arg.bytes]
        /\ message \in MessageType
    BY DEF Body, IInv, TypeOK, MessageType
  <2>2. cmd.arg.bytes \in Nat
    BY <1>1, CommandArguments
  <2>3. message.bytes + cmd.arg.bytes <= MessageBytes
    BY <1>1 DEF WithinLimits, FitsMessage
  <2>4. /\ message.body \in Nat
        /\ message.bytes \in 0 .. MessageBytes
    BY <2>1 DEF MessageType
  <2>5. /\ message.body + cmd.arg.bytes \in Nat
        /\ message.bytes + cmd.arg.bytes \in 0 .. MessageBytes
    BY <2>2, <2>3, <2>4, LimitsAssumption
  <2>6. message' \in MessageType
    BY <2>1, <2>5 DEF MessageType
  <2>7. /\ message'.sender = message.sender
        /\ message'.recipients = message.recipients
        /\ message'.headers = message.headers
        /\ message'.body = message.body + cmd.arg.bytes
        /\ message'.bytes = message.bytes + cmd.arg.bytes
        /\ message'.envelopeBytes = message.envelopeBytes
    BY <2>1 DEF MessageType
  <2> QED
    BY <2>1, <2>2, <2>3, <2>4, <2>5, <2>6, <2>7, LimitsAssumption
<1>6. TypeOK'
  BY <1>2, <1>3, <1>4, <1>5 DEF IInv, TypeOK, Body, context, Stages, States, MessageType
<1>7. HonestNegotiation' /\ ReplyBalance'
  BY <1>2 DEF IInv, HonestNegotiation, ReplyBalance, Body, context
<1>8. TransactionShape'
  BY <1>4, <1>5 DEF IInv, TransactionShape, Body, context, InTransaction
<1>9. CallbackHasContext'
  BY <1>1, <1>2, <1>4 DEF IInv, CallbackHasContext, TransactionShape, Body, context, InTransaction
<1>10. MacroScope'
  BY <1>1, <1>2, <1>3, <1>4 DEF IInv, MacroScope, TransactionShape, Body, context, InTransaction
<1> QED
  BY <1>6, <1>7, <1>8, <1>9, <1>10 DEF IInv

\* Negotiation preserves the invariant: the agreed bits leave out the subscribed stages.
LEMMA NegotiateStep ==
  ASSUME IInv, NEW cmd \in Commands, Negotiate(cmd)
  PROVE  IInv'
<1>1. /\ cmd.arg \in Offers /\ pending = "none" /\ state = "Initial"
  BY CommandArguments DEF Negotiate, Takes, Accepted, RequiredStates
<1>2. /\ options' = [actions |-> cmd.arg.actions \cap WantedActions,
                    protocol |-> AgreedProtocol(cmd.arg.protocol)]
      /\ state' = "Negotiated" /\ frames' = Answer("O")
  BY DEF Negotiate
<1>3. frames' \in [edits : Seq(Modifications), reply : WireFrame]
  BY <1>2, BareFrames DEF ReplyCodes
<1>4. options' \in [actions : SUBSET ActionBits, protocol : SUBSET ProtocolBits]
  BY <1>1, <1>2, MtaAssumption DEF AgreedProtocol
<1>5. \A s \in stages \cap DOMAIN StageOp : StageOp[s] \notin AgreedProtocol(cmd.arg.protocol)
  BY DEF AgreedProtocol, StageOp
<1>6. TypeOK'
  BY <1>2, <1>3, <1>4 DEF Negotiate, IInv, TypeOK, States
<1>7. HonestNegotiation' /\ ReplyBalance'
  BY <1>2, <1>5 DEF Negotiate, IInv, HonestNegotiation, ReplyBalance
<1>8. TransactionShape' /\ CallbackHasContext' /\ MacroScope'
  BY <1>1, <1>2 DEF Negotiate, IInv, TransactionShape, CallbackHasContext, MacroScope,
                    InTransaction
<1> QED
  BY <1>6, <1>7, <1>8 DEF IInv

\* A macro batch preserves the invariant: it waits for its command.
LEMMA MacroStep ==
  ASSUME IInv, NEW cmd \in Commands, Macro(cmd)
  PROVE  IInv'
<1>1. cmd.arg.stage \in MacroStages /\ cmd.arg.bytes \in Nat
  BY CommandArguments DEF Macro, Takes
<1>2. IsBatches(pendingMacros')
  BY <1>1, PutBatches DEF Macro, IInv, TypeOK
<1>3. frames' \in [edits : Seq(Modifications), reply : WireFrame]
  BY BareFrames DEF Macro
<1>4. TypeOK'
  BY <1>2, <1>3 DEF Macro, IInv, TypeOK, context
<1> QED
  BY <1>4 DEF Macro, context, IInv, HonestNegotiation, ReplyBalance, TransactionShape,
              CallbackHasContext, MacroScope

\* MAIL preserves the invariant: it starts from an empty message and its own batch.
LEMMA MailStep ==
  ASSUME IInv, NEW cmd \in Commands, Mail(cmd)
  PROVE  IInv'
<1>1. /\ pending = "none" /\ owed = 0 /\ cmd.op = "M" /\ state = "Ready"
      /\ WithinLimits(cmd)
  BY DEF Mail, Takes, Accepted, RequiredStates, IInv, ReplyBalance
<1>2. /\ pending' \in {"none", "Mail"}
      /\ frames' \in [edits : Seq(Modifications), reply : WireFrame]
      /\ owed' = IF pending' = "none" THEN 0 ELSE 1
  <2>1. Conclude("M", "Mail") /\ HonestNegotiation /\ stages \subseteq Stages
    BY DEF Mail, IInv, TypeOK
  <2> QED
    BY <1>1, <2>1, ConcludeBalances DEF StageOp
<1>3. /\ IsBatches(macros') /\ IsBatches(pendingMacros')
      /\ DOMAIN macros' \subseteq (DOMAIN macros \cap ConnectionMacros) \cup {"M"}
  <2> DEFINE f == Retain(macros, ConnectionMacros)
             g == Retain(pendingMacros, ConnectionMacros \cup {"M"})
  <2>1. IsBatches(macros) /\ IsBatches(pendingMacros)
    BY DEF IInv, TypeOK
  <2>2. /\ IsBatches(f) /\ IsBatches(g) /\ DOMAIN f = DOMAIN macros \cap ConnectionMacros
        /\ IsBatches(Retain(pendingMacros, ConnectionMacros))
    BY <2>1, RetainBatches
  <2>3. macros' = Activated(f, g, "M") /\ pendingMacros' = Retain(pendingMacros, ConnectionMacros)
    BY DEF Mail
  <2>4. "M" \in MacroStages
    BY DEF MacroStages
  <2> HIDE DEF f, g
  <2> QED
    BY <2>2, <2>3, <2>4, ActivateBatches
<1>5. /\ message' \in MessageType
      /\ message'.sender # NoSender /\ message'.recipients = <<>>
      /\ message'.headers = <<>> /\ message'.body = 0
      /\ Len(message'.recipients) <= MaxRecipients /\ Len(message'.headers) <= MaxHeaders
  <2>1. cmd.arg \in Envelopes /\ cmd.arg.bytes \in Nat /\ cmd.arg.id # "none"
    BY <1>1, CommandArguments, MtaAssumption
  <2>2. cmd.arg.bytes <= EnvelopeBytes
    BY <1>1, <2>1 DEF WithinLimits, FitsEnvelope
  <2>3. message' = [sender |-> cmd.arg, recipients |-> <<>>, headers |-> <<>>, body |-> 0,
                    bytes |-> 0, envelopeBytes |-> cmd.arg.bytes]
    BY DEF Mail, EmptyMessage
  <2>4. cmd.arg # NoSender
    BY <2>1 DEF NoSender
  <2> QED
    BY <2>1, <2>2, <2>3, <2>4, LimitsAssumption DEF MessageType
<1>6. TypeOK'
  BY <1>2, <1>3, <1>5 DEF IInv, TypeOK, Mail, context, Stages, States, MessageType
<1>7. HonestNegotiation' /\ ReplyBalance'
  BY <1>2 DEF IInv, HonestNegotiation, ReplyBalance, Mail, context
<1>8. TransactionShape'
  BY <1>1, <1>5 DEF IInv, TransactionShape, Mail, context, InTransaction
<1>9. CallbackHasContext'
  BY <1>1, <1>2 DEF IInv, CallbackHasContext, TransactionShape, Mail, context, InTransaction
<1>10. MacroScope'
  BY <1>3 DEF IInv, MacroScope, Mail, context, InTransaction, ConnectionMacros
<1> QED
  BY <1>6, <1>7, <1>8, <1>9, <1>10 DEF IInv

\* ABORT preserves the invariant.
LEMMA AbortStep ==
  ASSUME IInv, NEW cmd \in Commands, Abort(cmd)
  PROVE  IInv'
<1>1. pending = "none" /\ owed = 0 /\ state \in States \ {"Initial", "Closed"}
  BY DEF Abort, Takes, Accepted, RequiredStates, IInv, ReplyBalance
<1>2. /\ pending' = "none" /\ owed' = 0
      /\ frames' \in [edits : Seq(Modifications), reply : WireFrame]
  <2>1. Conclude("A", "none") /\ HonestNegotiation /\ stages \subseteq Stages
    BY DEF Abort, IInv, TypeOK
  <2> QED
    BY <1>1, <2>1, ConcludeBalances
<1>3. /\ message' = EmptyMessage /\ message' \in MessageType
      /\ Len(message'.recipients) <= MaxRecipients /\ Len(message'.headers) <= MaxHeaders
      /\ IsBatches(macros') /\ IsBatches(pendingMacros')
      /\ DOMAIN macros' \subseteq DOMAIN macros \cap ConnectionMacros
  BY ResetOK DEF Abort
<1>4. state' = IF connection /\ state # "Stopped" THEN "Ready" ELSE state
  BY <1>1 DEF Abort, States
<1>5. TypeOK'
  BY <1>1, <1>2, <1>3, <1>4 DEF IInv, TypeOK, Abort, context, States, MessageType
<1>6. HonestNegotiation' /\ ReplyBalance'
  BY <1>2 DEF IInv, HonestNegotiation, ReplyBalance, Abort, context
<1>7. TransactionShape' /\ CallbackHasContext'
  <2>1. state' \notin InTransaction
    BY <1>1, <1>4 DEF IInv, TransactionShape, InTransaction, States
  <2>2. state' = "Ready" => connection'
    BY <1>1, <1>4 DEF IInv, TransactionShape, Abort, context
  <2> QED
    BY <1>2, <1>3, <2>1, <2>2 DEF TransactionShape, CallbackHasContext, InTransaction
<1>8. MacroScope'
  BY <1>2, <1>3 DEF IInv, MacroScope, Abort, context, ConnectionMacros
<1> QED
  BY <1>5, <1>6, <1>7, <1>8 DEF IInv

\* QUIT preserves the invariant.
LEMMA QuitStep ==
  ASSUME IInv, NEW cmd \in Commands, Quit(cmd)
  PROVE  IInv'
<1>1. pending = "none" /\ owed = 0 /\ state \in States \ {"Initial", "Closed"}
  BY DEF Quit, Takes, Accepted, RequiredStates, IInv, ReplyBalance
<1>2. /\ pending' = "none" /\ owed' = 0
      /\ frames' \in [edits : Seq(Modifications), reply : WireFrame]
  <2>1. Conclude("Q", "none") /\ HonestNegotiation /\ stages \subseteq Stages
    BY DEF Quit, IInv, TypeOK
  <2> QED
    BY <1>1, <2>1, ConcludeBalances
<1>3. /\ message' = EmptyMessage /\ message' \in MessageType
      /\ Len(message'.recipients) <= MaxRecipients /\ Len(message'.headers) <= MaxHeaders
      /\ IsBatches(macros') /\ IsBatches(pendingMacros')
      /\ DOMAIN macros' \subseteq DOMAIN macros \cap ConnectionMacros
  BY ResetOK DEF Quit
<1>4. state' = "Closed"
  BY <1>1 DEF Quit, States
<1>5. TypeOK'
  BY <1>1, <1>2, <1>3, <1>4 DEF IInv, TypeOK, Quit, context, States, MessageType
<1>6. HonestNegotiation' /\ ReplyBalance'
  BY <1>2 DEF IInv, HonestNegotiation, ReplyBalance, Quit, context
<1>7. TransactionShape' /\ CallbackHasContext'
  <2>1. state' \notin InTransaction
    BY <1>1, <1>4 DEF IInv, TransactionShape, InTransaction, States
  <2>2. state' = "Ready" => connection'
    BY <1>1, <1>4 DEF IInv, TransactionShape, Quit, context
  <2> QED
    BY <1>2, <1>3, <2>1, <2>2 DEF TransactionShape, CallbackHasContext, InTransaction
<1>8. MacroScope'
  BY <1>2, <1>3 DEF IInv, MacroScope, Quit, context, ConnectionMacros
<1> QED
  BY <1>5, <1>6, <1>7, <1>8 DEF IInv

\* QUIT_NC preserves the invariant.
LEMMA QuitNewConnectionStep ==
  ASSUME IInv, NEW cmd \in Commands, QuitNewConnection(cmd)
  PROVE  IInv'
<1>1. pending = "none" /\ owed = 0 /\ state \in States \ {"Initial", "Closed"}
  BY DEF QuitNewConnection, Takes, Accepted, RequiredStates, IInv, ReplyBalance
<1>2. /\ pending' = "none" /\ owed' = 0
      /\ frames' \in [edits : Seq(Modifications), reply : WireFrame]
  <2>1. Conclude("K", "none") /\ HonestNegotiation /\ stages \subseteq Stages
    BY DEF QuitNewConnection, IInv, TypeOK
  <2> QED
    BY <1>1, <2>1, ConcludeBalances
<1>3. /\ message' = EmptyMessage /\ message' \in MessageType
      /\ Len(message'.recipients) <= MaxRecipients /\ Len(message'.headers) <= MaxHeaders
      /\ IsBatches(macros') /\ IsBatches(pendingMacros')
      /\ DOMAIN macros' \subseteq DOMAIN macros \cap ConnectionMacros
  BY EmptyMessageOK, LimitsAssumption DEF QuitNewConnection, NoBatches, IsBatches
<1>4. state' = "Negotiated"
  BY <1>1 DEF QuitNewConnection, States
<1>5. TypeOK'
  BY <1>1, <1>2, <1>3, <1>4 DEF IInv, TypeOK, QuitNewConnection, context, States, MessageType
<1>6. HonestNegotiation' /\ ReplyBalance'
  BY <1>2 DEF IInv, HonestNegotiation, ReplyBalance, QuitNewConnection, context
<1>7. TransactionShape' /\ CallbackHasContext'
  <2>1. state' \notin InTransaction
    BY <1>1, <1>4 DEF IInv, TransactionShape, InTransaction, States
  <2>2. state' = "Ready" => connection'
    BY <1>1, <1>4 DEF IInv, TransactionShape, QuitNewConnection, context
  <2> QED
    BY <1>2, <1>3, <2>1, <2>2 DEF TransactionShape, CallbackHasContext, InTransaction
<1>8. MacroScope'
  <2>1. DOMAIN macros' = {}
    BY DEF QuitNewConnection, NoBatches
  <2> QED
    BY <2>1 DEF MacroScope
<1> QED
  BY <1>5, <1>6, <1>7, <1>8 DEF IInv

\* A refused command changes nothing but the error.
LEMMA RefuseStep ==
  ASSUME IInv, NEW cmd \in Commands, Refuse(cmd)
  PROVE  IInv'
<1>1. frames' \in [edits : Seq(Modifications), reply : WireFrame]
  BY BareFrames DEF Refuse
<1>2. TypeOK'
  BY <1>1 DEF Refuse, IInv, TypeOK, context
<1> QED
  BY <1>2 DEF Refuse, context, IInv, HonestNegotiation, ReplyBalance, TransactionShape,
              CallbackHasContext, MacroScope

\* Dropping the refused recipient of a non-empty list gives a shorter list.
LEMMA DropLastOK ==
  ASSUME NEW s \in Seq(Envelopes), s # <<>>
  PROVE  /\ DropLast(s) \in Seq(Envelopes)
         /\ Len(DropLast(s)) = Len(s) - 1
         /\ DropLast(s) = <<>> <=> Len(s) = 1
<1>1. Len(s) \in Nat /\ Len(s) # 0
  OBVIOUS
<1>2. DropLast(s) \in Seq(Envelopes) /\ Len(DropLast(s)) = Len(s) - 1
  <2>1. \A i \in 1 .. Len(s) - 1 : s[i] \in Envelopes
    BY <1>1
  <2>2. 1 \in Int /\ Len(s) - 1 \in Int
    BY <1>1
  <2>3. /\ SubSeq(s, 1, Len(s) - 1) \in Seq(Envelopes)
        /\ Len(SubSeq(s, 1, Len(s) - 1)) =
             IF 1 <= Len(s) - 1 THEN (Len(s) - 1) - 1 + 1 ELSE 0
    BY <2>1, <2>2, SubSeqProperties
  <2>4. DropLast(s) = SubSeq(s, 1, Len(s) - 1)
    BY DEF DropLast
  <2>5. (IF 1 <= Len(s) - 1 THEN (Len(s) - 1) - 1 + 1 ELSE 0) = Len(s) - 1
    BY <1>1
  <2> QED
    BY <2>3, <2>4, <2>5
<1>3. DropLast(s) = <<>> <=> Len(DropLast(s)) = 0
  BY <1>2
<1> QED
  BY <1>1, <1>2, <1>3

\* What complete does to the session when the recipient being asked about is refused.
LEMMA RefusedRecipientOK ==
  ASSUME IInv, pending = "Recipient",
         message' = [message EXCEPT !.recipients = DropLast(@)],
         state' = IF Len(message.recipients) = 1 THEN "Mail" ELSE "Recipients"
  PROVE  /\ message' \in MessageType
         /\ Len(message'.recipients) <= MaxRecipients /\ Len(message'.headers) <= MaxHeaders
         /\ message'.sender # NoSender /\ message'.headers = <<>> /\ message'.body = 0
         /\ state' = "Mail" <=> message'.recipients = <<>>
<1>1. message \in MessageType
  BY DEF IInv, TypeOK, MessageType
<1>2. state = "Recipients"
  BY DEF IInv, CallbackHasContext
<1>3. /\ message.recipients # <<>> /\ message.sender # NoSender
      /\ message.headers = <<>> /\ message.body = 0
  BY <1>2 DEF IInv, TransactionShape, InTransaction
<1>4. message.recipients \in Seq(Envelopes)
  BY <1>1 DEF MessageType
<1>5. /\ DropLast(message.recipients) \in Seq(Envelopes)
      /\ Len(DropLast(message.recipients)) = Len(message.recipients) - 1
      /\ DropLast(message.recipients) = <<>> <=> Len(message.recipients) = 1
  BY <1>3, <1>4, DropLastOK
<1>6. message' \in MessageType
  BY <1>1, <1>5 DEF MessageType
<1>7. /\ message'.recipients = DropLast(message.recipients)
      /\ message'.sender = message.sender /\ message'.headers = message.headers
      /\ message'.body = message.body
  BY <1>1 DEF MessageType
<1>8. Len(message.recipients) <= MaxRecipients /\ Len(message.recipients) \in Nat
  BY <1>4 DEF IInv, TypeOK
<1> QED
  BY <1>3, <1>5, <1>6, <1>7, <1>8, LimitsAssumption

\* A decision as complete finds it, the policy's own or the driver's.
IsDecision(d) == /\ d.verdict \in Verdicts /\ d.code \in Nat /\ d.text \in Nat
                 /\ d.clean \in BOOLEAN /\ d.mods \in Seq(Modifications)

\* complete preserves the invariant, whatever the verdict.
LEMMA CompleteStep ==
  ASSUME IInv, NEW d, IsDecision(d), Complete(d)
  PROVE  IInv'
<1>1. /\ pending \in Stages /\ owed = 1
  BY DEF Complete, IInv, TypeOK, ReplyBalance
<1>2. pending' = "none" /\ owed' = 0
  BY <1>1 DEF Complete
<1>3. frames' \in [edits : Seq(Modifications), reply : WireFrame]
  <2>1. d.mods \in Seq(Modifications) /\ <<>> \in Seq(Modifications) /\ d.text \in Nat
    BY DEF IsDecision
  <2>2. d.verdict \in Verdicts
    BY DEF IsDecision
  <2>3. FinalFrame(d) \in WireFrame
    BY <2>1, <2>2 DEF FinalFrame, EmptyFrame, WireFrame, ReplyCodes, Verdicts
  <2> QED
    BY <2>1, <2>3 DEF Complete, DecisionFrames
<1>4. /\ UNCHANGED <<stages, options, connection, helo, error>>
  BY DEF Complete, context
<1>5. connection /\ state \in InTransaction \cup {"Ready"}
  BY <1>1 DEF IInv, CallbackHasContext, Stages, InTransaction
<1>6. HonestNegotiation' /\ ReplyBalance' /\ CallbackHasContext'
  BY <1>2, <1>4 DEF IInv, HonestNegotiation, ReplyBalance, CallbackHasContext
<1>7. ASSUME ResetMessage, state' \in {"Stopped", "Ready"}
      PROVE  TypeOK' /\ TransactionShape' /\ MacroScope'
  <2>1. /\ message' = EmptyMessage /\ message' \in MessageType
        /\ Len(message'.recipients) <= MaxRecipients /\ Len(message'.headers) <= MaxHeaders
        /\ IsBatches(macros') /\ IsBatches(pendingMacros')
        /\ DOMAIN macros' \subseteq DOMAIN macros \cap ConnectionMacros
    BY <1>7, ResetOK
  <2>2. TypeOK'
    BY <1>2, <1>3, <1>4, <1>7, <2>1 DEF IInv, TypeOK, MessageType, States
  <2>3. TransactionShape'
    BY <1>4, <1>5, <1>7, <2>1 DEF TransactionShape, InTransaction
  <2>4. MacroScope'
    BY <1>4, <2>1 DEF IInv, MacroScope, ConnectionMacros
  <2> QED
    BY <2>2, <2>3, <2>4
<1>8. CASE d.verdict = "Shutdown"
  BY <1>6, <1>7, <1>8 DEF IInv, Complete, ApplyVerdict
<1>9. CASE d.verdict # "Shutdown" /\ d.verdict \in Rejecting /\ pending = "Recipient"
  <2>1. /\ message' = [message EXCEPT !.recipients = DropLast(@)]
        /\ state' = IF Len(message.recipients) = 1 THEN "Mail" ELSE "Recipients"
        /\ UNCHANGED <<macros, pendingMacros>>
    BY <1>9 DEF Complete, ApplyVerdict, RefuseRecipient
  <2>2. /\ message' \in MessageType
        /\ Len(message'.recipients) <= MaxRecipients /\ Len(message'.headers) <= MaxHeaders
        /\ message'.sender # NoSender /\ message'.headers = <<>> /\ message'.body = 0
        /\ state' = "Mail" <=> message'.recipients = <<>>
    BY <1>9, <2>1, RefusedRecipientOK
  <2>3. state' \in {"Mail", "Recipients"} /\ state = "Recipients"
    BY <1>9, <2>1 DEF IInv, CallbackHasContext
  <2>4. TypeOK'
    BY <1>2, <1>3, <1>4, <2>1, <2>2, <2>3 DEF IInv, TypeOK, MessageType, States
  <2>5. TransactionShape'
    BY <1>4, <1>5, <2>2, <2>3 DEF TransactionShape, InTransaction
  <2>6. MacroScope'
    BY <1>4, <1>9, <2>1, <2>3 DEF IInv, MacroScope, InTransaction
  <2> QED
    BY <1>6, <2>4, <2>5, <2>6 DEF IInv
<1>10. CASE d.verdict # "Shutdown" /\ d.verdict \in Rejecting /\ pending \in {"Connect", "Helo"}
  <2>1. state' = "Stopped" /\ UNCHANGED <<message, macros, pendingMacros>>
    BY <1>10 DEF Complete, ApplyVerdict
  <2>2. state = "Ready"
    BY <1>10 DEF IInv, CallbackHasContext
  <2>3. TypeOK'
    BY <1>2, <1>3, <1>4, <2>1 DEF IInv, TypeOK, States
  <2>4. TransactionShape'
    BY <2>1, <2>2 DEF IInv, TransactionShape, InTransaction
  <2>5. MacroScope'
    BY <1>4, <1>10, <2>1, <2>2 DEF IInv, MacroScope, InTransaction
  <2> QED
    BY <1>6, <2>3, <2>4, <2>5 DEF IInv
<1>11. CASE /\ d.verdict \notin Rejecting \/ pending \notin {"Connect", "Helo", "Recipient"}
            /\ d.verdict # "Shutdown"
            /\ pending = "EndMessage" \/ d.verdict \in Rejecting \cup Finishing
  BY <1>6, <1>7, <1>11 DEF IInv, Complete, ApplyVerdict
<1>12. CASE /\ pending # "EndMessage" /\ d.verdict \notin Rejecting \cup Finishing
            /\ d.verdict # "Shutdown"
  <2>1. UNCHANGED <<state, message, macros, pendingMacros>>
    BY <1>12 DEF Complete, ApplyVerdict
  <2>2. TypeOK'
    BY <1>2, <1>3, <1>4, <2>1 DEF IInv, TypeOK
  <2>3. TransactionShape'
    BY <1>4, <2>1 DEF IInv, TransactionShape
  <2>4. MacroScope'
    BY <1>4, <1>12, <2>1 DEF IInv, MacroScope
  <2> QED
    BY <1>6, <2>2, <2>3, <2>4 DEF IInv
<1> QED
  BY <1>8, <1>9, <1>10, <1>11, <1>12

\* A new session (Session::new) satisfies the invariant.
LEMMA InitIInv == Init => IInv
<1> SUFFICES ASSUME Init PROVE IInv
  OBVIOUS
<1>1. /\ message \in MessageType
      /\ Len(message.recipients) <= MaxRecipients /\ Len(message.headers) <= MaxHeaders
  BY EmptyMessageOK, LimitsAssumption DEF Init
<1>2. frames \in [edits : Seq(Modifications), reply : WireFrame]
  BY BareFrames DEF Init
<1>3. IsBatches(macros) /\ IsBatches(pendingMacros) /\ DOMAIN macros = {}
  BY DEF Init, NoBatches, IsBatches
<1>4. stages \subseteq Stages
  BY PolicyAssumption DEF Init
<1>5. options \in [actions : SUBSET ActionBits, protocol : SUBSET ProtocolBits]
  BY DEF Init
<1>6. TypeOK
  <2>1. connection \in BOOLEAN /\ helo \in BOOLEAN
    BY Zenon DEF Init
  <2>2. /\ state \in States /\ pending \in Stages \cup {"none"}
        /\ error \in {"none", "sequence", "invalid", "limit"}
    BY DEF Init, States
  <2>3. owed \in Int
    BY DEF Init
  <2> QED
    BY <1>1, <1>2, <1>3, <1>4, <1>5, <2>1, <2>2, <2>3 DEF TypeOK, MessageType
<1> QED
  BY <1>3, <1>6 DEF Init, IInv, HonestNegotiation, ReplyBalance, TransactionShape,
                    CallbackHasContext, MacroScope, InTransaction

\* Every step of the session, a received command or a decision, preserves the invariant.
LEMMA NextIInv == IInv /\ [Next]_vars => IInv'
<1> SUFFICES ASSUME IInv, [Next]_vars PROVE IInv'
  OBVIOUS
<1>1. CASE UNCHANGED vars
  BY <1>1 DEF vars, IInv, TypeOK, HonestNegotiation, ReplyBalance, TransactionShape,
              CallbackHasContext, MacroScope
<1>2. ASSUME NEW cmd \in Commands, Receive(cmd) PROVE IInv'
  BY <1>2, NegotiateStep, MacroStep, ConnectStep, HeloStep, MailStep, RecipientStep,
     DataStep, HeaderStep, EndHeadersStep, BodyStep, EndMessageStep, AbortStep,
     QuitNewConnectionStep, QuitStep, UnknownStep, RefuseStep DEF Receive
<1>3. ASSUME NEW d \in Decisions, Complete(d) PROVE IInv'
  BY <1>3, CompleteStep, PolicyAssumption DEF IsDecision
<1> QED
  BY <1>1, <1>2, <1>3 DEF Next

\* The inductive invariant holds in every reachable state of the session.
THEOREM SessionInvariant == Spec => []IInv
BY InitIInv, NextIInv, PTL DEF Spec

\* Types and limits: the message never exceeds what Limits allows, whatever the MTA
\* sends and whatever the policy decides (receive, account, account_envelope).
THEOREM TypeCorrect == Spec => []TypeOK
<1>1. IInv => TypeOK
  BY DEF IInv
<1> QED
  BY <1>1, SessionInvariant, PTL

\* The MTA waits for a reply exactly while a callback is pending (receive, complete).
THEOREM RepliesBalance == Spec => []ReplyBalance
<1>1. IInv => ReplyBalance
  BY DEF IInv
<1> QED
  BY <1>1, SessionInvariant, PTL

\* The message held is that of the current transaction (reset_message, complete).
THEOREM TransactionsAreSeparate == Spec => []TransactionShape
<1>1. IInv => TransactionShape
  BY DEF IInv
<1> QED
  BY <1>1, SessionInvariant, PTL

\* A pending callback always finds the context its stage is about (receive).
THEOREM CallbacksHaveContext == Spec => []CallbackHasContext
<1>1. IInv => CallbackHasContext
  BY DEF IInv
<1> QED
  BY <1>1, SessionInvariant, PTL

\* Active macros belong to the current connection and transaction (activate_macros,
\* reset_message).
THEOREM MacrosAreCurrent == Spec => []MacroScope
<1>1. IInv => MacroScope
  BY DEF IInv
<1> QED
  BY <1>1, SessionInvariant, PTL

-----------------------------------------------------------------------------
(* What a step of the session may never do. *)

\* In which states receive takes which command.
LEMMA TakenIn ==
  ASSUME NEW cmd, NEW op, Takes(cmd, op)
  PROVE  pending = "none" /\ state \in RequiredStates(op)
BY DEF Takes, Accepted

\* Once the connection was refused or shut down, only a new connection leads out of it.
LEMMA StoppedStays ==
  ASSUME IInv, Next, state = "Stopped"
  PROVE  /\ pending' = "none" /\ state' \in {"Stopped", "Closed", "Negotiated"}
         /\ state' = "Negotiated" => ~connection'
<1>1. pending = "none"
  BY DEF IInv, CallbackHasContext
<1>2. ~ \E d \in Decisions : Complete(d)
  BY <1>1 DEF Complete
<1>3. PICK cmd \in Commands : Receive(cmd)
  BY <1>2 DEF Next
<1>4. \A op \in {"O", "C", "H", "M", "R", "T", "L", "N", "B", "E"} : ~Takes(cmd, op)
  BY TakenIn DEF RequiredStates
<1>5. CASE Macro(cmd) \/ Unknown(cmd) \/ Refuse(cmd)
  BY <1>1, <1>5 DEF Macro, Unknown, Refuse, Conclude
<1>6. CASE Abort(cmd) \/ Quit(cmd)
  BY <1>6 DEF Abort, Quit, Conclude
<1>7. CASE QuitNewConnection(cmd)
  BY <1>7 DEF QuitNewConnection, Conclude
<1> QED
  BY <1>3, <1>4, <1>5, <1>6, <1>7 DEF Receive, Negotiate, Connect, Helo, Mail, Recipient, Data,
     Header, EndHeaders, Body, EndMessage

\* Within a transaction the envelope's charge never decreases: a refused recipient does
\* not give its bytes back (account_envelope, complete).
LEMMA ChargeStays ==
  ASSUME IInv, Next, state \in InTransaction, state' \in InTransaction
  PROVE  message'.envelopeBytes >= message.envelopeBytes
<1>1. message \in MessageType /\ message.envelopeBytes \in Nat
  BY LimitsAssumption DEF IInv, TypeOK, MessageType
<1>2. ASSUME NEW cmd \in Commands, Receive(cmd)
      PROVE  message'.envelopeBytes >= message.envelopeBytes
  <2>1. CASE Recipient(cmd)
    <3>1. cmd.arg \in Envelopes
      BY <2>1, CommandArguments DEF Recipient, Takes
    <3>2. cmd.arg.bytes \in Nat
      BY <3>1, MtaAssumption
    <3>3. message'.envelopeBytes = message.envelopeBytes + cmd.arg.bytes
      BY <1>1, <2>1 DEF Recipient, MessageType
    <3> QED
      BY <1>1, <3>2, <3>3
  <2>2. CASE Header(cmd) \/ EndHeaders(cmd) \/ Body(cmd)
    <3>1. message'.envelopeBytes = message.envelopeBytes
      BY <1>1, <2>2 DEF Header, EndHeaders, Body, MessageType
    <3> QED
      BY <1>1, <3>1
  <2>3. CASE UNCHANGED message
    BY <1>1, <2>3
  <2>4. CASE Negotiate(cmd) \/ Mail(cmd)
    <3>1. Takes(cmd, "O") \/ Takes(cmd, "M")
      BY <2>4 DEF Negotiate, Mail
    <3>2. state \notin RequiredStates("O") /\ state \notin RequiredStates("M")
      BY DEF RequiredStates, InTransaction
    <3> QED
      BY <3>1, <3>2, TakenIn
  <2>5. CASE Abort(cmd) \/ QuitNewConnection(cmd) \/ Quit(cmd)
    <3>1. connection /\ state # "Stopped"
      BY DEF IInv, TransactionShape, InTransaction
    <3>2. state' \in {"Ready", "Negotiated", "Closed"}
      BY <2>5, <3>1 DEF Abort, QuitNewConnection, Quit
    <3> QED
      BY <3>2 DEF InTransaction
  <2> QED
    BY <1>2, <2>1, <2>2, <2>3, <2>4, <2>5 DEF Receive, Macro, Connect, Helo, Data, EndMessage,
       Unknown, Refuse
<1>3. ASSUME NEW d \in Decisions, Complete(d)
      PROVE  message'.envelopeBytes >= message.envelopeBytes
  <2>1. RefuseRecipient \/ UNCHANGED message
    BY <1>3 DEF Complete, ApplyVerdict, InTransaction
  <2>2. message'.envelopeBytes = message.envelopeBytes
    BY <1>1, <2>1 DEF RefuseRecipient, MessageType
  <2> QED
    BY <1>1, <2>2
<1> QED
  BY <1>2, <1>3 DEF Next

\* A refusal is not undone, for all limits, subscriptions, policies and MTAs.
THEOREM RefusalsAreFinal == Spec => RefusalIsFinal
<1>1. IInv /\ [Next]_vars =>
        [/\ state = "Stopped" => /\ pending' = "none"
                                 /\ state' \in {"Stopped", "Closed", "Negotiated"}
                                 /\ state' = "Negotiated" => ~connection'
         /\ {state, state'} \subseteq InTransaction =>
              message'.envelopeBytes >= message.envelopeBytes]_vars
  BY StoppedStays, ChargeStays
<1> QED
  BY <1>1, SessionInvariant, PTL DEF Spec, RefusalIsFinal

\* Only complete returns edits, and only for an end of message that is accepted.
LEMMA EditsOnlyFromComplete ==
  ASSUME IInv, Next, frames'.edits # <<>>, frames' # frames
  PROVE  /\ pending = "EndMessage" /\ frames'.reply.cmd \in {"c", "a"}
         /\ \A k \in DOMAIN frames'.edits : Capability(frames'.edits[k]) \in options.actions
<1>1. ~ \E cmd \in Commands : Receive(cmd)
  <2> SUFFICES ASSUME NEW cmd \in Commands, Receive(cmd)
               PROVE  FALSE
    OBVIOUS
  <2>1. \E c : frames' = Answer(c) \/ frames' = Silence
    BY DEF Receive, Negotiate, Macro, Connect, Helo, Mail, Recipient, Data, Header, EndHeaders,
       Body, EndMessage, Abort, QuitNewConnection, Quit, Unknown, Refuse, Conclude
  <2> QED
    BY <2>1 DEF Answer, Silence
<1>2. PICK d \in Decisions : Complete(d)
  BY <1>1 DEF Next
<1>3. /\ frames'.edits = IF d.verdict \in Rejecting \cup {"Discard"} THEN <<>> ELSE d.mods
      /\ frames'.reply = FinalFrame(d) /\ DecisionValid(d)
  BY <1>2 DEF Complete, DecisionFrames
<1>4. d.verdict \in {"Continue", "Accept"} /\ frames'.edits = d.mods
  BY <1>3, PolicyAssumption DEF Verdicts, Rejecting
<1>5. FinalFrame(d).cmd \in {"c", "a"}
  BY <1>4 DEF FinalFrame, EmptyFrame
<1>6. \A k \in DOMAIN d.mods : EditValid(d.mods, k)
  BY <1>3 DEF DecisionValid
<1>7. \A k \in DOMAIN d.mods : Capability(d.mods[k]) \in options.actions
  BY <1>6 DEF EditValid
<1>8. pending = "EndMessage"
  BY <1>3, <1>4 DEF DecisionValid
<1> QED
  BY <1>3, <1>4, <1>5, <1>7, <1>8

\* Edits reach the wire only in answer to an accepted end of message and only with a
\* capability that was negotiated, for every policy.
THEOREM EditsAreNegotiated == Spec => EditsOnlyAtAcceptedEom
<1>1. IInv /\ [Next]_vars =>
        [frames'.edits # <<>> /\ frames' # frames =>
           /\ pending = "EndMessage"
           /\ frames'.reply.cmd \in {"c", "a"}
           /\ \A k \in DOMAIN frames'.edits : Capability(frames'.edits[k]) \in options.actions]_vars
  BY EditsOnlyFromComplete
<1> QED
  BY <1>1, SessionInvariant, PTL DEF Spec, EditsOnlyAtAcceptedEom

\* A batch of another stage leaves the connection's batches as they are (activate_macros).
LEMMA ConnectionBatchesKept ==
  ASSUME NEW f, NEW g, NEW op, op \notin ConnectionMacros
  PROVE  Retain(Activated(f, g, op), ConnectionMacros) = Retain(f, ConnectionMacros)
<1>1. CASE op \in DOMAIN g
  <2>1. Activated(f, g, op) = Put(f, op, g[op])
    BY <1>1 DEF Activated
  <2>2. /\ DOMAIN Put(f, op, g[op]) = DOMAIN f \cup {op}
        /\ \A x \in DOMAIN f : x # op => Put(f, op, g[op])[x] = f[x]
    BY DEF Put
  <2>3. DOMAIN Put(f, op, g[op]) \cap ConnectionMacros = DOMAIN f \cap ConnectionMacros
    BY <2>2
  <2> QED
    BY <2>1, <2>2, <2>3 DEF Retain
<1>2. CASE op \notin DOMAIN g
  <2>1. Activated(f, g, op) = Remove(f, op)
    BY <1>2 DEF Activated
  <2>2. /\ DOMAIN Remove(f, op) = DOMAIN f \ {op}
        /\ \A x \in DOMAIN f \ {op} : Remove(f, op)[x] = f[x]
    BY DEF Remove, Retain
  <2>3. DOMAIN Remove(f, op) \cap ConnectionMacros = DOMAIN f \cap ConnectionMacros
    BY <2>2
  <2> QED
    BY <2>1, <2>2, <2>3 DEF Retain
<1> QED
  BY <1>1, <1>2

\* So does a reset (reset_message), of which nothing else remains.
LEMMA ConnectionBatchesRemain ==
  ASSUME NEW f
  PROVE  /\ Retain(Retain(f, ConnectionMacros), ConnectionMacros) = Retain(f, ConnectionMacros)
         /\ DOMAIN Retain(f, ConnectionMacros) \subseteq ConnectionMacros
<1>1. /\ DOMAIN Retain(f, ConnectionMacros) = DOMAIN f \cap ConnectionMacros
      /\ \A x \in DOMAIN f \cap ConnectionMacros : Retain(f, ConnectionMacros)[x] = f[x]
  BY DEF Retain
<1>2. DOMAIN Retain(f, ConnectionMacros) \cap ConnectionMacros = DOMAIN f \cap ConnectionMacros
  BY <1>1
<1> QED
  BY <1>1, <1>2 DEF Retain

\* What a step does to a transaction it finds: it stays in it, or resets the session, or
\* starts a new connection.
LEMMA TransactionSteps ==
  ASSUME IInv, Next, state \in InTransaction
  PROVE  \/ ResetMessage /\ state' \in {"Ready", "Stopped", "Closed"} /\ UNCHANGED <<connection, helo>>
         \/ \E cmd \in Commands : QuitNewConnection(cmd)
         \/ /\ state' \in InTransaction /\ UNCHANGED <<connection, helo>>
            /\ \/ macros' = macros
               \/ \E op \in {"R", "T", "L", "N", "B", "E", "U"} : ActivateMacros(op)
<1>1. connection /\ state # "Stopped"
  BY DEF IInv, TransactionShape, InTransaction
<1>2. ASSUME NEW cmd \in Commands, Receive(cmd), ~QuitNewConnection(cmd)
      PROVE  \/ /\ ResetMessage /\ state' \in {"Ready", "Stopped", "Closed"}
                /\ UNCHANGED <<connection, helo>>
             \/ /\ state' \in InTransaction /\ UNCHANGED <<connection, helo>>
                /\ \/ macros' = macros
                   \/ \E op \in {"R", "T", "L", "N", "B", "E", "U"} : ActivateMacros(op)
  <2>1. \A op \in {"O", "C", "H", "M"} : ~Takes(cmd, op)
    BY TakenIn DEF RequiredStates, InTransaction
  <2>2. ~(Negotiate(cmd) \/ Connect(cmd) \/ Helo(cmd) \/ Mail(cmd))
    BY <2>1 DEF Negotiate, Connect, Helo, Mail
  <2>3. CASE Abort(cmd) \/ Quit(cmd)
    BY <1>1, <2>3 DEF Abort, Quit
  <2>4. CASE Macro(cmd) \/ Refuse(cmd)
    BY <2>4 DEF Macro, Refuse
  <2>5. CASE Recipient(cmd) \/ Data(cmd) \/ Header(cmd) \/ EndHeaders(cmd) \/ Body(cmd)
             \/ EndMessage(cmd) \/ Unknown(cmd)
    BY <2>5 DEF Recipient, Data, Header, EndHeaders, Body, EndMessage, Unknown, InTransaction
  <2> QED
    BY <1>2, <2>2, <2>3, <2>4, <2>5 DEF Receive
<1>3. ASSUME NEW d \in Decisions, Complete(d)
      PROVE  \/ /\ ResetMessage /\ state' \in {"Ready", "Stopped", "Closed"}
                /\ UNCHANGED <<connection, helo>>
             \/ /\ state' \in InTransaction /\ UNCHANGED <<connection, helo>> /\ macros' = macros
  <2>1. pending \notin {"Connect", "Helo"} /\ UNCHANGED <<connection, helo>>
    BY <1>3 DEF IInv, CallbackHasContext, InTransaction, Complete
  <2> QED
    BY <1>3, <2>1 DEF Complete, ApplyVerdict, RefuseRecipient, InTransaction
<1> QED
  BY <1>2, <1>3 DEF Next

\* MAIL is the only way into a transaction from Ready, with its own batch only.
LEMMA MailStartsClean ==
  ASSUME IInv, Next, state = "Ready", state' = "Mail"
  PROVE  /\ DOMAIN macros' \subseteq ConnectionMacros \cup {"M"}
         /\ DOMAIN pendingMacros' \subseteq ConnectionMacros
<1>1. ~ \E d \in Decisions : Complete(d)
  <2>1. \A d \in Decisions : Complete(d) => state' # "Mail"
    BY DEF IInv, CallbackHasContext, Complete, ApplyVerdict
  <2> QED
    BY <2>1
<1>2. PICK cmd \in Commands : Receive(cmd)
  BY <1>1 DEF Next
<1>3. Mail(cmd)
  BY <1>2 DEF Receive, Negotiate, Macro, Connect, Helo, Recipient, Data, Header, EndHeaders,
     Body, EndMessage, Abort, QuitNewConnection, Quit, Unknown, Refuse
<1>4. /\ macros' = Activated(Retain(macros, ConnectionMacros),
                             Retain(pendingMacros, ConnectionMacros \cup {"M"}), "M")
      /\ pendingMacros' = Retain(pendingMacros, ConnectionMacros)
  BY <1>3 DEF Mail
<1>5. /\ IsBatches(Retain(macros, ConnectionMacros))
      /\ IsBatches(Retain(pendingMacros, ConnectionMacros \cup {"M"}))
  BY RetainBatches DEF IInv, TypeOK
<1>6. DOMAIN macros' \subseteq DOMAIN Retain(macros, ConnectionMacros) \cup {"M"}
  BY <1>4, <1>5, ActivateBatches DEF MacroStages
<1> QED
  BY <1>4, <1>6, ConnectionBatchesRemain

\* Only QUIT_NC loses the connection's metadata.
LEMMA ConnectionKept ==
  ASSUME IInv, Next, state' # "Negotiated"
  PROVE  (connection => connection') /\ (helo => helo')
<1>1. ASSUME NEW cmd \in Commands, Receive(cmd)
      PROVE  (connection => connection') /\ (helo => helo')
  BY <1>1 DEF Receive, Negotiate, Macro, Connect, Helo, Mail, Recipient, Data, Header, EndHeaders,
     Body, EndMessage, Abort, QuitNewConnection, Quit, Unknown, Refuse
<1>2. ASSUME NEW d \in Decisions, Complete(d)
      PROVE  (connection => connection') /\ (helo => helo')
  BY <1>2 DEF Complete
<1> QED
  BY <1>1, <1>2 DEF Next

\* The end and the beginning of a transaction leave nothing of the one before behind, and
\* keep what belongs to the connection.
LEMMA TransactionEnds ==
  ASSUME IInv, Next
  PROVE  /\ state \in InTransaction /\ state' \notin InTransaction =>
              /\ message' = EmptyMessage
              /\ DOMAIN macros' \cup DOMAIN pendingMacros' \subseteq ConnectionMacros
         /\ state \in InTransaction /\ state' # "Negotiated" =>
              Retain(macros, ConnectionMacros) = Retain(macros', ConnectionMacros)
<1> SUFFICES ASSUME state \in InTransaction
             PROVE  /\ state' \notin InTransaction =>
                         /\ message' = EmptyMessage
                         /\ DOMAIN macros' \cup DOMAIN pendingMacros' \subseteq ConnectionMacros
                    /\ state' # "Negotiated" =>
                         Retain(macros, ConnectionMacros) = Retain(macros', ConnectionMacros)
  OBVIOUS
<1>1. CASE ResetMessage
  BY <1>1, ConnectionBatchesRemain DEF ResetMessage
<1>2. CASE \E cmd \in Commands : QuitNewConnection(cmd)
  BY <1>2 DEF QuitNewConnection, NoBatches
<1>3. CASE state' \in InTransaction /\ macros' = macros
  BY <1>3
<1>4. CASE /\ state' \in InTransaction
           /\ \E op \in {"R", "T", "L", "N", "B", "E", "U"} : ActivateMacros(op)
  <2>1. PICK op \in {"R", "T", "L", "N", "B", "E", "U"} : ActivateMacros(op)
    BY <1>4
  <2>2. op \notin ConnectionMacros /\ macros' = Activated(macros, pendingMacros, op)
    BY <2>1 DEF ConnectionMacros, ActivateMacros
  <2>3. Retain(macros, ConnectionMacros) = Retain(macros', ConnectionMacros)
    BY <2>2, ConnectionBatchesKept
  <2> QED
    BY <1>4, <2>3
<1> QED
  BY <1>1, <1>2, <1>3, <1>4, TransactionSteps

\* Transactions are reset without losing the connection's metadata, for every order of
\* commands and decisions.
THEOREM TransactionsEndClean == Spec => TransactionEndResets
<1>1. IInv /\ [Next]_vars =>
        [/\ state \in InTransaction /\ state' \notin InTransaction =>
              /\ message' = EmptyMessage
              /\ DOMAIN macros' \cup DOMAIN pendingMacros' \subseteq ConnectionMacros
         /\ state = "Ready" /\ state' = "Mail" =>
              /\ DOMAIN macros' \subseteq ConnectionMacros \cup {"M"}
              /\ DOMAIN pendingMacros' \subseteq ConnectionMacros
         /\ state' # "Negotiated" =>
              /\ connection => connection'
              /\ helo => helo'
              /\ state \in InTransaction =>
                   Retain(macros, ConnectionMacros) = Retain(macros', ConnectionMacros)]_vars
  BY TransactionEnds, MailStartsClean, ConnectionKept
<1> QED
  BY <1>1, SessionInvariant, PTL DEF Spec, TransactionEndResets
=============================================================================
