----------------------- MODULE MilterConnectionProofs -----------------------
(***************************************************************************)
(* Proofs about MilterConnection, for all limits, subscriptions, policies, *)
(* offers and any number of commands under way.  ConnIInv says how the     *)
(* session, the driver and the MTA correspond; it has one disjunct for     *)
(* each way in which the conversation can stand.                           *)
(***************************************************************************)
EXTENDS MilterConnection, MilterSessionProofs

Account == [sender |-> message.sender, recipients |-> message.recipients,
            headers |-> message.headers, body |-> message.body]

\* The session is where an MTA in this phase with this account of the message expects it.
InStep(phase, account) ==
  \/ state = "Closed"
  \/ /\ account = Account
     /\ \/ phase = "start" /\ state = "Initial"
        \/ phase = "negotiated" /\ state = "Negotiated"
        \/ phase = "ready" /\ state = "Ready"
        \/ phase = "mail" /\ state \in {"Mail", "Recipients"}
        \/ phase = "data" /\ state \in {"Data", "Headers"}
        \/ phase = "body" /\ state = "Body"
        \/ phase = "refused" /\ state \in {"Ready", "Stopped"}

\* Commands under way that the MTA sent ahead; the one it waits for is sent last.
Ahead == IF mtaAwaits = Nothing THEN Len(inbox) ELSE Len(inbox) - 1

\* The MTA's view before and after each of those commands: it starts where the session
\* is and ends where the MTA is.
Path(p, a) ==
  /\ InStep(p[0], a[0])
  /\ p[Ahead] = mtaPhase /\ a[Ahead] = mtaMessage
  /\ \A i \in 1 .. Ahead : /\ MaySend(p[i - 1], a[i - 1], inbox[i].op)
                           /\ ~MtaAwaits(inbox[i].op)
                           /\ p[i] = PhaseAfter(p[i - 1], inbox[i])
                           /\ a[i] = AccountAfter(a[i - 1], inbox[i])

\* Nothing is on its way to the MTA; what it waits for, if anything, is on its way to us.
Quiet ==
  /\ pending = "none" /\ error = "none" /\ ~torn /\ wire = <<>> /\ out = <<>>
  /\ mtaAwaits # Nothing =>
       /\ inbox # <<>> /\ inbox[Len(inbox)] = mtaAwaits
       /\ MaySend(mtaPhase, mtaMessage, mtaAwaits.op) /\ MtaAwaits(mtaAwaits.op)
  /\ \A i \in 1 .. Len(inbox) : inbox[i].op = "Q" => i = Len(inbox) /\ mtaGone
  /\ state = "Closed" => inbox = <<>> /\ mtaGone
  /\ \E p, a : Path(p, a)

\* The policy is asked about the command the MTA waits for; only keepalives are sent.
Asked ==
  /\ pending # "none" /\ error = "none" /\ inbox = <<>> /\ out = <<>>
  /\ mtaAwaits \in Commands
  /\ IF pending = "EndMessage"
     THEN mtaAwaits.op = "E" /\ InStep(mtaPhase, mtaMessage)
     ELSE /\ mtaAwaits.op = StageOp[pending]
          /\ MaySend(mtaPhase, mtaMessage, mtaAwaits.op)
          /\ InStep(PhaseAfter(mtaPhase, mtaAwaits), AccountAfter(mtaMessage, mtaAwaits))
  /\ \A i \in 1 .. Len(wire) : wire[i] = "p" \/ (torn /\ wire[i] = "garbage")

Notices == {"p", "edit"}
EndsWith(s, code) == /\ s # <<>> /\ s[Len(s)] = code
                     /\ \A i \in 1 .. Len(s) - 1 : s[i] \in Notices

\* What the MTA makes of a final reply (MtaReceives).
PhaseOn(code) ==
  IF code \in {"O", "c"} THEN PhaseAfter(mtaPhase, mtaAwaits)
  ELSE IF code = "4" \/ mtaAwaits.op \in {"C", "H"} THEN "refused"
  ELSE IF mtaAwaits.op = "R" /\ code \in {"r", "t", "y"} THEN mtaPhase
  ELSE "ready"
AccountOn(code) ==
  IF code \in {"O", "c"} THEN AccountAfter(mtaMessage, mtaAwaits)
  ELSE IF code = "4" \/ mtaAwaits.op \in {"C", "H"} THEN EmptyAccount
  ELSE IF mtaAwaits.op = "R" /\ code \in {"r", "t", "y"} THEN mtaMessage
  ELSE EmptyAccount

\* The one final reply is on its way, after any keepalives and edits.
Answered ==
  /\ pending = "none" /\ error = "none" /\ ~torn /\ inbox = <<>> /\ mtaAwaits \in Commands
  /\ state # "Closed"
  /\ \E code \in FinalCodes :
       /\ InStep(PhaseOn(code), AccountOn(code))
       /\ \/ EndsWith(out, code) /\ \A i \in 1 .. Len(wire) : wire[i] \in Notices
          \/ out = <<>> /\ EndsWith(wire, code)

\* A write broke off: the MTA waits for ever, and no final reply reaches it.
Broken ==
  /\ pending = "none" /\ error = "none" /\ torn /\ inbox = <<>> /\ mtaAwaits \in Commands
  /\ \A i \in 1 .. Len(wire) : wire[i] \in Notices \cup {"garbage"}

\* receive returned an error, and nothing is sent any more.
Failed ==
  /\ pending = "none" /\ error # "none" /\ pc = "done" /\ wire = <<>> /\ out = <<>>

\* Where the driver is, and what that says about the step.
Place ==
  /\ pc = "evaluate" => pending # "none"
  /\ pending # "none" => pc \in {"evaluate", "done"}
  /\ pc \in {"read", "partial", "evaluate"} => out = <<>>
  /\ pc = "partial" => inbox # <<>>
  /\ error # "none" => pc = "done"
  /\ ended = "stopped" => pending = "none" /\ out = <<>>

AccountType == [sender : Envelopes \cup {NoSender}, recipients : Seq(Envelopes),
                headers : Seq(HeaderFields), body : Nat]

\* A conforming MTA speaks at least the milter's version of the protocol.
CurrentVersion == \A o \in Offers : o.version >= MilterVersion

\* What passes an end of message that the policy subscribed to was decided by it, also
\* while it is still to be written.
Passing == {"c", "a", "edit"}
PassedByPolicy ==
  /\ ~FailOpen /\ "EndMessage" \in stages /\ mtaAwaits.op = "E"
  /\ \/ \E i \in 1 .. Len(wire) : wire[i] \in Passing
     \/ \E i \in 1 .. Len(out) : out[i] \in Passing
  => decidedBy = "policy"

Standing == Quiet \/ Asked \/ Answered \/ Broken \/ Failed

ConnIInv ==
  /\ IInv
  /\ ConnTypeOK
  /\ mtaMessage \in AccountType
  /\ Place
  /\ Standing
  /\ PassedByPolicy
  /\ CurrentVersion => ConformingNeverRefused

-----------------------------------------------------------------------------
(* The session's side. *)

\* The end of receive keeps silent, answers or asks as the MTA expects.
LEMMA ConcludeAnswers ==
  ASSUME NEW op, NEW stage, HonestNegotiation, stages \subseteq Stages,
         Conclude(op, stage), op # "O",
         \/ stage = "none" /\ op # "E"
         \/ stage = "EndMessage" /\ op = "E"
         \/ stage \in DOMAIN StageOp /\ op = StageOp[stage]
  PROVE  /\ pending' \in {"none", stage} /\ (stage = "EndMessage" => pending' = stage)
         /\ ~MtaAwaits(op) => pending' = "none" /\ frames' = Silence
         /\ MtaAwaits(op) /\ pending' = "none" => frames' = Answer("c")
<1> DEFINE event == IF stage = "EndMessage" \/ stage \in stages THEN stage ELSE "none"
           reply == event = "none" /\ op \in RepliedOps /\ op \notin options.protocol
<1>1. pending' = event /\ frames' = IF reply THEN Answer("c") ELSE Silence
  BY DEF Conclude
<1>2. CASE event = "none"
  <2>1. MtaAwaits(op) <=> reply
    BY <1>2 DEF MtaAwaits, StageOp, Stages
  <2>2. stage # "EndMessage"
    BY <1>2
  <2> QED
    BY <1>1, <1>2, <2>1, <2>2
<1>3. CASE event # "none"
  <2>1. MtaAwaits(op)
    BY <1>3 DEF MtaAwaits, StageOp, RepliedOps, HonestNegotiation, Stages
  <2>2. event = stage
    BY <1>3
  <2> QED
    BY <1>1, <1>3, <2>1, <2>2
<1> QED
  BY <1>2, <1>3

\* A command in the MTA's order is one the session requires.
LEMMA ExpectedIsRequired ==
  ASSUME TransactionShape, NEW ph, NEW ac, InStep(ph, ac), state # "Closed",
         NEW op, MaySend(ph, ac, op)
  PROVE  state \in RequiredStates(op) /\ (state = "Initial" => op = "O")
<1>1. ac.recipients = message.recipients
  BY DEF InStep, Account
<1>2. CASE op = "O" \/ op = "C"
  BY <1>2 DEF MaySend, RequiredStates, InStep
<1>3. CASE op \in {"H", "M"}
  BY <1>3 DEF MaySend, RequiredStates, InStep
<1>4. CASE op = "R"
  BY <1>4 DEF MaySend, RequiredStates, InStep
<1>5. CASE op = "T"
  BY <1>1, <1>5 DEF MaySend, RequiredStates, InStep, TransactionShape
<1>6. CASE op \in {"L", "N"}
  BY <1>6 DEF MaySend, RequiredStates, InStep
<1>7. CASE op \in {"B", "E"}
  BY <1>7 DEF MaySend, RequiredStates, InStep
<1>8. CASE op \in {"U", "A", "K", "Q"}
  BY <1>8 DEF MaySend, RequiredStates, InStep, States
<1> QED
  BY <1>2, <1>3, <1>4, <1>5, <1>6, <1>7, <1>8 DEF MaySend

\* How the session stands after a command it was expected to take.
Taken(ph, ac, cmd) ==
  /\ error' = "none" /\ stages' = stages
  /\ state' = "Closed" => cmd.op = "Q"
  /\ cmd.op # "E" => InStep(PhaseAfter(ph, cmd), AccountAfter(ac, cmd))'
  /\ IF MtaAwaits(cmd.op)
     THEN \/ pending' = "none" /\ cmd.op # "E" /\ (frames' = Answer("c") \/ frames' = Answer("O"))
          \/ pending' = "EndMessage" /\ cmd.op = "E" /\ InStep(ph, ac)'
          \/ pending' \in DOMAIN StageOp /\ cmd.op = StageOp[pending']
     ELSE pending' = "none" /\ frames' = Silence /\ options' = options

\* receive refuses a command in the MTA's order only for a limit, or a version that is
\* too old.
LEMMA RefusedForLimit ==
  ASSUME IInv, NEW ph, NEW ac, InStep(ph, ac), state # "Closed", pending = "none",
         NEW cmd \in Commands, MaySend(ph, ac, cmd.op), Refuse(cmd), CurrentVersion
  PROVE  error' = "limit"
<1>1. state \in RequiredStates(cmd.op) /\ (state = "Initial" => cmd.op = "O")
  BY ExpectedIsRequired DEF IInv
<1>2. cmd.op # "malformed"
  BY DEF MaySend
<1>3. state # "Initial"
  <2>1. state = "Initial" => WithinLimits(cmd)
    BY <1>1, CommandArguments DEF WithinLimits, CurrentVersion
  <2> QED
    BY <1>1, <2>1 DEF Refuse, Accepted
<1> QED
  BY <1>1, <1>2, <1>3 DEF Refuse

\* The session follows the MTA: an expected command takes both of them the same way.
LEMMA Follows ==
  ASSUME IInv, NEW ph, NEW ac, InStep(ph, ac), state # "Closed", error = "none",
         NEW cmd \in Commands, MaySend(ph, ac, cmd.op), Receive(cmd), ~Refuse(cmd)
  PROVE  Taken(ph, ac, cmd)
<1>0. /\ HonestNegotiation /\ stages \subseteq Stages /\ TransactionShape
      /\ message \in MessageType /\ ac = Account
      /\ EmptyAccount = [sender |-> EmptyMessage.sender, recipients |-> EmptyMessage.recipients,
                         headers |-> EmptyMessage.headers, body |-> EmptyMessage.body]
  BY DEF IInv, TypeOK, MessageType, InStep, EmptyAccount, EmptyMessage
<1>1. CASE Negotiate(cmd)
  <2>1. cmd.op = "O" /\ state' = "Negotiated" /\ frames' = Answer("O") /\ pending = "none"
        /\ UNCHANGED <<stages, message, pending, error>>
    BY <1>1 DEF Negotiate, Takes, Accepted
  <2>2. InStep(PhaseAfter(ph, cmd), AccountAfter(ac, cmd))'
    BY <1>0, <2>1 DEF InStep, Account, PhaseAfter, AccountAfter
  <2>3. MtaAwaits(cmd.op)
    BY <2>1 DEF MtaAwaits
  <2> QED
    BY <2>1, <2>2, <2>3 DEF Taken
<1>2. CASE Connect(cmd)
  <2>1. cmd.op = "C" /\ state' = "Ready" /\ Conclude("C", "Connect")
        /\ UNCHANGED <<stages, options, message, error>>
    BY <1>2 DEF Connect, Takes, context
  <2>2. InStep(PhaseAfter(ph, cmd), AccountAfter(ac, cmd))'
    BY <1>0, <2>1 DEF InStep, Account, PhaseAfter, AccountAfter
  <2> QED
    BY <1>0, <2>1, <2>2, ConcludeAnswers DEF Taken, StageOp
<1>3. CASE Helo(cmd)
  <2>1. cmd.op = "H" /\ Conclude("H", "Helo") /\ UNCHANGED <<stages, options, message, state, error>>
    BY <1>3 DEF Helo, Takes, context
  <2>2. InStep(PhaseAfter(ph, cmd), AccountAfter(ac, cmd))'
    BY <1>0, <2>1 DEF InStep, Account, PhaseAfter, AccountAfter
  <2> QED
    BY <1>0, <2>1, <2>2, ConcludeAnswers DEF Taken, StageOp
<1>4. CASE Mail(cmd)
  <2>1. /\ cmd.op = "M" /\ Conclude("M", "Mail") /\ UNCHANGED <<stages, options, error>>
        /\ state' = "Mail"
        /\ message' = [EmptyMessage EXCEPT !.sender = cmd.arg, !.envelopeBytes = cmd.arg.bytes]
    BY <1>4 DEF Mail, Takes, context
  <2>2. Account' = [EmptyAccount EXCEPT !.sender = cmd.arg]
    BY <2>1 DEF Account, EmptyMessage, EmptyAccount
  <2>3. PhaseAfter(ph, cmd) = "mail" /\ AccountAfter(ac, cmd) = [EmptyAccount EXCEPT !.sender = cmd.arg]
    BY <2>1 DEF PhaseAfter, AccountAfter
  <2>4. InStep(PhaseAfter(ph, cmd), AccountAfter(ac, cmd))'
    BY <2>1, <2>2, <2>3 DEF InStep
  <2> QED
    BY <1>0, <2>1, <2>4, ConcludeAnswers DEF Taken, StageOp
<1>5. CASE Recipient(cmd)
  <2>1. /\ cmd.op = "R" /\ Conclude("R", "Recipient") /\ UNCHANGED <<stages, options, error>>
        /\ state' = "Recipients" /\ ph = "mail"
        /\ message' = [message EXCEPT !.recipients = Append(@, cmd.arg),
                                      !.envelopeBytes = @ + cmd.arg.bytes]
    BY <1>5 DEF Recipient, Takes, context, MaySend
  <2> DEFINE more == Append(message.recipients, cmd.arg)
  <2>2. Account' = [ac EXCEPT !.recipients = more]
    <3>1. /\ message'.recipients = more /\ message'.sender = message.sender
          /\ message'.headers = message.headers /\ message'.body = message.body
      BY <1>0, <2>1 DEF MessageType
    <3> HIDE DEF more
    <3> QED
      BY <1>0, <3>1 DEF Account
  <2>4. AccountAfter(ac, cmd) = [ac EXCEPT !.recipients = more]
    BY <1>0, <2>1 DEF AccountAfter, Account
  <2>3. InStep(PhaseAfter(ph, cmd), AccountAfter(ac, cmd))'
    BY <2>1, <2>2, <2>4 DEF InStep, PhaseAfter
  <2> QED
    BY <1>0, <2>1, <2>3, ConcludeAnswers DEF Taken, StageOp
<1>6. CASE Data(cmd)
  <2>1. cmd.op = "T" /\ Conclude("T", "none") /\ state' = "Data"
        /\ UNCHANGED <<stages, options, message, error>>
    BY <1>6 DEF Data, Takes, context
  <2>2. InStep(PhaseAfter(ph, cmd), AccountAfter(ac, cmd))'
    BY <1>0, <2>1 DEF InStep, Account, PhaseAfter, AccountAfter
  <2> QED
    BY <1>0, <2>1, <2>2, ConcludeAnswers DEF Taken
<1>7. CASE Header(cmd)
  <2>1. /\ cmd.op = "L" /\ Conclude("L", "none") /\ UNCHANGED <<stages, options, error>>
        /\ state' = "Headers" /\ ph = "data"
        /\ message' = [message EXCEPT !.headers = Append(@, cmd.arg),
                                      !.bytes = @ + cmd.arg.bytes + 4]
    BY <1>7 DEF Header, Takes, context, MaySend
  <2> DEFINE more == Append(message.headers, cmd.arg)
  <2>2. Account' = [ac EXCEPT !.headers = more]
    <3>1. /\ message'.headers = more /\ message'.sender = message.sender
          /\ message'.recipients = message.recipients /\ message'.body = message.body
      BY <1>0, <2>1 DEF MessageType
    <3> HIDE DEF more
    <3> QED
      BY <1>0, <3>1 DEF Account
  <2>4. AccountAfter(ac, cmd) = [ac EXCEPT !.headers = more]
    BY <1>0, <2>1 DEF AccountAfter, Account
  <2>3. InStep(PhaseAfter(ph, cmd), AccountAfter(ac, cmd))'
    BY <2>1, <2>2, <2>4 DEF InStep, PhaseAfter
  <2> QED
    BY <1>0, <2>1, <2>3, ConcludeAnswers DEF Taken
<1>8. CASE EndHeaders(cmd)
  <2>1. /\ cmd.op = "N" /\ Conclude("N", "none") /\ UNCHANGED <<stages, options, error>>
        /\ state' = "Body" /\ message' = [message EXCEPT !.bytes = @ + 2]
    BY <1>8 DEF EndHeaders, Takes, context
  <2>2. Account' = ac
    BY <1>0, <2>1 DEF Account, MessageType
  <2>3. InStep(PhaseAfter(ph, cmd), AccountAfter(ac, cmd))'
    BY <2>1, <2>2 DEF InStep, PhaseAfter, AccountAfter
  <2> QED
    BY <1>0, <2>1, <2>3, ConcludeAnswers DEF Taken
<1>9. CASE Body(cmd)
  <2>1. /\ cmd.op = "B" /\ Conclude("B", "none") /\ UNCHANGED <<stages, options, error, state>>
        /\ ph = "body" /\ state = "Body"
        /\ message' = [message EXCEPT !.body = @ + cmd.arg.bytes, !.bytes = @ + cmd.arg.bytes]
    BY <1>9 DEF Body, Takes, context, MaySend, InStep
  <2>2. Account' = [ac EXCEPT !.body = @ + cmd.arg.bytes]
    BY <1>0, <2>1 DEF Account, MessageType
  <2>3. InStep(PhaseAfter(ph, cmd), AccountAfter(ac, cmd))'
    BY <2>1, <2>2 DEF InStep, PhaseAfter, AccountAfter
  <2> QED
    BY <1>0, <2>1, <2>3, ConcludeAnswers DEF Taken
<1>10. CASE EndMessage(cmd)
  <2>1. /\ cmd.op = "E" /\ Conclude("E", "EndMessage")
        /\ UNCHANGED <<stages, options, message, state, error>>
    BY <1>10 DEF EndMessage, Takes, context
  <2>2. InStep(ph, ac)'
    BY <2>1 DEF InStep, Account
  <2>3. pending' = "EndMessage" /\ MtaAwaits("E")
    BY <2>1 DEF Conclude, MtaAwaits
  <2> QED
    BY <2>1, <2>2, <2>3 DEF Taken
<1>11. CASE Abort(cmd)
  <2>1. /\ cmd.op = "A" /\ Conclude("A", "none") /\ UNCHANGED <<stages, options, error>>
        /\ message' = EmptyMessage
        /\ state' = IF connection /\ state # "Stopped" THEN "Ready" ELSE state
    BY <1>11 DEF Abort, Takes, context, ResetMessage
  <2>2. /\ Account' = EmptyAccount
        /\ ph = "refused" => state' \in {"Ready", "Stopped"}
        /\ ph # "refused" => state' = "Ready"
    BY <1>0, <2>1 DEF Account, MaySend, InStep, TransactionShape, InTransaction
  <2>3. InStep(PhaseAfter(ph, cmd), AccountAfter(ac, cmd))'
    BY <2>1, <2>2 DEF InStep, PhaseAfter, AccountAfter
  <2>4. state' # "Closed"
    BY <2>2
  <2> QED
    BY <1>0, <2>1, <2>3, <2>4, ConcludeAnswers DEF Taken
<1>12. CASE QuitNewConnection(cmd)
  <2>1. /\ cmd.op = "K" /\ Conclude("K", "none") /\ UNCHANGED <<stages, options, error>>
        /\ message' = EmptyMessage /\ state' = "Negotiated"
    BY <1>12 DEF QuitNewConnection, Takes, context
  <2>2. InStep(PhaseAfter(ph, cmd), AccountAfter(ac, cmd))'
    BY <1>0, <2>1 DEF InStep, Account, PhaseAfter, AccountAfter
  <2> QED
    BY <1>0, <2>1, <2>2, ConcludeAnswers DEF Taken
<1>13. CASE Quit(cmd)
  <2>1. /\ cmd.op = "Q" /\ Conclude("Q", "none") /\ UNCHANGED <<stages, options, error>>
        /\ state' = "Closed"
    BY <1>13 DEF Quit, Takes, context
  <2> QED
    BY <1>0, <2>1, ConcludeAnswers DEF Taken, InStep
<1>14. CASE Unknown(cmd)
  <2>1. cmd.op = "U" /\ Conclude("U", "none") /\ UNCHANGED <<stages, options, message, state, error>>
    BY <1>14 DEF Unknown, Takes, context
  <2>2. InStep(PhaseAfter(ph, cmd), AccountAfter(ac, cmd))'
    BY <2>1 DEF InStep, Account, PhaseAfter, AccountAfter
  <2> QED
    BY <1>0, <2>1, <2>2, ConcludeAnswers DEF Taken
<1>15. ~Macro(cmd)
  BY DEF Macro, Takes, MaySend
<1> QED
  BY <1>1, <1>2, <1>3, <1>4, <1>5, <1>6, <1>7, <1>8, <1>9, <1>10, <1>11, <1>12, <1>13, <1>14, <1>15
     DEF Receive

-----------------------------------------------------------------------------
(* Decisions. *)

\* A refused recipient is the one that was added last.
LEMMA DropLastAppended ==
  ASSUME NEW S, NEW s \in Seq(S), NEW e \in S
  PROVE  DropLast(Append(s, e)) = s
<1>1. /\ Append(s, e) \in Seq(S) /\ Len(Append(s, e)) = Len(s) + 1
      /\ \A i \in 1 .. Len(s) : Append(s, e)[i] = s[i]
  OBVIOUS
<1>2. SubSeq(Append(s, e), 1, Len(s)) = s
  BY <1>1
<1> QED
  BY <1>1, <1>2 DEF DropLast

\* Every verdict has one final reply.
LEMMA FinalReply ==
  ASSUME NEW d, IsDecision(d)
  PROVE  /\ FinalFrame(d).cmd \in FinalCodes \ {"O"}
         /\ FinalFrame(d) # NoReply
         /\ FinalFrame(d).cmd = "c" <=> d.verdict = "Continue"
         /\ FinalFrame(d).cmd = "4" <=> d.verdict = "Shutdown"
         /\ FinalFrame(d).cmd \in {"r", "t", "y"} <=> d.verdict \in {"Reject", "Tempfail", "Reply"}
<1>1. CASE d.verdict \in {"Continue", "Accept", "Reject"}
  BY <1>1 DEF FinalFrame, EmptyFrame, NoReply, FinalCodes
<1>2. CASE d.verdict \in {"Tempfail", "Discard", "Shutdown"}
  BY <1>2 DEF FinalFrame, EmptyFrame, NoReply, FinalCodes
<1>3. CASE d.verdict = "Reply"
  BY <1>3 DEF FinalFrame, EmptyFrame, NoReply, FinalCodes
<1> QED
  BY <1>1, <1>2, <1>3 DEF IsDecision, Verdicts

\* After a decision the session is where the reply takes the MTA.
LEMMA DecisionFollows ==
  ASSUME IInv, Asked, mtaMessage \in AccountType,
         NEW d, IsDecision(d), Complete(d),
         NEW ph, NEW ac, ph = PhaseOn(FinalFrame(d).cmd), ac = AccountOn(FinalFrame(d).cmd)
  PROVE  InStep(ph, ac)' /\ state' # "Closed"
<1> DEFINE code == FinalFrame(d).cmd
<1>0. /\ CallbackHasContext /\ TransactionShape /\ message \in MessageType
      /\ pending \in Stages /\ pending # "none"
      /\ EmptyAccount = [sender |-> EmptyMessage.sender, recipients |-> EmptyMessage.recipients,
                         headers |-> EmptyMessage.headers, body |-> EmptyMessage.body]
  BY DEF IInv, TypeOK, MessageType, Asked, EmptyAccount, EmptyMessage
<1>1. /\ code \in FinalCodes \ {"O"}
      /\ code = "c" <=> d.verdict = "Continue"
      /\ code = "4" <=> d.verdict = "Shutdown"
      /\ code \in {"r", "t", "y"} <=> d.verdict \in {"Reject", "Tempfail", "Reply"}
  BY FinalReply
<1>2. ApplyVerdict(d) /\ d.verdict \in Verdicts
  BY DEF Complete, IsDecision
<1>3. state # "Closed"
  BY <1>0 DEF CallbackHasContext
<1>4. /\ pending = "EndMessage" => mtaAwaits.op = "E"
      /\ pending = "Connect" => mtaAwaits.op = "C"
      /\ pending = "Helo" => mtaAwaits.op = "H"
      /\ pending = "Mail" => mtaAwaits.op = "M"
      /\ pending = "Recipient" => mtaAwaits.op = "R"
  BY DEF Asked, StageOp
<1> HIDE DEF code
<1>5. CASE d.verdict = "Shutdown"
  <2>1. state' = "Stopped" /\ message' = EmptyMessage
    BY <1>2, <1>5 DEF ApplyVerdict, ResetMessage
  <2>2. ph = "refused" /\ ac = EmptyAccount
    BY <1>1, <1>5 DEF PhaseOn, AccountOn, code
  <2> QED
    BY <1>0, <2>1, <2>2 DEF InStep, Account
<1>6. CASE d.verdict \in {"Reject", "Tempfail", "Reply"} /\ pending = "Recipient"
  <2>1. /\ message' = [message EXCEPT !.recipients = DropLast(@)]
        /\ state' \in {"Mail", "Recipients"}
    BY <1>2, <1>6 DEF ApplyVerdict, Rejecting, RefuseRecipient
  <2>2. ph = mtaPhase /\ ac = mtaMessage
    BY <1>1, <1>4, <1>6 DEF PhaseOn, AccountOn, code
  <2>3. mtaPhase = "mail" /\ AccountAfter(mtaMessage, mtaAwaits) = Account
    BY <1>3, <1>4, <1>6 DEF Asked, MaySend, InStep
  <2>4. AccountAfter(mtaMessage, mtaAwaits)
          = [mtaMessage EXCEPT !.recipients = Append(@, mtaAwaits.arg)]
    BY <1>4, <1>6 DEF AccountAfter
  <2>5. mtaAwaits.arg \in Envelopes
    BY <1>4, <1>6, CommandArguments DEF Asked
  <2>6. /\ mtaMessage.sender = message.sender /\ mtaMessage.headers = message.headers
        /\ mtaMessage.body = message.body
        /\ Append(mtaMessage.recipients, mtaAwaits.arg) = message.recipients
    BY <2>3, <2>4 DEF Account, AccountType
  <2>7. DropLast(message.recipients) = mtaMessage.recipients
    <3>1. mtaMessage.recipients \in Seq(Envelopes)
      BY DEF AccountType
    <3>2. DropLast(Append(mtaMessage.recipients, mtaAwaits.arg)) = mtaMessage.recipients
      BY <2>5, <3>1, DropLastAppended, Zenon
    <3> QED
      BY <2>6, <3>2
  <2>8. /\ message'.recipients = mtaMessage.recipients /\ message'.sender = message.sender
        /\ message'.headers = message.headers /\ message'.body = message.body
    BY <1>0, <2>1, <2>7 DEF MessageType
  <2>9. mtaMessage = [sender |-> mtaMessage.sender, recipients |-> mtaMessage.recipients,
                      headers |-> mtaMessage.headers, body |-> mtaMessage.body]
    BY DEF AccountType
  <2>10. ac = Account'
    BY <2>2, <2>6, <2>8, <2>9 DEF Account
  <2> QED
    BY <2>1, <2>2, <2>3, <2>10 DEF InStep
<1>7. CASE d.verdict \in {"Reject", "Tempfail", "Reply"} /\ pending \in {"Connect", "Helo"}
  <2>1. state' = "Stopped" /\ message' = message
    BY <1>2, <1>7 DEF ApplyVerdict, Rejecting
  <2>2. message = EmptyMessage
    BY <1>0, <1>7 DEF CallbackHasContext, TransactionShape, InTransaction
  <2>3. ph = "refused" /\ ac = EmptyAccount
    BY <1>1, <1>4, <1>7 DEF PhaseOn, AccountOn, code
  <2> QED
    BY <1>0, <2>1, <2>2, <2>3 DEF InStep, Account
<1>8. CASE /\ d.verdict # "Shutdown"
           /\ ~(d.verdict \in Rejecting /\ pending \in {"Recipient", "Connect", "Helo"})
           /\ pending = "EndMessage" \/ d.verdict \in Rejecting \cup Finishing
  <2>1. state' = "Ready" /\ message' = EmptyMessage
    BY <1>2, <1>8 DEF ApplyVerdict, ResetMessage
  <2>2. ph \in {"ready", "refused"} /\ ac = EmptyAccount
    <3>1. CASE d.verdict = "Continue"
      <4>1. pending = "EndMessage"
        BY <1>8, <3>1 DEF Rejecting, Finishing
      <4> QED
        BY <1>1, <1>4, <3>1, <4>1 DEF PhaseOn, AccountOn, PhaseAfter, AccountAfter, code
    <3>2. CASE d.verdict # "Continue"
      <4>1. code \notin {"O", "c", "4"}
        BY <1>1, <1>8, <3>2
      <4>2. ~(mtaAwaits.op = "R" /\ code \in {"r", "t", "y"})
        BY <1>0, <1>1, <1>4, <1>8 DEF Rejecting, Stages
      <4> QED
        BY <4>1, <4>2 DEF PhaseOn, AccountOn, code
    <3> QED
      BY <3>1, <3>2
  <2> QED
    BY <1>0, <2>1, <2>2 DEF InStep, Account
<1>9. CASE d.verdict = "Continue" /\ pending # "EndMessage"
  <2>1. UNCHANGED <<state, message>>
    BY <1>2, <1>9 DEF ApplyVerdict, Rejecting, Finishing
  <2>2. ph = PhaseAfter(mtaPhase, mtaAwaits) /\ ac = AccountAfter(mtaMessage, mtaAwaits)
    BY <1>1, <1>9 DEF PhaseOn, AccountOn, code
  <2>3. InStep(ph, ac)
    BY <1>9, <2>2 DEF Asked
  <2> QED
    BY <1>3, <2>1, <2>3 DEF InStep, Account
<1> QED
  BY <1>2, <1>5, <1>6, <1>7, <1>8, <1>9 DEF Rejecting, Finishing, Verdicts

\* The frames of an answer end with its one reply.
LEMMA CodesEnd ==
  ASSUME NEW fs, fs.edits \in Seq(Modifications), fs.reply # NoReply, fs.reply.cmd \in FinalCodes
  PROVE  /\ Codes(fs) \in Seq(FinalCodes \cup {"edit"})
         /\ EndsWith(Codes(fs), fs.reply.cmd)
         /\ fs.edits = <<>> => Codes(fs) = <<fs.reply.cmd>>
<1> DEFINE n == Len(fs.edits)
           es == [i \in 1 .. n |-> "edit"]
           c == fs.reply.cmd
<1>1. n \in Nat /\ es \in Seq({"edit"}) /\ Len(es) = n /\ \A i \in 1 .. n : es[i] = "edit"
  OBVIOUS
<1>2. Codes(fs) = es \o <<c>>
  BY DEF Codes
<1> HIDE DEF es, n, c
<1>3. c \in FinalCodes
  BY DEF c
<1>4. /\ es \o <<c>> \in Seq(FinalCodes \cup {"edit"}) /\ Len(es \o <<c>>) = n + 1
      /\ (es \o <<c>>)[n + 1] = c /\ \A i \in 1 .. n : (es \o <<c>>)[i] = "edit"
  BY <1>1, <1>3
<1>5. EndsWith(es \o <<c>>, c)
  BY <1>1, <1>4 DEF EndsWith, Notices
<1>6. fs.edits = <<>> => es \o <<c>> = <<c>>
  BY <1>1, <1>4 DEF n
<1> QED
  BY <1>2, <1>4, <1>5, <1>6 DEF c

-----------------------------------------------------------------------------
(* The MTA's side. *)

Phases == {"start", "negotiated", "ready", "mail", "data", "body", "refused"}

\* The MTA's place and account keep their types as it goes on.
LEMMA AccountStep ==
  ASSUME NEW ph \in Phases, NEW ac \in AccountType, NEW cmd \in Commands
  PROVE  PhaseAfter(ph, cmd) \in Phases /\ AccountAfter(ac, cmd) \in AccountType
<1>1. PhaseAfter(ph, cmd) \in Phases
  BY DEF PhaseAfter, Phases
<1>2. EmptyAccount \in AccountType
  BY DEF EmptyAccount, AccountType
<1>3. AccountAfter(ac, cmd) \in AccountType
  <2>3. CASE cmd.op \in {"A", "K", "Q", "E"}
    BY <1>2, <2>3 DEF AccountAfter
  <2>4. CASE cmd.op = "M"
    <3>1. cmd.arg \in Envelopes
      BY <2>4, CommandArguments
    <3> QED
      BY <1>2, <2>4, <3>1 DEF AccountAfter, AccountType
  <2>5. CASE cmd.op = "R"
    <3>1. cmd.arg \in Envelopes
      BY <2>5, CommandArguments
    <3>2. Append(ac.recipients, cmd.arg) \in Seq(Envelopes)
      BY <3>1 DEF AccountType
    <3> QED
      BY <2>5, <3>2 DEF AccountAfter, AccountType
  <2>6. CASE cmd.op = "L"
    <3>1. cmd.arg \in HeaderFields
      BY <2>6, CommandArguments
    <3>2. Append(ac.headers, cmd.arg) \in Seq(HeaderFields)
      BY <3>1 DEF AccountType
    <3> QED
      BY <2>6, <3>2 DEF AccountAfter, AccountType
  <2>7. CASE cmd.op = "B"
    <3>1. cmd.arg.bytes \in Nat
      BY <2>7, CommandArguments
    <3>2. ac.body + cmd.arg.bytes \in Nat
      BY <3>1 DEF AccountType
    <3> QED
      BY <2>7, <3>2 DEF AccountAfter, AccountType
  <2>8. CASE cmd.op \notin {"A", "K", "Q", "E", "M", "R", "L", "B"}
    BY <2>8 DEF AccountAfter
  <2> QED
    BY <2>3, <2>4, <2>5, <2>6, <2>7, <2>8
<1> QED
  BY <1>1, <1>3

\* No command is the absence of one.
LEMMA NothingIsNone == Nothing \notin Commands
BY DEF Nothing, Commands

\* The session's invariant is not touched by steps that leave the session alone.
LEMMA SessionIdle ==
  ASSUME IInv, UNCHANGED vars
  PROVE  IInv'
BY NextIInv

\* Neither is the standing of the conversation, when the streams, the frames to write
\* and what the MTA waits for stay as they are.
LEMMA StandingIdle ==
  ASSUME Standing, PassedByPolicy, ConformingNeverRefused \/ ~CurrentVersion,
         UNCHANGED vars, UNCHANGED streams, UNCHANGED <<out, decidedBy>>,
         UNCHANGED <<mtaPhase, mtaAwaits, mtaMessage>>,
         mtaGone => mtaGone', error # "none" => pc' = "done"
  PROVE  Standing' /\ PassedByPolicy' /\ (CurrentVersion => ConformingNeverRefused')
<1>0. /\ UNCHANGED <<state, message, options, pending, error, stages>>
      /\ UNCHANGED <<inbox, wire, torn, out>>
  BY DEF vars, streams
<1>1. Standing'
  <2>1. CASE Quiet
    <3>1. PICK p, a : Path(p, a)
      BY <2>1 DEF Quiet
    <3>2. Path(p, a)'
      BY <1>0, <3>1 DEF Path, Ahead, InStep, Account, MtaAwaits
    <3>3. Quiet'
      BY <1>0, <2>1, <3>2 DEF Quiet, MtaAwaits
    <3> QED
      BY <3>3 DEF Standing
  <2>2. CASE Asked
    BY <1>0, <2>2 DEF Asked, Standing, InStep, Account
  <2>3. CASE Answered
    BY <1>0, <2>3 DEF Answered, Standing, InStep, Account, PhaseOn, AccountOn
  <2>4. CASE Broken
    BY <1>0, <2>4 DEF Broken, Standing
  <2>5. CASE Failed
    BY <1>0, <2>5 DEF Failed, Standing
  <2> QED
    BY <2>1, <2>2, <2>3, <2>4, <2>5 DEF Standing
<1>7. PassedByPolicy'
  BY <1>0 DEF PassedByPolicy
<1> QED
  BY <1>0, <1>1, <1>7 DEF ConformingNeverRefused

-----------------------------------------------------------------------------
(* The steps. *)

\* Whatever ends the connection, or moves the driver on, without reading or writing.
LEMMA DriverStep ==
  ASSUME ConnIInv, StopAtRead \/ FirstByte \/ EndOfStream \/ ReadFails \/ Written \/ Aborted
  PROVE  ConnIInv'
<1>1. /\ UNCHANGED vars /\ UNCHANGED streams /\ UNCHANGED <<out, decidedBy, progress, keepaliveFailed>>
      /\ UNCHANGED stop /\ UNCHANGED mta /\ pc # "done"
  BY DEF StopAtRead, FirstByte, EndOfStream, ReadFails, Written, Aborted
<1>2. UNCHANGED <<mtaPhase, mtaAwaits, mtaMessage, mtaGone>>
  BY <1>1 DEF mta
<1>3. UNCHANGED <<inbox, wire, torn>>
  BY <1>1 DEF streams
<1>4. UNCHANGED <<pending, error>>
  BY <1>1 DEF vars
<1>5. IInv'
  BY <1>1, SessionIdle DEF ConnIInv
<1>6. error = "none"
  BY <1>1 DEF ConnIInv, Place
<1>7. Standing' /\ PassedByPolicy' /\ (CurrentVersion => ConformingNeverRefused')
  BY <1>1, <1>2, <1>6, StandingIdle DEF ConnIInv
<1>8. ended = "running"
  BY <1>1 DEF ConnIInv, ConnTypeOK
<1>9. \/ /\ pc' = "done" /\ ended' \in {"eof", "timeout", "quit", "aborted"}
      \/ pc' = "done" /\ ended' = "stopped" /\ pc \in {"read", "partial"}
      \/ pc' = "partial" /\ UNCHANGED ended /\ inbox # <<>>
      \/ pc' = "read" /\ UNCHANGED ended /\ out = <<>> /\ pc = "write"
  BY DEF StopAtRead, FirstByte, EndOfStream, ReadFails, Written, Aborted, End
<1>9a. pc' = "partial" => pc = "read"
  BY DEF StopAtRead, FirstByte, EndOfStream, ReadFails, Written, Aborted, End
<1>10. Place'
  BY <1>1, <1>3, <1>4, <1>6, <1>8, <1>9, <1>9a DEF ConnIInv, Place
<1>11. ConnTypeOK'
  <2>1. TypeOK'
    BY <1>5 DEF IInv
  <2> QED
    BY <1>1, <1>2, <1>3, <1>8, <1>9, <2>1 DEF ConnIInv, ConnTypeOK
<1> QED
  BY <1>2, <1>5, <1>7, <1>10, <1>11 DEF ConnIInv

\* The MTA goes away, or the server begins to shut down.
LEMMA OutsideStep ==
  ASSUME ConnIInv, MtaDisappears \/ Shutdown
  PROVE  ConnIInv'
<1>1. /\ UNCHANGED vars /\ UNCHANGED streams /\ UNCHANGED driver
      /\ UNCHANGED <<mtaPhase, mtaAwaits, mtaMessage>>
      /\ mtaGone' \in BOOLEAN /\ stop' \in BOOLEAN /\ (mtaGone => mtaGone')
  BY DEF MtaDisappears, Shutdown, mta, ConnIInv, ConnTypeOK
<1>2. UNCHANGED <<pc, ended, out, decidedBy, progress, keepaliveFailed, inbox, wire, torn, pending, error>>
  BY <1>1 DEF driver, streams, vars
<1>3. IInv'
  BY <1>1, SessionIdle DEF ConnIInv
<1>4. Standing' /\ PassedByPolicy' /\ (CurrentVersion => ConformingNeverRefused')
  BY <1>1, <1>2, StandingIdle DEF ConnIInv, Place
<1>5. Place'
  BY <1>2 DEF ConnIInv, Place
<1>6. ConnTypeOK'
  <2>1. TypeOK'
    BY <1>3 DEF IInv
  <2> QED
    BY <1>1, <1>2, <2>1 DEF ConnIInv, ConnTypeOK
<1> QED
  BY <1>1, <1>3, <1>4, <1>5, <1>6 DEF ConnIInv

\* A command the MTA sends joins the ones under way, at the end of the path.
LEMMA SendQuiet ==
  ASSUME ConnIInv, NEW cmd \in Commands, MtaSends(cmd)
  PROVE  Quiet' /\ wire' = <<>> /\ out' = <<>>
<1>1. /\ mtaGone = FALSE /\ mtaAwaits = Nothing /\ pc # "done"
      /\ MaySend(mtaPhase, mtaMessage, cmd.op) /\ inbox' = Append(inbox, cmd)
      /\ mtaGone' = (cmd.op = "Q")
      /\ UNCHANGED vars /\ UNCHANGED driver /\ UNCHANGED <<wire, torn, stop>>
  BY DEF MtaSends, ConnIInv, ConnTypeOK
<1>2. Quiet
  BY <1>1, NothingIsNone DEF ConnIInv, Standing, Asked, Answered, Broken, Failed
<1>3. UNCHANGED <<state, message, options, pending, error, stages, out>>
  BY <1>1 DEF vars, driver
<1>4. state # "Closed"
  BY <1>1, <1>2 DEF Quiet
<1>0. PICK n : n = Len(inbox)
  OBVIOUS
<1>5. /\ inbox \in Seq(Commands) /\ n \in Nat /\ Len(inbox') = n + 1 /\ inbox'[n + 1] = cmd
      /\ inbox' # <<>> /\ \A i \in 1 .. n : inbox'[i] = inbox[i]
  BY <1>0, <1>1 DEF ConnIInv, ConnTypeOK
<1>6. \A i \in 1 .. n + 1 : inbox'[i].op = "Q" => i = n + 1 /\ mtaGone'
  <2> TAKE i \in 1 .. n + 1
  <2>1. CASE i \in 1 .. n
    BY <1>0, <1>1, <1>2, <1>5, <2>1 DEF Quiet
  <2>2. CASE i = n + 1
    BY <1>1, <1>5, <2>2
  <2> QED
    BY <1>5, <2>1, <2>2
<1>7. PICK p, a : Path(p, a)
  BY <1>2 DEF Quiet
<1>8. Ahead = n
  BY <1>0, <1>1 DEF Ahead
<1>9. /\ InStep(p[0], a[0])' /\ p[n] = mtaPhase /\ a[n] = mtaMessage
      /\ \A i \in 1 .. n : /\ MaySend(p[i - 1], a[i - 1], inbox'[i].op)
                           /\ ~MtaAwaits(inbox[i].op)'
                           /\ p[i] = PhaseAfter(p[i - 1], inbox'[i])
                           /\ a[i] = AccountAfter(a[i - 1], inbox'[i])
  BY <1>3, <1>5, <1>7, <1>8 DEF Path, InStep, Account, MtaAwaits
<1>10. CASE MtaAwaits(cmd.op)
  <2>1. mtaAwaits' = cmd /\ UNCHANGED <<mtaPhase, mtaMessage>>
    BY <1>10 DEF MtaSends
  <2>2. mtaAwaits' # Nothing
    BY <2>1, NothingIsNone
  <2>3. Ahead' = n
    BY <1>5, <2>2 DEF Ahead
  <2>4. Path(p, a)'
    BY <1>9, <2>1, <2>3 DEF Path
  <2>5. MaySend(mtaPhase, mtaMessage, mtaAwaits.op)' /\ MtaAwaits(mtaAwaits.op)'
    BY <1>1, <1>3, <1>10, <2>1 DEF MtaAwaits
  <2>6. Quiet'
    BY <1>1, <1>2, <1>3, <1>4, <1>5, <1>6, <2>1, <2>4, <2>5 DEF Quiet
  <2> QED
    BY <1>1, <1>2, <1>3, <2>6 DEF Quiet
<1>11. CASE ~MtaAwaits(cmd.op)
  <2>1. /\ mtaAwaits' = Nothing /\ mtaPhase' = PhaseAfter(mtaPhase, cmd)
        /\ mtaMessage' = AccountAfter(mtaMessage, cmd)
    BY <1>1, <1>11 DEF MtaSends, Advance
  <2> DEFINE pp == [i \in 0 .. n + 1 |-> IF i = n + 1 THEN mtaPhase' ELSE p[i]]
             aa == [i \in 0 .. n + 1 |-> IF i = n + 1 THEN mtaMessage' ELSE a[i]]
  <2>2. PICK p2, a2 : p2 = pp /\ a2 = aa
    OBVIOUS
  <2>3. /\ p2[n + 1] = mtaPhase' /\ a2[n + 1] = mtaMessage'
        /\ \A i \in 0 .. n : p2[i] = p[i] /\ a2[i] = a[i]
    BY <1>5, <2>2
  <2>4. InStep(p2[0], a2[0])'
    <3>1. p2[0] = p[0] /\ a2[0] = a[0]
      BY <1>5, <2>3
    <3> QED
      BY <1>9, <3>1
  <2>5. ASSUME NEW i \in 1 .. n + 1
        PROVE  /\ MaySend(p2[i - 1], a2[i - 1], inbox'[i].op)
               /\ ~MtaAwaits(inbox[i].op)'
               /\ p2[i] = PhaseAfter(p2[i - 1], inbox'[i])
               /\ a2[i] = AccountAfter(a2[i - 1], inbox'[i])
    <3>1. CASE i \in 1 .. n
      <4>1. i - 1 \in 0 .. n /\ i \in 0 .. n
        BY <1>5, <3>1
      <4> QED
        BY <1>9, <2>3, <3>1, <4>1
    <3>2. CASE i = n + 1
      <4>1. p2[i - 1] = mtaPhase /\ a2[i - 1] = mtaMessage /\ inbox'[i] = cmd
        BY <1>5, <1>9, <2>3, <3>2
      <4>2. ~MtaAwaits(cmd.op)'
        BY <1>3, <1>11 DEF MtaAwaits
      <4> QED
        BY <1>1, <2>1, <2>3, <3>2, <4>1, <4>2
    <3> QED
      BY <1>5, <3>1, <3>2
  <2>6. Ahead' = n + 1
    BY <1>5, <2>1 DEF Ahead
  <2>7. Path(p2, a2)'
    BY <2>3, <2>4, <2>5, <2>6 DEF Path
  <2>8. Quiet'
    BY <1>1, <1>2, <1>3, <1>4, <1>5, <1>6, <2>1, <2>7 DEF Quiet
  <2> QED
    BY <1>1, <1>2, <1>3, <2>8 DEF Quiet
<1> QED
  BY <1>10, <1>11

\* The MTA sends a command: the path of commands sent ahead grows by it, or the command
\* becomes the one it waits for.
LEMMA SendStep ==
  ASSUME ConnIInv, NEW cmd \in Commands, MtaSends(cmd)
  PROVE  ConnIInv'
<1>1. /\ inbox' = Append(inbox, cmd) /\ Len(inbox) < MaxInFlight
      /\ mtaGone' = (cmd.op = "Q") /\ pc # "done"
      /\ UNCHANGED vars /\ UNCHANGED driver /\ UNCHANGED <<wire, torn, stop>>
  BY DEF MtaSends
<1>2. IInv'
  BY <1>1, SessionIdle DEF ConnIInv
<1>3. Quiet' /\ wire' = <<>> /\ out' = <<>>
  BY SendQuiet
<1>4. UNCHANGED <<pc, ended, out, progress, decidedBy, keepaliveFailed>>
  BY <1>1 DEF driver
<1>5. UNCHANGED <<pending, error, stages>>
  BY <1>1 DEF vars
<1>6. mtaPhase \in Phases
  BY DEF ConnIInv, ConnTypeOK, Phases
<1>7. mtaPhase' \in Phases /\ mtaMessage' \in AccountType /\ mtaAwaits' \in Commands \cup {Nothing}
  BY <1>6, AccountStep DEF MtaSends, Advance, ConnIInv, ConnTypeOK
<1>8. inbox' \in Seq(Commands) /\ Len(inbox') <= MaxInFlight /\ inbox' # <<>>
  BY <1>1, ConnectionAssumption DEF ConnIInv, ConnTypeOK
<1>9. mtaGone' \in BOOLEAN
  BY <1>1
<1>10. ConnTypeOK'
  <2>1. TypeOK'
    BY <1>2 DEF IInv
  <2> QED
    BY <1>1, <1>4, <1>7, <1>8, <1>9, <2>1 DEF ConnIInv, ConnTypeOK, Phases
<1>11. Place'
  BY <1>4, <1>5, <1>8 DEF ConnIInv, Place
<1>12. PassedByPolicy'
  BY <1>3 DEF PassedByPolicy
<1>13. CurrentVersion => ConformingNeverRefused'
  BY <1>5 DEF ConnIInv, ConformingNeverRefused
<1> QED
  BY <1>2, <1>3, <1>7, <1>10, <1>11, <1>12, <1>13 DEF ConnIInv, Standing

\* A final reply takes the MTA where PhaseOn and AccountOn say.
LEMMA FinalReceived ==
  ASSUME MtaReceives, Head(wire) \in FinalCodes
  PROVE  /\ mtaAwaits' = Nothing /\ UNCHANGED mtaGone
         /\ mtaPhase' = PhaseOn(Head(wire)) /\ mtaMessage' = AccountOn(Head(wire))
<1>1. CASE Head(wire) \in {"O", "c"}
  BY <1>1 DEF MtaReceives, PhaseOn, AccountOn, Advance
<1>2. CASE Head(wire) \in {"a", "d", "r", "t", "y", "4"}
  BY <1>2 DEF MtaReceives, PhaseOn, AccountOn
<1> QED
  BY <1>1, <1>2 DEF FinalCodes

\* A keepalive, an edit or garbage leaves the MTA waiting.
LEMMA NoticeReceived ==
  ASSUME ConnIInv, MtaReceives, Head(wire) \notin FinalCodes
  PROVE  /\ UNCHANGED <<mtaPhase, mtaAwaits, mtaMessage>>
         /\ mtaGone' \in BOOLEAN
BY DEF MtaReceives, FinalCodes, mta, ConnIInv, ConnTypeOK

\* What the MTA reads is what stands first on the wire.
LEMMA ReceiveStanding ==
  ASSUME ConnIInv, MtaReceives
  PROVE  Standing'
<1>1. /\ wire # <<>> /\ wire' = Tail(wire) /\ UNCHANGED vars /\ UNCHANGED driver
      /\ UNCHANGED <<inbox, torn, stop>>
  BY DEF MtaReceives
<1>2. UNCHANGED <<state, message, options, pending, error, stages, out, pc, inbox, torn>>
  BY <1>1 DEF vars, driver
<1>3. PICK n : n = Len(wire)
  OBVIOUS
<1>4. wire \in Seq(FinalCodes \cup {"edit", "p", "garbage"})
  BY DEF ConnIInv, ConnTypeOK
<1>5. /\ n \in Nat \ {0} /\ Len(wire') = n - 1 /\ Head(wire) = wire[1]
      /\ \A i \in 1 .. n - 1 : wire'[i] = wire[i + 1]
      /\ n = 1 => wire' = <<>>
      /\ n # 1 => wire' # <<>>
  <2>1. n \in Nat \ {0} /\ Len(wire') = n - 1 /\ Head(wire) = wire[1]
    BY <1>1, <1>3, <1>4
  <2>2. \A i \in 1 .. n - 1 : wire'[i] = wire[i + 1]
    BY <1>1, <1>3, <1>4
  <2>3. wire' \in Seq(FinalCodes \cup {"edit", "p", "garbage"})
    BY <1>1, <1>4
  <2>4. n = 1 => wire' = <<>>
    BY <2>1, <2>3
  <2>5. n # 1 => wire' # <<>>
    BY <2>1, <2>3
  <2> QED
    BY <2>1, <2>2, <2>4, <2>5
<1>6. Asked \/ Answered \/ Broken
  BY <1>1 DEF ConnIInv, Standing, Quiet, Failed
<1>7. CASE Head(wire) \notin FinalCodes
  <2>1. UNCHANGED <<mtaPhase, mtaAwaits, mtaMessage>>
    BY <1>7, NoticeReceived
  <2>2. CASE Asked
    <3>1. \A i \in 1 .. n - 1 : wire'[i] = "p" \/ (torn /\ wire'[i] = "garbage")
      BY <1>3, <1>5, <2>2 DEF Asked
    <3>2. Asked'
      BY <1>2, <1>5, <2>1, <2>2, <3>1 DEF Asked, InStep, Account
    <3> QED
      BY <3>2 DEF Standing
  <2>3. CASE Broken
    <3>1. \A i \in 1 .. n - 1 : wire'[i] \in Notices \cup {"garbage"}
      BY <1>3, <1>5, <2>3 DEF Broken
    <3>2. Broken'
      BY <1>2, <1>5, <2>1, <2>3, <3>1 DEF Broken
    <3> QED
      BY <3>2 DEF Standing
  <2>4. CASE Answered
    <3>1. PICK code \in FinalCodes :
            /\ InStep(PhaseOn(code), AccountOn(code))
            /\ \/ EndsWith(out, code) /\ \A i \in 1 .. Len(wire) : wire[i] \in Notices
               \/ out = <<>> /\ EndsWith(wire, code)
      BY <2>4 DEF Answered
    <3>2. InStep(PhaseOn(code), AccountOn(code))'
      BY <1>2, <2>1, <3>1 DEF InStep, Account, PhaseOn, AccountOn
    <3>3. CASE EndsWith(out, code) /\ \A i \in 1 .. Len(wire) : wire[i] \in Notices
      <4>1. \A i \in 1 .. n - 1 : wire'[i] \in Notices
        BY <1>3, <1>5, <3>3
      <4>2. EndsWith(out, code)'
        BY <1>2, <3>3 DEF EndsWith
      <4> QED
        BY <1>2, <1>5, <2>1, <2>4, <3>2, <4>1, <4>2 DEF Answered, Standing
    <3>4. CASE out = <<>> /\ EndsWith(wire, code)
      <4>1. n # 1
        BY <1>3, <1>5, <1>7, <3>4 DEF EndsWith
      <4>2. EndsWith(wire, code)'
        <5>1. wire' # <<>> /\ wire'[n - 1] = code
          BY <1>3, <1>5, <3>4, <4>1 DEF EndsWith
        <5>2. \A i \in 1 .. (n - 1) - 1 : wire'[i] \in Notices
          BY <1>3, <1>5, <3>4, <4>1 DEF EndsWith
        <5> QED
          BY <1>5, <5>1, <5>2 DEF EndsWith
      <4> QED
        BY <1>2, <1>5, <2>1, <2>4, <3>2, <3>4, <4>2 DEF Answered, Standing
    <3> QED
      BY <3>1, <3>3, <3>4
  <2> QED
    BY <1>6, <2>2, <2>3, <2>4
<1>8. CASE Head(wire) \in FinalCodes
  <2>1. /\ mtaAwaits' = Nothing /\ UNCHANGED mtaGone
        /\ mtaPhase' = PhaseOn(Head(wire)) /\ mtaMessage' = AccountOn(Head(wire))
    BY <1>8, FinalReceived
  <2>2. 1 \in 1 .. Len(wire) /\ wire[1] \in FinalCodes /\ wire[1] \notin Notices \cup {"garbage"}
    BY <1>3, <1>5, <1>8 DEF FinalCodes, Notices
  <2>3. Answered
    BY <1>6, <2>2 DEF Asked, Broken, Notices
  <2>4. PICK code \in FinalCodes :
          /\ InStep(PhaseOn(code), AccountOn(code))
          /\ \/ EndsWith(out, code) /\ \A i \in 1 .. Len(wire) : wire[i] \in Notices
             \/ out = <<>> /\ EndsWith(wire, code)
    BY <2>3 DEF Answered
  <2>5. out = <<>> /\ EndsWith(wire, code)
    BY <2>2, <2>4
  <2>6. n = 1 /\ code = Head(wire)
    BY <1>3, <1>5, <2>2, <2>5 DEF EndsWith
  <2>7. PICK ph, ac : ph = PhaseOn(code) /\ ac = AccountOn(code)
    OBVIOUS
  <2>8. InStep(ph, ac)'
    <3>1. InStep(ph, ac)
      BY <2>4, <2>7
    <3> QED
      BY <1>2, <3>1 DEF InStep, Account
  <2>9. ph = mtaPhase' /\ ac = mtaMessage'
    BY <2>1, <2>6, <2>7
  <2>10. inbox = <<>> /\ inbox' = <<>>
    BY <1>2, <2>3 DEF Answered
  <2>11. Ahead' = 0
    BY <2>1, <2>10 DEF Ahead
  <2>12. PICK p, a : p = [i \in {0} |-> ph] /\ a = [i \in {0} |-> ac]
    OBVIOUS
  <2>13. p[0] = ph /\ a[0] = ac
    BY <2>12
  <2>14. Path(p, a)'
    BY <2>8, <2>9, <2>11, <2>13 DEF Path
  <2>15. Quiet'
    BY <1>2, <1>5, <2>1, <2>3, <2>5, <2>6, <2>10, <2>14 DEF Quiet, Answered
  <2> QED
    BY <2>15 DEF Standing
<1> QED
  BY <1>7, <1>8

\* The MTA takes a frame from the wire: a final reply puts it back in step with the session,
\* garbage leaves it waiting.
LEMMA ReceiveStep ==
  ASSUME ConnIInv, MtaReceives
  PROVE  ConnIInv'
<1>1. /\ wire # <<>> /\ wire' = Tail(wire) /\ UNCHANGED vars /\ UNCHANGED driver
      /\ UNCHANGED <<inbox, torn, stop>>
  BY DEF MtaReceives
<1>2. UNCHANGED <<pc, ended, out, progress, decidedBy, keepaliveFailed>>
  BY <1>1 DEF driver
<1>3. UNCHANGED <<pending, error, stages>>
  BY <1>1 DEF vars
<1>4. IInv'
  BY <1>1, SessionIdle DEF ConnIInv
<1>5. Standing'
  BY ReceiveStanding
<1>6. wire \in Seq(FinalCodes \cup {"edit", "p", "garbage"})
  BY DEF ConnIInv, ConnTypeOK
<1>7. wire' \in Seq(FinalCodes \cup {"edit", "p", "garbage"})
  BY <1>1, <1>6
<1>8. mtaPhase \in Phases /\ mtaMessage \in AccountType
  BY DEF ConnIInv, ConnTypeOK, Phases
<1>9. /\ mtaPhase' \in Phases /\ mtaMessage' \in AccountType
      /\ mtaAwaits' \in Commands \cup {Nothing} /\ mtaGone' \in BOOLEAN
      /\ mtaAwaits' = mtaAwaits \/ mtaAwaits' = Nothing
  <2>1. CASE Head(wire) \notin FinalCodes
    BY <1>8, <2>1, NoticeReceived DEF ConnIInv, ConnTypeOK
  <2>2. CASE Head(wire) \in FinalCodes
    <3>1. /\ mtaAwaits' = Nothing /\ UNCHANGED mtaGone
          /\ mtaPhase' = PhaseOn(Head(wire)) /\ mtaMessage' = AccountOn(Head(wire))
      BY <2>2, FinalReceived
    <3>2. mtaAwaits \in Commands
      BY <1>1, <2>2 DEF ConnIInv, Standing, Quiet, Asked, Answered, Broken, Failed
    <3>3. EmptyAccount \in AccountType
      BY DEF EmptyAccount, AccountType
    <3>4. PhaseAfter(mtaPhase, mtaAwaits) \in Phases /\ AccountAfter(mtaMessage, mtaAwaits) \in AccountType
      BY <1>8, <3>2, AccountStep
    <3>5. mtaPhase' \in Phases /\ mtaMessage' \in AccountType
      BY <1>8, <3>1, <3>3, <3>4 DEF PhaseOn, AccountOn, Phases
    <3> QED
      BY <3>1, <3>5 DEF ConnIInv, ConnTypeOK
  <2> QED
    BY <2>1, <2>2
<1>10. ConnTypeOK'
  <2>1. TypeOK'
    BY <1>4 DEF IInv
  <2> QED
    BY <1>1, <1>2, <1>7, <1>9, <2>1 DEF ConnIInv, ConnTypeOK, Phases
<1>11. Place'
  BY <1>1, <1>2, <1>3 DEF ConnIInv, Place
<1>12. PassedByPolicy'
  <2>1. /\ Len(wire) \in Nat /\ Len(wire') = Len(wire) - 1
        /\ \A i \in 1 .. Len(wire') : wire'[i] = wire[i + 1] /\ i + 1 \in 1 .. Len(wire)
    BY <1>1, <1>6
  <2>2. mtaAwaits'.op = "E" => mtaAwaits' = mtaAwaits
    BY <1>9 DEF Nothing
  <2> QED
    BY <1>2, <1>3, <2>1, <2>2 DEF ConnIInv, PassedByPolicy
<1>13. CurrentVersion => ConformingNeverRefused'
  BY <1>3 DEF ConnIInv, ConformingNeverRefused
<1> QED
  BY <1>4, <1>5, <1>9, <1>10, <1>11, <1>12, <1>13 DEF ConnIInv

\* A frame is read only while the conversation is quiet.
LEMMA ReadIsQuiet ==
  ASSUME ConnIInv, pc = "partial"
  PROVE  Quiet /\ inbox # <<>> /\ state # "Closed"
BY DEF ConnIInv, Place, Standing, Quiet, Asked, Answered, Broken, Failed

\* The bare answers of receive, as they are written.
LEMMA BareCodes ==
  ASSUME NEW c, c # "none"
  PROVE  Codes(Silence) = <<>> /\ Codes(Answer(c)) = <<c>>
BY DEF Codes, Silence, Answer, NoReply, EmptyFrame

\* A command is read and refused: the connection ends, and nothing was on its way.
LEMMA RefusedStanding ==
  ASSUME ConnIInv, RestOfFrame, error' # "none"
  PROVE  Failed' /\ Refuse(Head(inbox))
<1>1. Quiet
  BY ReadIsQuiet DEF RestOfFrame
<1>2. Refuse(Head(inbox))
  BY <1>1 DEF RestOfFrame, Receive, Quiet, Negotiate, Macro, Connect, Helo, Mail, Recipient, Data,
              Header, EndHeaders, Body, EndMessage, Abort, QuitNewConnection, Quit, Unknown
<1>3. pending' = pending
  BY <1>2 DEF Refuse
<1> QED
  BY <1>1, <1>2, <1>3 DEF RestOfFrame, End, Failed, Quiet

\* The first command under way was sent ahead: the session takes a step on the path.
LEMMA AheadTaken ==
  ASSUME ConnIInv, RestOfFrame, error' = "none", NEW p, NEW a, Path(p, a), Ahead # 0
  PROVE  Quiet'
<1>1. Quiet /\ inbox # <<>> /\ state # "Closed"
  BY ReadIsQuiet DEF RestOfFrame
<1>2. PICK cmd \in Commands : cmd = Head(inbox)
  BY <1>1 DEF ConnIInv, ConnTypeOK
<1>3. PICK n : n = Len(inbox)
  OBVIOUS
<1>4. inbox \in Seq(Commands) /\ inbox' = Tail(inbox)
  BY DEF ConnIInv, ConnTypeOK, RestOfFrame
<1>5. /\ n \in Nat \ {0} /\ Len(inbox') = n - 1 /\ inbox[1] = cmd
      /\ \A i \in 1 .. n - 1 : inbox'[i] = inbox[i + 1]
  <2>1. n \in Nat \ {0} /\ Len(inbox') = n - 1 /\ inbox[1] = Head(inbox)
    BY <1>1, <1>3, <1>4
  <2>2. \A i \in 1 .. n - 1 : inbox'[i] = inbox[i + 1]
    BY <1>1, <1>3, <1>4
  <2> QED
    BY <1>2, <2>1, <2>2
<1>4a. inbox' \in Seq(Commands)
  BY <1>1, <1>4
<1>6. n = 1 => inbox' = <<>>
  BY <1>4a, <1>5
<1>7. n # 1 => inbox' # <<>>
  BY <1>4a, <1>5
<1>8. PICK m : m = Ahead
  OBVIOUS
<1>9. m \in 1 .. n /\ (mtaAwaits # Nothing => m = n - 1) /\ (mtaAwaits = Nothing => m = n)
  BY <1>3, <1>5, <1>8 DEF Ahead
<1>10. /\ MaySend(p[0], a[0], cmd.op) /\ ~MtaAwaits(cmd.op) /\ InStep(p[0], a[0])
       /\ p[1] = PhaseAfter(p[0], cmd) /\ a[1] = AccountAfter(a[0], cmd)
  <2>1. 1 \in 1 .. m /\ 1 - 1 = 0
    BY <1>9
  <2> QED
    BY <1>5, <1>8, <2>1 DEF Path
<1>11. Receive(cmd) /\ ~Refuse(cmd)
  <2>1. Receive(cmd)
    BY <1>2 DEF RestOfFrame
  <2>2. Refuse(cmd) => error' # "none"
    BY DEF Refuse
  <2> QED
    BY <2>1, <2>2
<1>12. Taken(p[0], a[0], cmd)
  BY <1>1, <1>10, <1>11, Follows DEF ConnIInv, Quiet
<1>13. cmd.op # "E"
  BY <1>10 DEF MtaAwaits
<1>14. /\ pending' = "none" /\ frames' = Silence /\ options' = options
       /\ state' = "Closed" => cmd.op = "Q"
       /\ InStep(PhaseAfter(p[0], cmd), AccountAfter(a[0], cmd))'
  BY <1>10, <1>12, <1>13 DEF Taken
<1>15. out' = <<>>
  <2>1. out' = Codes(frames')
    BY <1>14 DEF RestOfFrame
  <2>2. Codes(Silence) = <<>>
    BY BareCodes
  <2> QED
    BY <1>14, <2>1, <2>2
<1>16. UNCHANGED <<wire, torn>> /\ UNCHANGED <<mtaPhase, mtaAwaits, mtaMessage, mtaGone>>
  BY DEF RestOfFrame, mta
<1>17. PICK p2, a2 : /\ p2 = [i \in 0 .. m - 1 |-> p[i + 1]]
                     /\ a2 = [i \in 0 .. m - 1 |-> a[i + 1]]
  OBVIOUS
<1>18. \A i \in 0 .. m - 1 : p2[i] = p[i + 1] /\ a2[i] = a[i + 1]
  BY <1>17
<1>19. Ahead' = m - 1
  BY <1>5, <1>9, <1>16 DEF Ahead
<1>20. InStep(p2[0], a2[0])'
  <2>1. 0 \in 0 .. m - 1 /\ 0 + 1 = 1
    BY <1>9
  <2>2. p2[0] = PhaseAfter(p[0], cmd) /\ a2[0] = AccountAfter(a[0], cmd)
    BY <1>10, <1>18, <2>1
  <2> QED
    BY <1>14, <2>2
<1>21. p2[m - 1] = mtaPhase' /\ a2[m - 1] = mtaMessage'
  <2>1. m - 1 \in 0 .. m - 1 /\ (m - 1) + 1 = m
    BY <1>9
  <2>2. p2[m - 1] = p[m] /\ a2[m - 1] = a[m]
    BY <1>18, <2>1
  <2> QED
    BY <1>8, <1>16, <2>2 DEF Path
<1>22. ASSUME NEW i \in 1 .. m - 1
       PROVE  /\ MaySend(p2[i - 1], a2[i - 1], inbox'[i].op)
              /\ ~MtaAwaits(inbox[i].op)'
              /\ p2[i] = PhaseAfter(p2[i - 1], inbox'[i])
              /\ a2[i] = AccountAfter(a2[i - 1], inbox'[i])
  <2>1. /\ i + 1 \in 1 .. m /\ (i + 1) - 1 = i /\ i \in 0 .. m - 1 /\ i - 1 \in 0 .. m - 1
        /\ (i - 1) + 1 = i /\ i \in 1 .. n - 1
    BY <1>9, <1>5
  <2>2. inbox'[i] = inbox[i + 1]
    BY <1>5, <2>1
  <2>3. p2[i] = p[i + 1] /\ a2[i] = a[i + 1] /\ p2[i - 1] = p[i] /\ a2[i - 1] = a[i]
    BY <1>18, <2>1
  <2>4. /\ MaySend(p[i], a[i], inbox[i + 1].op) /\ ~MtaAwaits(inbox[i + 1].op)
        /\ p[i + 1] = PhaseAfter(p[i], inbox[i + 1]) /\ a[i + 1] = AccountAfter(a[i], inbox[i + 1])
    BY <1>8, <2>1 DEF Path
  <2>5. ~MtaAwaits(inbox[i].op)'
    BY <1>14, <2>2, <2>4 DEF MtaAwaits
  <2> QED
    BY <2>2, <2>3, <2>4, <2>5
<1>23. Path(p2, a2)'
  BY <1>19, <1>20, <1>21, <1>22 DEF Path
<1>24. \A i \in 1 .. n - 1 : inbox'[i].op = "Q" => i = n - 1 /\ mtaGone'
  <2> TAKE i \in 1 .. n - 1
  <2>1. i + 1 \in 1 .. Len(inbox) /\ inbox'[i] = inbox[i + 1]
    BY <1>3, <1>5
  <2>2. inbox[i + 1].op = "Q" => i + 1 = n /\ mtaGone
    BY <1>1, <1>3, <2>1 DEF Quiet
  <2> QED
    BY <1>5, <1>16, <2>1, <2>2
<1>25. state' = "Closed" => inbox' = <<>> /\ mtaGone'
  <2>1. 1 \in 1 .. Len(inbox)
    BY <1>3, <1>5
  <2>2. cmd.op = "Q" => n = 1 /\ mtaGone
    BY <1>1, <1>3, <1>5, <2>1 DEF Quiet
  <2> QED
    BY <1>6, <1>14, <1>16, <2>2
<1>26. mtaAwaits' # Nothing =>
         /\ inbox' # <<>> /\ inbox'[n - 1] = mtaAwaits'
         /\ MaySend(mtaPhase, mtaMessage, mtaAwaits.op)' /\ MtaAwaits(mtaAwaits.op)'
  <2> HAVE mtaAwaits' # Nothing
  <2>1. n # 1 /\ n - 1 \in 1 .. n - 1 /\ (n - 1) + 1 = n
    BY <1>5, <1>9, <1>16
  <2>2. inbox'[n - 1] = inbox[n]
    BY <1>5, <2>1
  <2>3. /\ inbox[n] = mtaAwaits /\ MaySend(mtaPhase, mtaMessage, mtaAwaits.op)
        /\ MtaAwaits(mtaAwaits.op)
    BY <1>1, <1>3, <1>16 DEF Quiet
  <2> QED
    BY <1>7, <1>14, <1>16, <2>1, <2>2, <2>3 DEF MtaAwaits
<1> QED
  BY <1>1, <1>5, <1>14, <1>15, <1>16, <1>23, <1>24, <1>25, <1>26 DEF Quiet

\* The command the MTA waits for is answered, or the policy is asked about it.
LEMMA AwaitedTaken ==
  ASSUME ConnIInv, RestOfFrame, error' = "none", NEW p, NEW a, Path(p, a), Ahead = 0
  PROVE  /\ \/ Asked' /\ out' = <<>>
            \/ Answered' /\ mtaAwaits'.op # "E"
         /\ out' \in Seq(FinalCodes \cup {"edit"})
<1>1. Quiet /\ inbox # <<>> /\ state # "Closed"
  BY ReadIsQuiet DEF RestOfFrame
<1>2. inbox \in Seq(Commands) /\ inbox' = Tail(inbox)
  BY DEF ConnIInv, ConnTypeOK, RestOfFrame
<1>3. mtaAwaits # Nothing /\ Len(inbox) = 1
  BY <1>1, <1>2 DEF Ahead
<1>4. /\ inbox' = <<>> /\ Head(inbox) = mtaAwaits
      /\ MaySend(mtaPhase, mtaMessage, mtaAwaits.op) /\ MtaAwaits(mtaAwaits.op)
  BY <1>1, <1>2, <1>3 DEF Quiet
<1>0. PICK ph, ac : ph = mtaPhase /\ ac = mtaMessage
  OBVIOUS
<1>5. PICK cmd \in Commands : cmd = mtaAwaits
  BY <1>3 DEF ConnIInv, ConnTypeOK
<1>6. InStep(ph, ac)
  BY <1>0, <1>5 DEF Path
<1>7. Receive(cmd) /\ ~Refuse(cmd)
  <2>1. Receive(cmd)
    BY <1>4, <1>0, <1>5 DEF RestOfFrame
  <2>2. Refuse(cmd) => error' # "none"
    BY DEF Refuse
  <2> QED
    BY <2>1, <2>2
<1>8. Taken(ph, ac, cmd)
  BY <1>1, <1>4, <1>0, <1>5, <1>6, <1>7, Follows DEF ConnIInv, Quiet
<1>9. /\ UNCHANGED <<wire, torn>> /\ UNCHANGED <<mtaPhase, mtaAwaits, mtaMessage, mtaGone>>
      /\ wire = <<>> /\ torn = FALSE /\ out = <<>>
  BY <1>1 DEF RestOfFrame, mta, Quiet, ConnIInv, ConnTypeOK
<1>10. MtaAwaits(cmd.op) /\ cmd.op # "Q" /\ mtaAwaits' = cmd /\ mtaPhase' = ph /\ mtaMessage' = ac
  BY <1>4, <1>0, <1>5, <1>9 DEF MtaAwaits, RepliedOps
<1>11. CASE /\ pending' = "none" /\ cmd.op # "E"
            /\ frames' = Answer("c") \/ frames' = Answer("O")
  <2>1. PICK c \in {"c", "O"} : frames' = Answer(c)
    BY <1>11
  <2>2. out' = Codes(frames')
    BY <1>11 DEF RestOfFrame
  <2>3. out' = <<c>>
    BY <2>1, <2>2, BareCodes
  <2>4. out' # <<>> /\ EndsWith(<<c>>, c) /\ c \in FinalCodes /\ <<c>> \in Seq(FinalCodes \cup {"edit"})
    BY <2>3 DEF EndsWith, FinalCodes
  <2>5. InStep(PhaseAfter(ph, cmd), AccountAfter(ac, cmd))' /\ state' # "Closed"
    BY <1>8, <1>10, <1>11 DEF Taken
  <2>6. PhaseOn(c)' = PhaseAfter(ph, cmd) /\ AccountOn(c)' = AccountAfter(ac, cmd)
    BY <1>10 DEF PhaseOn, AccountOn
  <2>7. InStep(PhaseOn(c), AccountOn(c))'
    BY <2>5, <2>6
  <2>8. EndsWith(out, c)'
    BY <2>3, <2>4
  <2>9. \A i \in 1 .. Len(wire') : wire'[i] \in Notices
    BY <1>9
  <2>10. Answered'
    BY <1>4, <1>9, <1>10, <1>11, <2>4, <2>5, <2>7, <2>8, <2>9 DEF Answered
  <2> QED
    BY <1>10, <1>11, <2>3, <2>4, <2>10
<1>12. CASE pending' # "none"
  <2>1. out' = <<>>
    BY <1>9, <1>12 DEF RestOfFrame
  <2>2. IF pending' = "EndMessage" THEN cmd.op = "E" /\ InStep(ph, ac)'
        ELSE /\ cmd.op = StageOp[pending'] /\ cmd.op # "E"
             /\ InStep(PhaseAfter(ph, cmd), AccountAfter(ac, cmd))'
    BY <1>8, <1>10, <1>12 DEF Taken, StageOp
  <2>3. IF pending' = "EndMessage" THEN mtaAwaits'.op = "E" /\ InStep(mtaPhase, mtaMessage)'
        ELSE /\ mtaAwaits'.op = StageOp[pending']
             /\ MaySend(mtaPhase, mtaMessage, mtaAwaits.op)'
             /\ InStep(PhaseAfter(mtaPhase, mtaAwaits), AccountAfter(mtaMessage, mtaAwaits))'
    BY <1>4, <1>0, <1>5, <1>10, <2>2
  <2>4. \A i \in 1 .. Len(wire') : wire'[i] = "p" \/ (torn' /\ wire'[i] = "garbage")
    BY <1>9
  <2>5. Asked'
    BY <1>4, <1>0, <1>5, <1>9, <1>12, <2>1, <2>3, <2>4 DEF Asked
  <2>6. <<>> \in Seq(FinalCodes \cup {"edit"})
    OBVIOUS
  <2> QED
    BY <2>1, <2>5, <2>6
<1> QED
  BY <1>8, <1>10, <1>11, <1>12 DEF Taken, StageOp

\* A command is read: the session's step, and what the driver makes of it.
LEMMA FrameStep ==
  ASSUME ConnIInv, RestOfFrame
  PROVE  ConnIInv'
<1>1. Quiet /\ inbox # <<>> /\ state # "Closed" /\ pc = "partial"
  BY ReadIsQuiet DEF RestOfFrame
<1>2. PICK cmd \in Commands : cmd = Head(inbox)
  BY <1>1 DEF ConnIInv, ConnTypeOK
<1>3. IInv'
  <2>1. Next
    BY <1>2 DEF RestOfFrame, Next
  <2> QED
    BY <2>1, NextIInv DEF ConnIInv
<1>4. /\ UNCHANGED <<wire, torn, stop, keepaliveFailed>>
      /\ UNCHANGED <<mtaPhase, mtaAwaits, mtaMessage, mtaGone>>
      /\ wire = <<>> /\ out = <<>> /\ inbox' = Tail(inbox) /\ progress' = 0 /\ decidedBy' = "nobody"
  BY <1>1 DEF RestOfFrame, mta, Quiet
<1>5. PICK p, a : Path(p, a)
  BY <1>1 DEF Quiet
<1>6. error' # "none" => Failed' /\ Refuse(cmd)
  BY <1>2, RefusedStanding
<1>7. error' = "none" =>
        \/ Quiet'
        \/ Asked' /\ out' = <<>>
        \/ Answered' /\ mtaAwaits'.op # "E"
  BY <1>5, AheadTaken, AwaitedTaken
<1>8. out' \in Seq(FinalCodes \cup {"edit"})
  <2>1. <<>> \in Seq(FinalCodes \cup {"edit"})
    OBVIOUS
  <2>2. error' # "none" => out' = <<>>
    BY <1>6 DEF Failed
  <2>3. error' = "none" => out' = <<>> \/ out' \in Seq(FinalCodes \cup {"edit"})
    BY <1>5, AheadTaken, AwaitedTaken DEF Quiet
  <2> QED
    BY <2>1, <2>2, <2>3
<1>9. Standing'
  BY <1>6, <1>7 DEF Standing
<1>10. PassedByPolicy'
  <2>1. wire' = <<>> /\ (out' = <<>> \/ mtaAwaits'.op # "E")
    BY <1>4, <1>6, <1>7 DEF Failed, Quiet
  <2> QED
    BY <2>1 DEF PassedByPolicy
<1>11. ended = "running"
  BY <1>1 DEF ConnIInv, ConnTypeOK
<1>12. \/ error' # "none" /\ pc' = "done" /\ ended' = "error"
       \/ error' = "none" /\ pending' # "none" /\ pc' = "evaluate" /\ ended' = "running" /\ out' = <<>>
       \/ error' = "none" /\ pending' = "none" /\ pc' = "write" /\ ended' = "running"
  BY <1>4, <1>11 DEF RestOfFrame, End
<1>13. Place'
  <2>1. error' # "none" => pending' = "none"
    BY <1>6 DEF Failed
  <2> QED
    BY <1>12, <2>1 DEF Place
<1>14. inbox' \in Seq(Commands) /\ Len(inbox') <= MaxInFlight
  BY <1>1, <1>4, ConnectionAssumption DEF ConnIInv, ConnTypeOK
<1>15. 0 \in 0 .. MaxProgress
  BY ConnectionAssumption
<1>16. ConnTypeOK'
  <2>1. TypeOK'
    BY <1>3 DEF IInv
  <2> QED
    BY <1>4, <1>8, <1>12, <1>14, <1>15, <2>1 DEF ConnIInv, ConnTypeOK
<1>17. CurrentVersion => ConformingNeverRefused'
  <2>1. SUFFICES ASSUME CurrentVersion PROVE ConformingNeverRefused'
    OBVIOUS
  <2>2. CASE error' = "none"
    BY <2>2 DEF ConformingNeverRefused
  <2>3. CASE error' # "none"
    <3>1. Refuse(cmd)
      BY <1>6, <2>3
    <3>2. PICK ph, ac : InStep(ph, ac) /\ MaySend(ph, ac, cmd.op)
      <4>1. CASE Ahead = 0
        <5>1. Len(inbox) = 1 /\ mtaAwaits # Nothing
          BY <1>1, <4>1 DEF Ahead, ConnIInv, ConnTypeOK
        <5>2. cmd = mtaAwaits
          BY <1>1, <1>2, <5>1 DEF Quiet, ConnIInv, ConnTypeOK
        <5>3. InStep(mtaPhase, mtaMessage)
          BY <1>5, <4>1 DEF Path
        <5>4. MaySend(mtaPhase, mtaMessage, cmd.op)
          BY <1>1, <5>1, <5>2 DEF Quiet
        <5> QED
          BY <5>3, <5>4
      <4>2. CASE Ahead # 0
        <5>1. Len(inbox) \in Nat \ {0}
          BY <1>1 DEF ConnIInv, ConnTypeOK
        <5>2. 1 \in 1 .. Ahead /\ 1 - 1 = 0
          <6>1. Ahead \in Nat
            BY <5>1 DEF Ahead
          <6> QED
            BY <4>2, <6>1
        <5>3. cmd = inbox[1]
          <6>1. inbox \in Seq(Commands)
            BY DEF ConnIInv, ConnTypeOK
          <6> QED
            BY <1>1, <1>2, <6>1
        <5> QED
          BY <1>5, <5>2, <5>3 DEF Path
      <4> QED
        BY <4>1, <4>2
    <3>3. error' = "limit"
      BY <1>1, <2>1, <3>1, <3>2, RefusedForLimit DEF ConnIInv, Quiet
    <3> QED
      BY <3>3 DEF ConformingNeverRefused
  <2> QED
    BY <2>2, <2>3
<1> QED
  BY <1>3, <1>4, <1>9, <1>10, <1>13, <1>16, <1>17 DEF ConnIInv

\* The driver's own answers are decisions complete accepts like any other.
LEMMA OwnDecisions ==
  /\ IsDecision(DefaultDecision)
  /\ IsDecision(Fallback)
  /\ ~FailOpen => Fallback.verdict = "Tempfail"
<1>1. <<>> \in Seq(Modifications)
  OBVIOUS
<1> QED
  BY <1>1 DEF IsDecision, DefaultDecision, Fallback, Bare, Verdicts

\* Once the callback is decided, the answer is on its way, or lost after a torn frame.
LEMMA DecidedStanding ==
  ASSUME ConnIInv, pc = "evaluate", NEW d, IsDecision(d), NEW who, Decided(d, who),
         torn' \in BOOLEAN, torn => torn'
  PROVE  Standing' /\ out' \in Seq(FinalCodes \cup {"edit"})
<1>1. Asked
  BY DEF ConnIInv, Place, Standing, Quiet, Answered, Broken, Failed
<1>2. /\ Complete(d) /\ out' = Codes(frames') /\ UNCHANGED <<inbox, wire>>
      /\ UNCHANGED <<mtaPhase, mtaAwaits, mtaMessage, mtaGone>>
  BY DEF Decided, mta
<1>3. PICK code : code = FinalFrame(d).cmd
  OBVIOUS
<1>4. code \in FinalCodes /\ FinalFrame(d) # NoReply
  BY <1>3, FinalReply
<1>5. frames'.reply = FinalFrame(d) /\ frames'.edits \in Seq(Modifications)
  <2>1. <<>> \in Seq(Modifications) /\ d.mods \in Seq(Modifications)
    BY DEF IsDecision
  <2> QED
    BY <1>2, <2>1 DEF Complete, DecisionFrames
<1>6. out' \in Seq(FinalCodes \cup {"edit"}) /\ EndsWith(out', code)
  BY <1>2, <1>3, <1>4, <1>5, CodesEnd
<1>7. pending' = "none" /\ error' = error
  BY <1>2 DEF Complete
<1>8. PICK ph, ac : ph = PhaseOn(code) /\ ac = AccountOn(code)
  OBVIOUS
<1>9. InStep(ph, ac)' /\ state' # "Closed"
  BY <1>1, <1>2, <1>3, <1>8, DecisionFollows DEF ConnIInv
<1>10. PhaseOn(code)' = ph /\ AccountOn(code)' = ac
  BY <1>2, <1>8 DEF PhaseOn, AccountOn
<1>11. CASE torn'
  <2>1. \A i \in 1 .. Len(wire') : wire'[i] \in Notices \cup {"garbage"}
    BY <1>1, <1>2 DEF Asked, Notices
  <2>2. Broken'
    BY <1>1, <1>2, <1>7, <1>11, <2>1 DEF Broken, Asked
  <2> QED
    BY <1>6, <2>2 DEF Standing
<1>12. CASE ~torn'
  <2>1. \A i \in 1 .. Len(wire') : wire'[i] \in Notices
    BY <1>1, <1>2, <1>12 DEF Asked, Notices
  <2>2. InStep(PhaseOn(code), AccountOn(code))'
    BY <1>9, <1>10
  <2>3. EndsWith(out, code)'
    BY <1>6
  <2>4. Answered'
    BY <1>1, <1>2, <1>4, <1>7, <1>9, <1>12, <2>1, <2>2, <2>3 DEF Answered, Asked
  <2> QED
    BY <1>6, <2>4 DEF Standing
<1> QED
  BY <1>11, <1>12

\* The default answers only an end of message nobody subscribed to, and the fallback
\* of a closed configuration lets nothing pass.
LEMMA DecidedPassing ==
  ASSUME ConnIInv, pc = "evaluate", NEW d, NEW who, Decided(d, who),
         \/ who = "policy"
         \/ who = "default" /\ pending \notin stages
         \/ who = "fallback" /\ d = Fallback
  PROVE  PassedByPolicy'
<1>1. Asked
  BY DEF ConnIInv, Place, Standing, Quiet, Answered, Broken, Failed
<1>2. /\ Complete(d) /\ out' = Codes(frames') /\ UNCHANGED wire /\ decidedBy' = who
      /\ UNCHANGED <<mtaPhase, mtaAwaits, mtaMessage, mtaGone>>
  BY DEF Decided, mta
<1>3. UNCHANGED stages
  BY <1>2 DEF Complete, context
<1>4. CASE who = "policy"
  BY <1>2, <1>4 DEF PassedByPolicy
<1>5. CASE who = "default" /\ pending \notin stages
  <2>1. mtaAwaits.op = "E" => pending = "EndMessage"
    <3>1. pending \in Stages
      BY <1>1 DEF Asked, ConnIInv, IInv, TypeOK
    <3> QED
      BY <1>1, <3>1 DEF Asked, Stages, StageOp
  <2> QED
    BY <1>2, <1>3, <1>5, <2>1 DEF PassedByPolicy
<1>6. CASE who = "fallback" /\ d = Fallback
  <2>1. ~FailOpen => out' = <<"t">>
    <3> HAVE ~FailOpen
    <3>1. d.verdict = "Tempfail" /\ IsDecision(d)
      BY <1>6, OwnDecisions
    <3>2. frames' = [edits |-> <<>>, reply |-> EmptyFrame("t")]
      BY <1>2, <3>1 DEF Complete, DecisionFrames, FinalFrame, Rejecting
    <3>3. Codes(frames') = <<"t">>
      BY <3>2, BareCodes DEF Answer
    <3> QED
      BY <1>2, <3>3
  <2>2. \A i \in 1 .. Len(wire') : wire'[i] \notin Passing
    BY <1>1, <1>2 DEF Asked, Passing
  <2>3. ~FailOpen => \A i \in 1 .. Len(out') : out'[i] \notin Passing
    <3> SUFFICES ASSUME ~FailOpen, NEW i \in 1 .. Len(out') PROVE out'[i] \notin Passing
      OBVIOUS
    <3>1. Len(<<"t">>) = 1 /\ <<"t">>[1] = "t"
      OBVIOUS
    <3>2. out' = <<"t">>
      BY <2>1
    <3>3. Len(out') = 1 /\ out'[1] = "t"
      BY <3>1, <3>2
    <3> QED
      BY <3>3 DEF Passing
  <2> QED
    BY <2>2, <2>3 DEF PassedByPolicy
<1> QED
  BY <1>4, <1>5, <1>6

\* A decision is taken, by whomever.
LEMMA DecisionStep ==
  ASSUME ConnIInv, DefaultAnswer \/ (\E d \in Decisions : PolicyAnswers(d)) \/ PolicyFails
                     \/ (\E b \in BOOLEAN : ProgressFails(b))
  PROVE  ConnIInv'
<1>1. PICK d, who :
        /\ Decided(d, who) /\ IsDecision(d) /\ pc = "evaluate"
        /\ who \in {"default", "policy", "fallback"}
        /\ \/ who = "policy"
           \/ who = "default" /\ pending \notin stages
           \/ who = "fallback" /\ d = Fallback
  <2>1. CASE DefaultAnswer
    BY <2>1, OwnDecisions DEF DefaultAnswer
  <2>2. CASE \E d \in Decisions : PolicyAnswers(d)
    <3>1. PICK d \in Decisions : PolicyAnswers(d)
      BY <2>2
    <3>2. IsDecision(d)
      BY PolicyAssumption DEF IsDecision
    <3> QED
      BY <3>1, <3>2 DEF PolicyAnswers, Evaluating
  <2>3. CASE PolicyFails
    BY <2>3, OwnDecisions DEF PolicyFails, Evaluating
  <2>4. CASE \E b \in BOOLEAN : ProgressFails(b)
    BY <2>4, OwnDecisions DEF ProgressFails, Evaluating
  <2> QED
    BY <2>1, <2>2, <2>3, <2>4
<1>2. /\ torn \in BOOLEAN /\ keepaliveFailed \in BOOLEAN
  BY DEF ConnIInv, ConnTypeOK
<1>3. torn' \in BOOLEAN /\ keepaliveFailed' \in BOOLEAN /\ (torn => torn')
  BY <1>2, Zenon DEF DefaultAnswer, PolicyAnswers, PolicyFails, ProgressFails
<1>4. Standing' /\ out' \in Seq(FinalCodes \cup {"edit"})
  BY <1>1, <1>3, DecidedStanding
<1>5. PassedByPolicy'
  BY <1>1, DecidedPassing
<1>6. /\ Complete(d) /\ pc' = "write" /\ decidedBy' = who
      /\ UNCHANGED <<ended, progress, inbox, wire, stop>>
      /\ UNCHANGED <<mtaPhase, mtaAwaits, mtaMessage, mtaGone>>
  BY <1>1 DEF Decided, mta
<1>7. IInv'
  BY <1>1, <1>6, CompleteStep DEF ConnIInv
<1>8. pending' = "none" /\ error' = error /\ error = "none"
  BY <1>6 DEF Complete, Live
<1>9. ended = "running"
  BY <1>1 DEF ConnIInv, ConnTypeOK
<1>10. Place'
  BY <1>6, <1>8, <1>9 DEF Place
<1>11. ConnTypeOK'
  <2>1. TypeOK'
    BY <1>7 DEF IInv
  <2> QED
    BY <1>1, <1>3, <1>4, <1>6, <1>9, <2>1 DEF ConnIInv, ConnTypeOK
<1> QED
  BY <1>4, <1>5, <1>6, <1>7, <1>8, <1>10, <1>11 DEF ConnIInv, ConformingNeverRefused

\* A keepalive is written while the policy works.
LEMMA ProgressStep ==
  ASSUME ConnIInv, Progress
  PROVE  ConnIInv'
<1>1. /\ pc = "evaluate" /\ progress < MaxProgress /\ progress' = progress + 1
      /\ wire' = Append(wire, IF torn THEN "garbage" ELSE "p")
      /\ UNCHANGED vars /\ UNCHANGED <<pc, ended, out, decidedBy, keepaliveFailed, inbox, torn, stop>>
      /\ UNCHANGED <<mtaPhase, mtaAwaits, mtaMessage, mtaGone>>
  BY DEF Progress, Evaluating, mta
<1>2. UNCHANGED <<state, message, pending, error, stages>>
  BY <1>1 DEF vars
<1>3. Asked
  BY <1>1 DEF ConnIInv, Place, Standing, Quiet, Answered, Broken, Failed
<1>4. PICK c \in {"garbage", "p"} : c = (IF torn THEN "garbage" ELSE "p")
  OBVIOUS
<1>5. wire \in Seq(FinalCodes \cup {"edit", "p", "garbage"}) /\ wire' = Append(wire, c)
  BY <1>1, <1>4 DEF ConnIInv, ConnTypeOK
<1>6. PICK n : n = Len(wire)
  OBVIOUS
<1>7. /\ n \in Nat /\ Len(wire') = n + 1 /\ wire'[n + 1] = c
      /\ \A i \in 1 .. n : wire'[i] = wire[i]
      /\ wire' \in Seq(FinalCodes \cup {"edit", "p", "garbage"})
  BY <1>5, <1>6
<1>8. \A i \in 1 .. n + 1 : wire'[i] = "p" \/ (torn /\ wire'[i] = "garbage")
  <2> TAKE i \in 1 .. n + 1
  <2>1. CASE i \in 1 .. n
    BY <1>3, <1>6, <1>7, <2>1 DEF Asked
  <2>2. CASE i = n + 1
    BY <1>4, <1>7, <2>2
  <2> QED
    BY <1>7, <2>1, <2>2
<1>9. Asked'
  BY <1>1, <1>2, <1>3, <1>7, <1>8 DEF Asked, InStep, Account
<1>10. PassedByPolicy'
  <2>1. out' = <<>>
    BY <1>1, <1>3 DEF Asked
  <2>2. \A i \in 1 .. Len(wire') : wire'[i] \notin Passing
    BY <1>7, <1>8 DEF Passing
  <2> QED
    BY <2>1, <2>2 DEF PassedByPolicy
<1>11. IInv'
  BY <1>1, SessionIdle DEF ConnIInv
<1>12. progress' \in 0 .. MaxProgress
  BY <1>1, ConnectionAssumption DEF ConnIInv, ConnTypeOK
<1>13. ConnTypeOK'
  <2>1. TypeOK'
    BY <1>11 DEF IInv
  <2> QED
    BY <1>1, <1>7, <1>12, <2>1 DEF ConnIInv, ConnTypeOK
<1>14. Place'
  BY <1>1, <1>2 DEF ConnIInv, Place
<1> QED
  BY <1>1, <1>2, <1>9, <1>10, <1>11, <1>13, <1>14 DEF ConnIInv, Standing, ConformingNeverRefused

\* A frame is written: it leaves the frames to write and joins the wire.
LEMMA WriteStanding ==
  ASSUME ConnIInv, WriteFrame
  PROVE  Standing' /\ PassedByPolicy'
<1>1. /\ pc = "write" /\ out # <<>> /\ out' = Tail(out)
      /\ wire' = Append(wire, IF torn THEN "garbage" ELSE Head(out))
      /\ UNCHANGED vars /\ UNCHANGED <<decidedBy, inbox, torn>>
      /\ UNCHANGED <<mtaPhase, mtaAwaits, mtaMessage, mtaGone>>
  BY DEF WriteFrame, mta
<1>2. UNCHANGED <<state, message, pending, error, stages>>
  BY <1>1 DEF vars
<1>3. wire \in Seq(FinalCodes \cup {"edit", "p", "garbage"}) /\ out \in Seq(FinalCodes \cup {"edit"})
  BY DEF ConnIInv, ConnTypeOK
<1>4. PICK n, k : n = Len(wire) /\ k = Len(out)
  OBVIOUS
<1>5. PICK c : c = (IF torn THEN "garbage" ELSE Head(out))
  OBVIOUS
<1>6. /\ n \in Nat /\ Len(wire') = n + 1 /\ wire'[n + 1] = c
      /\ \A i \in 1 .. n : wire'[i] = wire[i]
  BY <1>1, <1>3, <1>4, <1>5
<1>7. k \in Nat \ {0} /\ Len(out') = k - 1 /\ Head(out) = out[1]
  BY <1>1, <1>3, <1>4
<1>8. \A i \in 1 .. k - 1 : out'[i] = out[i + 1]
  BY <1>1, <1>3, <1>4
<1>9. out' \in Seq(FinalCodes \cup {"edit"})
  BY <1>1, <1>3
<1>10. (k = 1 => out' = <<>>) /\ (k # 1 => out' # <<>>) /\ wire' # <<>>
  BY <1>6, <1>7, <1>9
<1>11. Answered \/ Broken
  BY <1>1 DEF ConnIInv, Place, Standing, Quiet, Asked, Failed
<1>12. Standing'
  <2>1. CASE Broken
    <3>1. c = "garbage"
      BY <1>5, <2>1 DEF Broken
    <3>2. \A i \in 1 .. n + 1 : wire'[i] \in Notices \cup {"garbage"}
      <4> TAKE i \in 1 .. n + 1
      <4>1. CASE i \in 1 .. n
        BY <1>4, <1>6, <2>1, <4>1 DEF Broken
      <4>2. CASE i = n + 1
        BY <1>6, <3>1, <4>2
      <4> QED
        BY <1>6, <4>1, <4>2
    <3> QED
      BY <1>1, <1>2, <1>6, <2>1, <3>2 DEF Broken, Standing
  <2>2. CASE Answered
    <3>1. PICK code \in FinalCodes :
            /\ InStep(PhaseOn(code), AccountOn(code))
            /\ \/ EndsWith(out, code) /\ \A i \in 1 .. Len(wire) : wire[i] \in Notices
               \/ out = <<>> /\ EndsWith(wire, code)
      BY <2>2 DEF Answered
    <3>2. InStep(PhaseOn(code), AccountOn(code))'
      BY <1>1, <1>2, <3>1 DEF InStep, Account, PhaseOn, AccountOn
    <3>3. EndsWith(out, code) /\ \A i \in 1 .. n : wire[i] \in Notices
      BY <1>1, <1>4, <3>1
    <3>4. c = out[1]
      BY <1>5, <1>7, <2>2 DEF Answered
    <3>5. CASE k = 1
      <4>1. c = code
        BY <1>4, <3>3, <3>4, <3>5 DEF EndsWith
      <4>2. \A i \in 1 .. (n + 1) - 1 : wire'[i] \in Notices
        BY <1>6, <3>3
      <4>3. EndsWith(wire, code)'
        BY <1>6, <1>10, <4>1, <4>2 DEF EndsWith
      <4> QED
        BY <1>1, <1>2, <1>10, <2>2, <3>2, <3>5, <4>3 DEF Answered, Standing
    <3>6. CASE k # 1
      <4>1. 1 \in 1 .. k - 1
        BY <1>7, <3>6
      <4>2. c \in Notices
        BY <1>4, <3>3, <3>4, <4>1 DEF EndsWith
      <4>3. \A i \in 1 .. n + 1 : wire'[i] \in Notices
        <5> TAKE i \in 1 .. n + 1
        <5>1. CASE i \in 1 .. n
          BY <1>6, <3>3, <5>1
        <5>2. CASE i = n + 1
          BY <1>6, <4>2, <5>2
        <5> QED
          BY <1>6, <5>1, <5>2
      <4>4. out' # <<>> /\ out'[k - 1] = code
        <5>1. k - 1 \in 1 .. k - 1 /\ (k - 1) + 1 = k
          BY <1>7, <3>6
        <5>2. out'[k - 1] = out[k]
          BY <1>8, <5>1
        <5> QED
          BY <1>4, <1>10, <3>3, <3>6, <5>2 DEF EndsWith
      <4>5. \A i \in 1 .. (k - 1) - 1 : out'[i] \in Notices
        <5> TAKE i \in 1 .. (k - 1) - 1
        <5>1. i \in 1 .. k - 1 /\ i + 1 \in 1 .. k - 1
          BY <1>7
        <5> QED
          BY <1>4, <1>8, <3>3, <5>1 DEF EndsWith
      <4>6. EndsWith(out, code)'
        BY <1>7, <4>4, <4>5 DEF EndsWith
      <4> QED
        BY <1>1, <1>2, <1>6, <2>2, <3>2, <4>3, <4>6 DEF Answered, Standing
    <3> QED
      BY <3>5, <3>6
  <2> QED
    BY <1>11, <2>1, <2>2
<1>13. PassedByPolicy'
  <2>1. c \in Passing => out[1] \in Passing
    BY <1>5, <1>7 DEF Passing
  <2>2. ASSUME NEW i \in 1 .. n + 1, wire'[i] \in Passing
        PROVE  \/ \E j \in 1 .. Len(wire) : wire[j] \in Passing
               \/ \E j \in 1 .. Len(out) : out[j] \in Passing
    <3>1. CASE i \in 1 .. n
      BY <1>4, <1>6, <2>2, <3>1
    <3>2. CASE i = n + 1
      <4>1. 1 \in 1 .. Len(out)
        BY <1>4, <1>7
      <4> QED
        BY <1>6, <2>1, <2>2, <3>2, <4>1
    <3> QED
      BY <1>6, <3>1, <3>2
  <2>3. ASSUME NEW i \in 1 .. k - 1, out'[i] \in Passing
        PROVE  \E j \in 1 .. Len(out) : out[j] \in Passing
    <3>1. i + 1 \in 1 .. Len(out)
      BY <1>4, <1>7
    <3> QED
      BY <1>8, <2>3, <3>1
  <2> QED
    BY <1>1, <1>2, <1>6, <1>7, <2>2, <2>3 DEF ConnIInv, PassedByPolicy
<1> QED
  BY <1>12, <1>13

\* The driver writes a frame: it moves from what is still to be written to the wire, garbled
\* if an earlier frame broke off.
LEMMA WriteStep ==
  ASSUME ConnIInv, WriteFrame
  PROVE  ConnIInv'
<1>1. /\ pc = "write" /\ out # <<>> /\ out' = Tail(out)
      /\ wire' = Append(wire, IF torn THEN "garbage" ELSE Head(out))
      /\ UNCHANGED vars /\ UNCHANGED <<pc, ended, progress, decidedBy, keepaliveFailed, inbox, torn, stop>>
      /\ UNCHANGED <<mtaPhase, mtaAwaits, mtaMessage, mtaGone>>
  BY DEF WriteFrame, mta
<1>2. UNCHANGED <<pending, error>>
  BY <1>1 DEF vars
<1>3. wire \in Seq(FinalCodes \cup {"edit", "p", "garbage"}) /\ out \in Seq(FinalCodes \cup {"edit"})
  BY DEF ConnIInv, ConnTypeOK
<1>4. out' \in Seq(FinalCodes \cup {"edit"}) /\ Head(out) \in FinalCodes \cup {"edit"}
  BY <1>1, <1>3
<1>5. wire' \in Seq(FinalCodes \cup {"edit", "p", "garbage"})
  BY <1>1, <1>3, <1>4
<1>6. IInv'
  BY <1>1, SessionIdle DEF ConnIInv
<1>7. Standing' /\ PassedByPolicy'
  BY WriteStanding
<1>8. ended = "running"
  BY <1>1 DEF ConnIInv, ConnTypeOK
<1>9. Place'
  BY <1>1, <1>2, <1>8 DEF ConnIInv, Place
<1>10. ConnTypeOK'
  <2>1. TypeOK'
    BY <1>6 DEF IInv
  <2> QED
    BY <1>1, <1>4, <1>5, <2>1 DEF ConnIInv, ConnTypeOK
<1> QED
  BY <1>1, <1>2, <1>6, <1>7, <1>9, <1>10 DEF ConnIInv, ConformingNeverRefused

\* A write fails and ends the connection, perhaps with part of the frame written.
LEMMA WriteFailsStep ==
  ASSUME ConnIInv, NEW b \in BOOLEAN, WriteFails(b)
  PROVE  ConnIInv'
<1>1. /\ pc = "write" /\ out # <<>> /\ pc' = "done" /\ ended' = "error"
      /\ UNCHANGED vars
      /\ UNCHANGED <<out, progress, decidedBy, keepaliveFailed, inbox, wire, stop>>
      /\ UNCHANGED <<mtaPhase, mtaAwaits, mtaMessage, mtaGone>>
  BY DEF WriteFails, End, mta
<1>2. UNCHANGED <<state, message, pending, error, stages>>
  BY <1>1 DEF vars
<1>3. torn \in BOOLEAN
  BY DEF ConnIInv, ConnTypeOK
<1>4. torn' \in BOOLEAN /\ (torn => torn')
  BY <1>3, Zenon DEF WriteFails
<1>5. Answered \/ Broken
  BY <1>1 DEF ConnIInv, Place, Standing, Quiet, Asked, Failed
<1>6. Standing'
  <2>1. CASE Broken
    BY <1>1, <1>2, <1>4, <2>1 DEF Broken, Standing
  <2>2. CASE Answered /\ ~torn'
    BY <1>1, <1>2, <2>2 DEF Answered, Standing, InStep, Account, PhaseOn, AccountOn
  <2>3. CASE Answered /\ torn'
    <3>1. \A i \in 1 .. Len(wire) : wire[i] \in Notices
      BY <1>1, <2>3 DEF Answered
    <3> QED
      BY <1>1, <1>2, <2>3, <3>1 DEF Answered, Broken, Standing
  <2> QED
    BY <1>5, <2>1, <2>2, <2>3
<1>7. PassedByPolicy'
  BY <1>1, <1>2 DEF ConnIInv, PassedByPolicy
<1>8. IInv'
  BY <1>1, SessionIdle DEF ConnIInv
<1>9. Place'
  BY <1>1, <1>2 DEF ConnIInv, Place
<1>10. ConnTypeOK'
  <2>1. TypeOK'
    BY <1>8 DEF IInv
  <2> QED
    BY <1>1, <1>4, <2>1 DEF ConnIInv, ConnTypeOK
<1> QED
  BY <1>1, <1>2, <1>6, <1>7, <1>8, <1>9, <1>10 DEF ConnIInv, ConformingNeverRefused

-----------------------------------------------------------------------------
(* The theorems. *)

\* The connection starts quiet, with both sides at the beginning.
LEMMA InitConnIInv == ConnInit => ConnIInv
<1> SUFFICES ASSUME ConnInit PROVE ConnIInv
  OBVIOUS
<1>1. IInv
  BY InitIInv DEF ConnInit
<1>2. /\ state = "Initial" /\ message = EmptyMessage /\ pending = "none" /\ error = "none"
      /\ pc = "read" /\ ended = "running" /\ out = <<>> /\ inbox = <<>> /\ wire = <<>>
      /\ torn = FALSE /\ stop = FALSE /\ progress = 0 /\ decidedBy = "nobody"
      /\ keepaliveFailed = FALSE /\ mtaPhase = "start" /\ mtaAwaits = Nothing
      /\ mtaMessage = EmptyAccount /\ mtaGone = FALSE
  BY DEF ConnInit, Init
<1>3. InStep("start", EmptyAccount)
  BY <1>2 DEF InStep, Account, EmptyAccount, EmptyMessage
<1>4. Ahead = 0
  BY <1>2 DEF Ahead
<1>5. PICK p, a : p = [i \in {0} |-> "start"] /\ a = [i \in {0} |-> EmptyAccount]
  OBVIOUS
<1>6. p[0] = "start" /\ a[0] = EmptyAccount
  BY <1>5
<1>7. Path(p, a)
  BY <1>2, <1>3, <1>4, <1>6 DEF Path
<1>8. Quiet
  BY <1>2, <1>7 DEF Quiet
<1>9. mtaMessage \in AccountType
  BY <1>2 DEF EmptyAccount, AccountType
<1>10. ConnTypeOK
  <2>1. TypeOK
    BY <1>1 DEF IInv
  <2>2. /\ inbox \in Seq(Commands) /\ Len(inbox) <= MaxInFlight
        /\ out \in Seq(FinalCodes \cup {"edit"})
        /\ wire \in Seq(FinalCodes \cup {"edit", "p", "garbage"})
    BY <1>2, ConnectionAssumption
  <2>3. progress \in 0 .. MaxProgress
    BY <1>2, ConnectionAssumption
  <2> QED
    BY <1>2, <2>1, <2>2, <2>3 DEF ConnTypeOK
<1>11. Place
  BY <1>2 DEF Place
<1>12. PassedByPolicy
  BY <1>2 DEF PassedByPolicy
<1> QED
  BY <1>1, <1>2, <1>8, <1>9, <1>10, <1>11, <1>12 DEF ConnIInv, Standing, ConformingNeverRefused

\* A step that changes nothing preserves the invariant.
LEMMA ConnStutter ==
  ASSUME ConnIInv, UNCHANGED connVars
  PROVE  ConnIInv'
<1>1. /\ UNCHANGED vars /\ UNCHANGED streams /\ UNCHANGED stop
      /\ UNCHANGED <<pc, ended, out, progress, decidedBy, keepaliveFailed>>
      /\ UNCHANGED <<mtaPhase, mtaAwaits, mtaMessage, mtaGone>>
  BY DEF connVars, driver, mta
<1>2. UNCHANGED <<inbox, wire, torn, pending, error>>
  BY <1>1 DEF streams, vars
<1>3. IInv'
  BY <1>1, SessionIdle DEF ConnIInv
<1>4. Standing' /\ PassedByPolicy' /\ (CurrentVersion => ConformingNeverRefused')
  BY <1>1, StandingIdle DEF ConnIInv, Place
<1>5. Place'
  BY <1>1, <1>2 DEF ConnIInv, Place
<1>6. ConnTypeOK'
  <2>1. TypeOK'
    BY <1>3 DEF IInv
  <2> QED
    BY <1>1, <1>2, <2>1 DEF ConnIInv, ConnTypeOK
<1> QED
  BY <1>1, <1>3, <1>4, <1>5, <1>6 DEF ConnIInv

\* Every step of the driver, the MTA and the server preserves the invariant.
LEMMA NextConnIInv == ConnIInv /\ [ConnNext]_connVars => ConnIInv'
<1> SUFFICES ASSUME ConnIInv, [ConnNext]_connVars PROVE ConnIInv'
  OBVIOUS
<1>1. CASE Driver
  <2>1. CASE StopAtRead \/ FirstByte \/ EndOfStream \/ ReadFails \/ Written
    BY <2>1, DriverStep
  <2>2. CASE RestOfFrame
    BY <2>2, FrameStep
  <2>3. CASE \/ DefaultAnswer \/ (\E d \in Decisions : PolicyAnswers(d)) \/ PolicyFails
             \/ (\E b \in BOOLEAN : ProgressFails(b))
    BY <2>3, DecisionStep
  <2>4. CASE Progress
    BY <2>4, ProgressStep
  <2>5. CASE WriteFrame
    BY <2>5, WriteStep
  <2>6. CASE \E b \in BOOLEAN : WriteFails(b)
    BY <2>6, WriteFailsStep
  <2> QED
    BY <1>1, <2>1, <2>2, <2>3, <2>4, <2>5, <2>6 DEF Driver
<1>2. CASE \E cmd \in Commands : MtaSends(cmd)
  BY <1>2, SendStep
<1>3. CASE MtaReceives
  BY <1>3, ReceiveStep
<1>4. CASE MtaDisappears \/ Shutdown
  BY <1>4, OutsideStep
<1>5. CASE Aborted
  BY <1>5, DriverStep
<1>6. CASE UNCHANGED connVars
  BY <1>6, ConnStutter
<1> QED
  BY <1>1, <1>2, <1>3, <1>4, <1>5, <1>6 DEF ConnNext, Mta

\* The session, the driver and the MTA stay in correspondence in every behaviour of a
\* connection (handle_connection around Session).
THEOREM ConnInvariant == ConnSpec => []ConnIInv
<1> QED
  BY InitConnIInv, NextConnIInv, PTL DEF ConnSpec

\* Every variable of the connection keeps its type.
THEOREM ConnTypeCorrect == ConnSpec => []ConnTypeOK
<1>1. ConnIInv => ConnTypeOK
  BY DEF ConnIInv
<1> QED
  BY <1>1, ConnInvariant, PTL

\* What is on its way to the MTA is for the command it waits on, with at most one final
\* reply, and that one last: keepalives and replies never interleave (handle_connection,
\* evaluate_with_progress).
THEOREM RepliesNeverInterleave == ConnSpec => []OneReplyPerCommand
<1>1. ConnIInv => OneReplyPerCommand
  <2> SUFFICES ASSUME ConnIInv, ~torn PROVE
        LET under == wire \o out
            finals == {i \in DOMAIN under : under[i] \in FinalCodes}
        IN  /\ under # <<>> => mtaAwaits # Nothing
            /\ \A i \in finals : i = Len(under)
            /\ finals # {} => pending = "none"
    BY DEF OneReplyPerCommand
  <2> DEFINE under == wire \o out
             n == Len(wire)
             k == Len(out)
  <2>1. /\ wire \in Seq(FinalCodes \cup {"edit", "p", "garbage"})
        /\ out \in Seq(FinalCodes \cup {"edit", "p", "garbage"})
    BY DEF ConnIInv, ConnTypeOK
  <2>2. /\ n \in Nat /\ k \in Nat /\ DOMAIN under = 1 .. n + k /\ Len(under) = n + k
        /\ \A i \in 1 .. n : under[i] = wire[i]
        /\ \A i \in n + 1 .. n + k : under[i] = out[i - n]
    BY <2>1
  <2>3. wire = <<>> /\ out = <<>> => under = <<>> /\ n = 0 /\ k = 0
    BY <2>1
  <2>4. CASE Quiet \/ Failed
    <3>1. wire = <<>> /\ out = <<>>
      BY <2>4 DEF Quiet, Failed
    <3>2. under = <<>> /\ DOMAIN under = {}
      BY <2>2, <2>3, <3>1
    <3> QED
      BY <3>2
  <2>5. CASE Asked
    <3>1. mtaAwaits # Nothing
      BY <2>5, NothingIsNone DEF Asked
    <3>2. k = 0 /\ \A i \in 1 .. n : wire[i] \notin FinalCodes
      BY <2>1, <2>5 DEF Asked, FinalCodes
    <3>3. \A i \in DOMAIN under : under[i] \notin FinalCodes
      BY <2>2, <3>2
    <3> HIDE DEF under
    <3> QED
      BY <3>1, <3>3 DEF under
  <2>6. CASE Answered
    <3>1. mtaAwaits # Nothing /\ pending = "none"
      BY <2>6, NothingIsNone DEF Answered
    <3>2. \A i \in DOMAIN under : under[i] \in FinalCodes => i = n + k
      <4> TAKE i \in DOMAIN under
      <4>1. Notices \cap FinalCodes = {}
        BY DEF Notices, FinalCodes
      <4>2. CASE out = <<>>
        <5>1. k = 0 /\ \A j \in 1 .. n - 1 : wire[j] \in Notices
          BY <2>2, <2>3, <2>6, <4>2 DEF Answered, EndsWith
        <5> QED
          BY <2>2, <4>1, <5>1
      <4>3. CASE out # <<>>
        <5>1. /\ \A j \in 1 .. n : wire[j] \in Notices
              /\ \A j \in 1 .. k - 1 : out[j] \in Notices
          BY <2>6, <4>3 DEF Answered, EndsWith
        <5>2. CASE i \in 1 .. n
          BY <2>2, <4>1, <5>1, <5>2
        <5>3. CASE i \in n + 1 .. n + k /\ i # n + k
          <6>1. i - n \in 1 .. k - 1
            BY <2>2, <5>3
          <6> QED
            BY <2>2, <4>1, <5>1, <5>3, <6>1
        <5> QED
          BY <2>2, <5>2, <5>3
      <4> QED
        BY <4>2, <4>3
    <3> HIDE DEF under, n, k
    <3> QED
      BY <2>2, <3>1, <3>2 DEF under
  <2> HIDE DEF under, n, k
  <2> QED
    BY <2>4, <2>5, <2>6 DEF ConnIInv, Standing, Broken, under
<1> QED
  BY <1>1, ConnInvariant, PTL

\* The policy is asked about exactly the message the MTA holds.
THEOREM MessagesAgree == ConnSpec => []MessageAgreement
<1>1. ConnIInv => MessageAgreement
  <2> SUFFICES ASSUME ConnIInv, pc = "evaluate", pending = "EndMessage"
               PROVE  mtaMessage = Account
    BY DEF MessageAgreement, Account
  <2>1. Asked
    BY DEF ConnIInv, Standing, Quiet, Answered, Broken, Failed
  <2>2. state = "Body"
    BY DEF ConnIInv, IInv, CallbackHasContext
  <2> QED
    BY <2>1, <2>2 DEF Asked, InStep
<1> QED
  BY <1>1, ConnInvariant, PTL

\* An MTA that speaks the milter's version, and keeps to the order of the protocol, is
\* never refused for a command out of sequence.
THEOREM ConformingIsServed ==
  ASSUME CurrentVersion
  PROVE  ConnSpec => []ConformingNeverRefused
<1>1. ConnIInv => ConformingNeverRefused
  BY DEF ConnIInv
<1> QED
  BY <1>1, ConnInvariant, PTL

\* With fail_open off, only the policy's own decision lets a message pass an end of
\* message it subscribed to.
THEOREM FailsClosed == ConnSpec => []FailClosed
<1>1. ConnIInv => FailClosed
  <2>1. ConnIInv => DOMAIN wire = 1 .. Len(wire)
    BY DEF ConnIInv, ConnTypeOK
  <2> QED
    BY <2>1 DEF ConnIInv, PassedByPolicy, FailClosed, Passing
<1> QED
  BY <1>1, ConnInvariant, PTL

\* A graceful stop leaves no command that was read unanswered.
THEOREM StopsKeepReplies == ConnSpec => []StopKeepsReplies
<1>1. ConnIInv => StopKeepsReplies
  BY DEF ConnIInv, IInv, ReplyBalance, Place, StopKeepsReplies
<1> QED
  BY <1>1, ConnInvariant, PTL
=============================================================================
