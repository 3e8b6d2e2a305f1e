--------------------------- MODULE MilterSession ---------------------------
(***************************************************************************)
(* The milter session state machine of one MTA connection                  *)
(* (src/src/session.rs).  The driver feeds it the MTA's commands           *)
(* (Session::receive) and the policy's decisions (Session::complete); it   *)
(* answers with the frames to write and, for a subscribed stage, leaves a  *)
(* callback pending.                                                       *)
(*                                                                         *)
(* Opcodes and reply codes are the protocol's own letters.  The            *)
(* "no reply" bit of opcode c is the element c of options.protocol;        *)
(* "space" stands for HEADER_LEADING_SPACE.  Addresses, header fields,     *)
(* body pieces and macro batches keep their identity and their size.       *)
(***************************************************************************)
EXTENDS MilterModifications, FiniteSets

CONSTANTS
  MessageBytes, EnvelopeBytes, FrameBytes, MacroBytes,    \* Limits, in bytes
  MaxHeaders, MaxRecipients, MaxModifications,            \* Limits, in items
  Subscriptions,   \* the stage sets a policy may subscribe to
  WantedActions,   \* the policy's wanted_actions, within SUPPORTED_ACTIONS
  Offers,          \* what MTAs offer: [version, actions, protocol]
  Envelopes,       \* MAIL/RCPT arguments: [id, bytes], bytes as accounted
  HeaderFields,    \* header fields: [bytes, fold]
  BodySizes,       \* bytes of one BODY command
  BatchSizes,      \* bytes of one macro batch
  Decisions        \* policy answers: [verdict, mods, code, text, clean]

Stages == {"Connect", "Helo", "Mail", "Recipient", "EndMessage"}
States == {"Initial", "Negotiated", "Ready", "Mail", "Recipients", "Data",
           "Headers", "Body", "Stopped", "Closed"}
InTransaction == {"Mail", "Recipients", "Data", "Headers", "Body"}

MacroStages == {"C", "H", "M", "R", "T", "U", "N", "E", "L", "B"}
ConnectionMacros == {"C", "H"}
RepliedOps == {"C", "H", "M", "R", "T", "U", "L", "N", "B"}
ProtocolBits == RepliedOps \cup {"space"}
StageOp == [Connect |-> "C", Helo |-> "H", Mail |-> "M", Recipient |-> "R"]
MilterVersion == 6

Verdicts == {"Continue", "Accept", "Reject", "Tempfail", "Discard", "Reply", "Shutdown"}

ASSUME LimitsAssumption ==
  /\ MessageBytes \in Nat /\ EnvelopeBytes \in Nat /\ MacroBytes \in Nat
  /\ FrameBytes \in Nat \ {0}
  /\ MaxHeaders \in Nat /\ MaxRecipients \in Nat /\ MaxModifications \in Nat
ASSUME PolicyAssumption ==
  /\ Subscriptions \subseteq SUBSET Stages
  /\ WantedActions \subseteq ActionBits
  /\ \A d \in Decisions :
       /\ d.verdict \in Verdicts /\ d.code \in Nat /\ d.text \in Nat
       /\ d.clean \in BOOLEAN /\ d.mods \in Seq(Modifications)
ASSUME MtaAssumption ==
  /\ \A o \in Offers : /\ o.version \in Nat
                       /\ o.actions \subseteq ActionBits
                       /\ o.protocol \subseteq ProtocolBits
  /\ \A e \in Envelopes : e.bytes \in Nat /\ e.id # "none"
  /\ \A h \in HeaderFields : h.bytes \in Nat /\ h.fold \in BOOLEAN
  /\ BodySizes \subseteq Nat /\ BatchSizes \subseteq Nat

VARIABLES
  stages,         \* the stages the policy subscribed to
  state,          \* Session.state
  options,        \* negotiated actions and protocol bits, empty before O
  connection,     \* connection metadata is present
  helo,           \* the HELO argument is present
  message,        \* the Message of the current transaction
  macros,         \* active macro batches, by stage
  pendingMacros,  \* batches received for a command not yet received
  pending,        \* the stage whose callback has no decision yet, or "none"
  frames,         \* what the last receive or complete returned: edits, then a reply
  error,          \* the error receive returned; the caller then drops the session
  owed            \* history: replies the MTA is waiting for

vars == <<stages, state, options, connection, helo, message, macros,
          pendingMacros, pending, frames, error, owed>>
context == <<stages, options>>

-----------------------------------------------------------------------------
(* Macro batches: the two BTreeMaps are functions on a set of stages. *)

NoBatches == [s \in {} |-> 0]
Put(f, k, v) == [x \in DOMAIN f \cup {k} |-> IF x = k THEN v ELSE f[x]]
Retain(f, S) == [x \in DOMAIN f \cap S |-> f[x]]
Remove(f, k) == Retain(f, DOMAIN f \ {k})

\* activate_macros: the batch announced for the command replaces the active one; a
\* command without a batch drops it.
Activated(active, waiting, op) ==
  IF op \in DOMAIN waiting THEN Put(active, op, waiting[op]) ELSE Remove(active, op)

MacroTotal(active, waiting) == SumFunction(active) + SumFunction(waiting)

-----------------------------------------------------------------------------
(* The message. *)

NoSender == [id |-> "none", bytes |-> 0]
EmptyMessage == [sender |-> NoSender, recipients |-> <<>>, headers |-> <<>>,
                 body |-> 0, bytes |-> 0, envelopeBytes |-> 0]

LeadingSpace == "space" \in options.protocol

\* What raw_message adds to a field besides its bytes: the colon, CRLF and, unless the
\* value already carries its whitespace or starts with a fold, one space.
RawFieldBytes(h) == h.bytes + 3 + (IF LeadingSpace \/ h.fold THEN 0 ELSE 1)
RawBytes == SumFunction([i \in DOMAIN message.headers |-> RawFieldBytes(message.headers[i])])
              + 2 + message.body

-----------------------------------------------------------------------------
(* Commands of the MTA; "malformed" is a frame Command::decode refuses. *)

NoArgument == [bytes |-> 0]
Commands ==
  [op : {"O"}, arg : Offers]
    \cup [op : {"D"}, arg : [stage : MacroStages, bytes : BatchSizes]]
    \cup [op : {"M", "R"}, arg : Envelopes]
    \cup [op : {"L"}, arg : HeaderFields]
    \cup [op : {"B"}, arg : [bytes : BodySizes]]
    \cup [op : {"C", "H", "T", "N", "E", "A", "K", "Q", "U", "malformed"}, arg : {NoArgument}]

\* Fault: HELO is let through before CONNECT.
HeloBeforeConnect(op) ==
  CASE op = "O" -> {"Initial"}
    [] op = "C" -> {"Negotiated"}
    [] op = "H" -> {"Negotiated", "Ready"}
    [] op = "M" -> {"Ready"}
    [] op = "R" -> {"Mail", "Recipients"}
    [] op = "T" -> {"Recipients"}
    [] op \in {"L", "N"} -> {"Data", "Headers"}
    [] op \in {"B", "E"} -> {"Body"}
    [] op \in {"D", "A", "K", "Q", "U"} -> States \ {"Initial", "Closed"}
    [] OTHER -> {}

\* Fault: a message without header fields is not expected.
HeadersRequired(op) ==
  CASE op = "O" -> {"Initial"}
    [] op = "C" -> {"Negotiated"}
    [] op \in {"H", "M"} -> {"Ready"}
    [] op = "R" -> {"Mail", "Recipients"}
    [] op = "T" -> {"Recipients"}
    [] op = "L" -> {"Data", "Headers"}
    [] op = "N" -> {"Headers"}
    [] op \in {"B", "E"} -> {"Body"}
    [] op \in {"D", "A", "K", "Q", "U"} -> States \ {"Initial", "Closed"}
    [] OTHER -> {}

\* The states in which receive accepts a command (require, and the tests before it).
RequiredStates(op) ==
  CASE op = "O" -> {"Initial"}
    [] op = "C" -> {"Negotiated"}
    [] op = "H" -> {"Ready"}
    [] op = "M" -> {"Ready"}
    [] op = "R" -> {"Mail", "Recipients"}
    [] op = "T" -> {"Recipients"}
    [] op = "L" -> {"Data", "Headers"}
    [] op = "N" -> {"Data", "Headers"}
    [] op = "B" -> {"Body"}
    [] op = "E" -> {"Body"}
    [] op \in {"D", "A", "K", "Q", "U"} -> States \ {"Initial", "Closed"}
    [] OTHER -> {}

FitsMessage(n) == message.bytes + n <= MessageBytes
FitsEnvelope(used, e) == used + e.bytes <= EnvelopeBytes

\* Fault: only the waiting batches are counted against the macro limit.
ActiveMacrosUncounted(batch) ==
  SumFunction(Put(pendingMacros, batch.stage, batch.bytes)) <= MacroBytes

MacrosFit(batch) ==
  MacroTotal(macros, Put(pendingMacros, batch.stage, batch.bytes)) <= MacroBytes

\* Fault: neither the number nor the bytes of the recipients are limited.
RecipientsUnlimited(e) == TRUE

RecipientFits(e) == /\ FitsEnvelope(message.envelopeBytes, e)
                    /\ Len(message.recipients) < MaxRecipients

\* Fault: the header count is tested with <= instead of <.
HeadersOffByOne(h) == Len(message.headers) <= MaxHeaders /\ FitsMessage(h.bytes + 4)

HeaderFits(h) == Len(message.headers) < MaxHeaders /\ FitsMessage(h.bytes + 4)

\* The limits receive enforces on a command it would otherwise accept.
WithinLimits(cmd) ==
  CASE cmd.op = "O" -> cmd.arg.version >= MilterVersion
    [] cmd.op = "D" -> MacrosFit(cmd.arg)
    [] cmd.op = "M" -> FitsEnvelope(0, cmd.arg)
    [] cmd.op = "R" -> RecipientFits(cmd.arg)
    [] cmd.op = "L" -> HeaderFits(cmd.arg)
    [] cmd.op = "N" -> FitsMessage(2)
    [] cmd.op = "B" -> FitsMessage(cmd.arg.bytes)
    [] OTHER -> TRUE

Accepted(cmd) == /\ pending = "none"
                 /\ state \in RequiredStates(cmd.op)
                 /\ WithinLimits(cmd)

(***************************************************************************)
(* The frames of a step, kept as the modifications they serialise followed *)
(* by the one reply frame, or NoReply.                                     *)
(***************************************************************************)
NoReply == EmptyFrame("none")
Silence == [edits |-> <<>>, reply |-> NoReply]
Answer(c) == [edits |-> <<>>, reply |-> EmptyFrame(c)]

\* The MTA's side of the agreement: a negotiation and an end of message are always
\* answered, other commands unless their "no reply" bit was agreed on.
MtaAwaits(op) == \/ op \in {"O", "E"}
                 \/ op \in RepliedOps /\ op \notin options.protocol

-----------------------------------------------------------------------------
(* The parts receive and complete share. *)

\* The end of receive: a subscribed stage (and every end of message) leaves a callback
\* pending, any other command is answered unless its "no reply" bit was agreed on.
Conclude(op, stage) ==
  LET event == IF stage = "EndMessage" \/ stage \in stages THEN stage ELSE "none"
      reply == event = "none" /\ op \in RepliedOps /\ op \notin options.protocol
  IN  /\ pending' = event
      /\ frames' = IF reply THEN Answer("c") ELSE Silence
      /\ owed' = owed + (IF MtaAwaits(op) THEN 1 ELSE 0) - (IF reply THEN 1 ELSE 0)

ActivateMacros(op) == /\ macros' = Activated(macros, pendingMacros, op)
                      /\ pendingMacros' = Remove(pendingMacros, op)

\* Fault: the reset forgets the batches announced for commands not yet received.
ResetKeepsWaiting == /\ message' = EmptyMessage
                     /\ macros' = Retain(macros, ConnectionMacros)
                     /\ UNCHANGED pendingMacros

\* Fault: the reset keeps the active batches.
ResetKeepsActive == /\ message' = EmptyMessage
                    /\ pendingMacros' = Retain(pendingMacros, ConnectionMacros)
                    /\ UNCHANGED macros

\* reset_message, except for pending, which each caller sets.
ResetMessage == /\ message' = EmptyMessage
                /\ macros' = Retain(macros, ConnectionMacros)
                /\ pendingMacros' = Retain(pendingMacros, ConnectionMacros)

-----------------------------------------------------------------------------
(* Session::receive, one action per command. *)

Live == error = "none"
Takes(cmd, op) == cmd.op = op /\ Live /\ Accepted(cmd)

\* Fault: replies are suppressed for the stages the policy answers too.
AgreedEverything(offered) == offered

AgreedProtocol(offered) ==
  offered \cap ({"L", "T", "U", "N", "B", "space"}
                  \cup {StageOp[s] : s \in DOMAIN StageOp \ stages})

Negotiate(cmd) ==
  /\ Takes(cmd, "O")
  /\ options' = [actions |-> cmd.arg.actions \cap WantedActions,
                 protocol |-> AgreedProtocol(cmd.arg.protocol)]
  /\ state' = "Negotiated"
  /\ frames' = Answer("O")
  /\ UNCHANGED <<stages, connection, helo, message, macros, pendingMacros,
                 pending, error, owed>>

Macro(cmd) ==
  /\ Takes(cmd, "D")
  /\ pendingMacros' = Put(pendingMacros, cmd.arg.stage, cmd.arg.bytes)
  /\ frames' = Silence
  /\ UNCHANGED <<context, state, connection, helo, message, macros, pending, error, owed>>

Connect(cmd) ==
  /\ Takes(cmd, "C")
  /\ connection' = TRUE
  /\ state' = "Ready"
  /\ ActivateMacros("C")
  /\ Conclude("C", "Connect")
  /\ UNCHANGED <<context, helo, message, error>>

Helo(cmd) ==
  /\ Takes(cmd, "H")
  /\ helo' = TRUE
  /\ ActivateMacros("H")
  /\ Conclude("H", "Helo")
  /\ UNCHANGED <<context, state, connection, message, error>>

\* MAIL resets the transaction but keeps the batch already announced for it.
Mail(cmd) ==
  /\ Takes(cmd, "M")
  /\ message' = [EmptyMessage EXCEPT !.sender = cmd.arg, !.envelopeBytes = cmd.arg.bytes]
  /\ macros' = Activated(Retain(macros, ConnectionMacros),
                         Retain(pendingMacros, ConnectionMacros \cup {"M"}), "M")
  /\ pendingMacros' = Retain(pendingMacros, ConnectionMacros)
  /\ state' = "Mail"
  /\ Conclude("M", "Mail")
  /\ UNCHANGED <<context, connection, helo, error>>

Recipient(cmd) ==
  /\ Takes(cmd, "R")
  /\ message' = [message EXCEPT !.recipients = Append(@, cmd.arg),
                                !.envelopeBytes = @ + cmd.arg.bytes]
  /\ state' = "Recipients"
  /\ ActivateMacros("R")
  /\ Conclude("R", "Recipient")
  /\ UNCHANGED <<context, connection, helo, error>>

Data(cmd) ==
  /\ Takes(cmd, "T")
  /\ state' = "Data"
  /\ ActivateMacros("T")
  /\ Conclude("T", "none")
  /\ UNCHANGED <<context, connection, helo, message, error>>

\* Fault: a header is charged for its colon and line end only, not for the added space.
HeaderUndercharged(cmd) ==
  /\ Takes(cmd, "L")
  /\ message' = [message EXCEPT !.headers = Append(@, cmd.arg),
                                !.bytes = @ + cmd.arg.bytes + 3]
  /\ state' = "Headers"
  /\ ActivateMacros("L")
  /\ Conclude("L", "none")
  /\ UNCHANGED <<context, connection, helo, error>>

Header(cmd) ==
  /\ Takes(cmd, "L")
  /\ message' = [message EXCEPT !.headers = Append(@, cmd.arg),
                                !.bytes = @ + cmd.arg.bytes + 4]
  /\ state' = "Headers"
  /\ ActivateMacros("L")
  /\ Conclude("L", "none")
  /\ UNCHANGED <<context, connection, helo, error>>

EndHeaders(cmd) ==
  /\ Takes(cmd, "N")
  /\ message' = [message EXCEPT !.bytes = @ + 2]
  /\ state' = "Body"
  /\ ActivateMacros("N")
  /\ Conclude("N", "none")
  /\ UNCHANGED <<context, connection, helo, error>>

Body(cmd) ==
  /\ Takes(cmd, "B")
  /\ message' = [message EXCEPT !.body = @ + cmd.arg.bytes, !.bytes = @ + cmd.arg.bytes]
  /\ ActivateMacros("B")
  /\ Conclude("B", "none")
  /\ UNCHANGED <<context, state, connection, helo, error>>

EndMessage(cmd) ==
  /\ Takes(cmd, "E")
  /\ ActivateMacros("E")
  /\ Conclude("E", "EndMessage")
  /\ UNCHANGED <<context, state, connection, helo, message, error>>

\* Fault: an abort after the connection was refused makes the session ready again.
AbortRevives(cmd) ==
  /\ Takes(cmd, "A")
  /\ ResetMessage
  /\ state' = IF connection THEN "Ready" ELSE state
  /\ Conclude("A", "none")
  /\ UNCHANGED <<context, connection, helo, error>>

Abort(cmd) ==
  /\ Takes(cmd, "A")
  /\ ResetMessage
  /\ state' = IF connection /\ state # "Stopped" THEN "Ready" ELSE state
  /\ Conclude("A", "none")
  /\ UNCHANGED <<context, connection, helo, error>>

QuitNewConnection(cmd) ==
  /\ Takes(cmd, "K")
  /\ message' = EmptyMessage
  /\ connection' = FALSE
  /\ helo' = FALSE
  /\ macros' = NoBatches
  /\ pendingMacros' = NoBatches
  /\ state' = "Negotiated"
  /\ Conclude("K", "none")
  /\ UNCHANGED <<context, error>>

Quit(cmd) ==
  /\ Takes(cmd, "Q")
  /\ ResetMessage
  /\ state' = "Closed"
  /\ Conclude("Q", "none")
  /\ UNCHANGED <<context, connection, helo, error>>

Unknown(cmd) ==
  /\ Takes(cmd, "U")
  /\ ActivateMacros("U")
  /\ Conclude("U", "none")
  /\ UNCHANGED <<context, state, connection, helo, message, error>>

\* receive returns Err.  Its only caller gives up the session at once, so what the code
\* had already assigned before the failing test is never read again.
Refuse(cmd) ==
  /\ Live
  /\ ~Accepted(cmd)
  /\ error' = IF pending # "none" \/ state \in {"Initial", "Closed"} \/ cmd.op = "malformed"
              THEN "invalid"
              ELSE IF state \in RequiredStates(cmd.op) THEN "limit" ELSE "sequence"
  /\ frames' = Silence
  /\ UNCHANGED <<context, state, connection, helo, message, macros, pendingMacros,
                 pending, owed>>

Receive(cmd) ==
  \/ Negotiate(cmd) \/ Macro(cmd) \/ Connect(cmd) \/ Helo(cmd) \/ Mail(cmd)
  \/ Recipient(cmd) \/ Data(cmd) \/ Header(cmd) \/ EndHeaders(cmd) \/ Body(cmd)
  \/ EndMessage(cmd) \/ Abort(cmd) \/ QuitNewConnection(cmd) \/ Quit(cmd)
  \/ Unknown(cmd) \/ Refuse(cmd)

-----------------------------------------------------------------------------
(* Session::complete. *)

Rejecting == {"Reject", "Tempfail", "Reply", "Shutdown"}
Finishing == {"Accept", "Discard"}

EditFrames(mods, k) ==
  LET upTo[n \in 0 .. Len(mods)] ==
        IF n = 0 THEN <<>> ELSE upTo[n - 1] \o ModificationFrames(mods[n], LeadingSpace)
  IN  upTo[k]

\* Fault: each modification is checked alone, not on top of the ones before it.
EditsCheckedAlone(mods, k) ==
  /\ Capability(mods[k]) \in options.actions
  /\ PayloadBytes(mods[k], LeadingSpace) <= MessageBytes
  /\ Serializable(mods[k], LeadingSpace)

EditValid(mods, k) ==
  /\ Capability(mods[k]) \in options.actions
  /\ TotalLength(EditFrames(mods, k - 1)) + PayloadBytes(mods[k], LeadingSpace) <= MessageBytes
  /\ Serializable(mods[k], LeadingSpace)
  /\ \A i \in DOMAIN ModificationFrames(mods[k], LeadingSpace) :
       ModificationFrames(mods[k], LeadingSpace)[i].len + 1 <= FrameBytes
  /\ TotalLength(EditFrames(mods, k)) <= MessageBytes

FinalFrame(d) ==
  CASE d.verdict = "Continue" -> EmptyFrame("c")
    [] d.verdict = "Accept"   -> EmptyFrame("a")
    [] d.verdict = "Reject"   -> EmptyFrame("r")
    [] d.verdict = "Tempfail" -> EmptyFrame("t")
    [] d.verdict = "Discard"  -> EmptyFrame("d")
    [] d.verdict = "Reply"    -> [cmd |-> "y", len |-> d.text]
    [] d.verdict = "Shutdown" -> EmptyFrame("4")

\* complete returns Ok; otherwise it has changed nothing.
DecisionValid(d) ==
  /\ d.mods # <<>> => pending = "EndMessage"
  /\ Len(d.mods) <= MaxModifications
  /\ \A k \in DOMAIN d.mods : EditValid(d.mods, k)
  /\ d.verdict = "Reply" => d.code \in 400 .. 599 /\ d.clean
  /\ FinalFrame(d).len + 1 <= FrameBytes

\* Fault: the edits of a refused message are sent all the same.
EditsAlways(d) == [edits |-> d.mods, reply |-> FinalFrame(d)]

\* An unaccepted message is never edited.
DecisionFrames(d) ==
  [edits |-> IF d.verdict \in Rejecting \cup {"Discard"} THEN <<>> ELSE d.mods,
   reply |-> FinalFrame(d)]

DropLast(s) == SubSeq(s, 1, Len(s) - 1)

\* Fault: a refused recipient gives its bytes back to the envelope budget.
RefundRecipient ==
  /\ message' = [message EXCEPT !.recipients = DropLast(@),
                   !.envelopeBytes = @ - message.recipients[Len(message.recipients)].bytes]
  /\ state' = IF Len(message.recipients) = 1 THEN "Mail" ELSE "Recipients"
  /\ UNCHANGED <<macros, pendingMacros>>

\* Fault: a refused recipient always leaves the session collecting recipients.
StayInRecipients ==
  /\ message' = [message EXCEPT !.recipients = DropLast(@)]
  /\ UNCHANGED <<state, macros, pendingMacros>>

\* Fault: a refused recipient stays in the list.
KeepRefusedRecipient == UNCHANGED <<state, message, macros, pendingMacros>>

RefuseRecipient ==
  /\ message' = [message EXCEPT !.recipients = DropLast(@)]
  /\ state' = IF Len(message.recipients) = 1 THEN "Mail" ELSE "Recipients"
  /\ UNCHANGED <<macros, pendingMacros>>

\* What the verdict does to the session, in the order of the code's tests.
ApplyVerdict(d) ==
  IF d.verdict = "Shutdown" THEN
    /\ ResetMessage
    /\ state' = "Stopped"
  ELSE IF d.verdict \in Rejecting /\ pending = "Recipient" THEN
    RefuseRecipient
  ELSE IF d.verdict \in Rejecting /\ pending \in {"Connect", "Helo"} THEN
    /\ state' = "Stopped"
    /\ UNCHANGED <<message, macros, pendingMacros>>
  ELSE IF pending = "EndMessage" \/ d.verdict \in Rejecting \cup Finishing THEN
    /\ ResetMessage
    /\ state' = "Ready"
  ELSE UNCHANGED <<state, message, macros, pendingMacros>>

Complete(d) ==
  /\ Live
  /\ pending # "none"
  /\ DecisionValid(d)
  /\ frames' = DecisionFrames(d)
  /\ ApplyVerdict(d)
  /\ pending' = "none"
  /\ owed' = owed - 1
  /\ UNCHANGED <<context, connection, helo, error>>

-----------------------------------------------------------------------------
Init ==
  /\ stages \in Subscriptions
  /\ state = "Initial"
  /\ options = [actions |-> {}, protocol |-> {}]
  /\ connection = FALSE
  /\ helo = FALSE
  /\ message = EmptyMessage
  /\ macros = NoBatches
  /\ pendingMacros = NoBatches
  /\ pending = "none"
  /\ frames = Silence
  /\ error = "none"
  /\ owed = 0

Next == \/ \E cmd \in Commands : Receive(cmd)
        \/ \E d \in Decisions : Complete(d)

Spec == Init /\ [][Next]_vars

-----------------------------------------------------------------------------
(* Invariants. *)

IsBatches(f) == DOMAIN f \subseteq MacroStages /\ f \in [DOMAIN f -> Nat]

\* Every variable has its type, and the message stays within every limit that receive
\* enforces (Limits: message and envelope bytes, headers, recipients).
TypeOK ==
  /\ stages \subseteq Stages
  /\ state \in States
  /\ options \in [actions : SUBSET ActionBits, protocol : SUBSET ProtocolBits]
  /\ connection \in BOOLEAN /\ helo \in BOOLEAN
  /\ message \in [sender : Envelopes \cup {NoSender}, recipients : Seq(Envelopes),
                  headers : Seq(HeaderFields), body : Nat,
                  bytes : 0 .. MessageBytes, envelopeBytes : 0 .. EnvelopeBytes]
  /\ Len(message.recipients) <= MaxRecipients
  /\ Len(message.headers) <= MaxHeaders
  /\ IsBatches(macros) /\ IsBatches(pendingMacros)
  /\ pending \in Stages \cup {"none"}
  /\ frames \in [edits : Seq(Modifications), reply : WireFrame]
  /\ error \in {"none", "sequence", "invalid", "limit"}
  /\ owed \in Int

\* The "no reply" bit of a stage the policy answers is never agreed on.
HonestNegotiation ==
  \A s \in stages \cap DOMAIN StageOp : StageOp[s] \notin options.protocol

\* The MTA waits for a reply exactly while a callback is pending: the negotiated "no
\* reply" bits never suppress the answer of a subscribed stage, and a command that
\* needs no answer never gets one (session.rs receive and complete, CONTRIBUTING.md,
\* "Negotiate actions/no-reply flags honestly").
ReplyBalance == owed = IF pending = "none" THEN 0 ELSE 1

\* The message belongs to the transaction: outside one it is empty, before the first
\* accepted recipient there is no recipient and no content, and from DATA on there
\* is at least one recipient, whatever recipients were refused in between.
TransactionShape ==
  /\ state \notin InTransaction => message = EmptyMessage
  /\ state \in InTransaction => message.sender # NoSender
  /\ state \in InTransaction \cup {"Ready"} => connection
  /\ state = "Mail" <=> state \in InTransaction /\ message.recipients = <<>>
  /\ state \in InTransaction \ {"Headers", "Body"} => message.headers = <<>>
  /\ state \in InTransaction \ {"Body"} => message.body = 0

\* When a callback is pending the session holds what the policy is asked about: the
\* policy reads connection, helo and message at evaluate (server.rs handle_connection).
CallbackHasContext ==
  /\ pending # "none" => connection /\ state \notin {"Initial", "Negotiated", "Stopped", "Closed"}
  /\ pending \in {"Connect", "Helo"} => state = "Ready"
  /\ pending = "Helo" => helo
  /\ pending = "Mail" => state = "Mail"
  /\ pending = "Recipient" => state = "Recipients"
  /\ pending = "EndMessage" => state = "Body"

\* The macros macro_value can return belong to the current connection and
\* transaction: an active batch is one of a command that was received in it.
MacroScope ==
  /\ "C" \in DOMAIN macros => connection
  /\ "H" \in DOMAIN macros => helo
  /\ DOMAIN macros \cap {"M", "R"} # {} => state \in InTransaction
  /\ "T" \in DOMAIN macros => state \in {"Data", "Headers", "Body"}
  /\ "L" \in DOMAIN macros => state \in {"Headers", "Body"}
  /\ DOMAIN macros \cap {"N", "B"} # {} => state = "Body"
  /\ "E" \in DOMAIN macros => pending = "EndMessage"

\* The batches held, active and waiting together, stay within the macro limit: moving
\* a batch from one map to the other never adds to the total.
MacroBudget == MacroTotal(macros, pendingMacros) <= MacroBytes

\* Once the headers ended, the message rebuilt by raw_message is no larger than what
\* the session charged for it, so it is within the message limit.
RawMessageFits == state = "Body" => RawBytes <= message.bytes /\ message.bytes <= MessageBytes

-----------------------------------------------------------------------------
(* Action properties. *)

\* A transaction that ends leaves nothing of itself behind, in the message or in either
\* macro map, and a new one starts with MAIL's own batch only; only a new connection
\* (QUIT_NC) loses the connection's metadata (CONTRIBUTING.md, "Reset transaction state
\* without losing legitimate connection metadata").
TransactionEndResets ==
  [][/\ state \in InTransaction /\ state' \notin InTransaction =>
          /\ message' = EmptyMessage
          /\ DOMAIN macros' \cup DOMAIN pendingMacros' \subseteq ConnectionMacros
     /\ state = "Ready" /\ state' = "Mail" =>
          /\ DOMAIN macros' \subseteq ConnectionMacros \cup {"M"}
          /\ DOMAIN pendingMacros' \subseteq ConnectionMacros
     /\ state' # "Negotiated" =>
          /\ connection => connection'
          /\ helo => helo'
          /\ state \in InTransaction =>
               Retain(macros, ConnectionMacros) = Retain(macros', ConnectionMacros)]_vars

\* Edits reach the wire only in answer to an end of message, only when the message is
\* accepted and only with a capability the MTA agreed to (complete).
EditsOnlyAtAcceptedEom ==
  [][frames'.edits # <<>> /\ frames' # frames =>
       /\ pending = "EndMessage"
       /\ frames'.reply.cmd \in {"c", "a"}
       /\ \A k \in DOMAIN frames'.edits : Capability(frames'.edits[k]) \in options.actions]_vars

\* What complete returns respects the limits it is given, the whole list of edits
\* together and every frame of it, body chunks included.
OutputFits ==
  LET wire == EditFrames(frames.edits, Len(frames.edits))
  IN  /\ TotalLength(wire) <= MessageBytes
      /\ \A i \in DOMAIN wire : wire[i].len + 1 <= FrameBytes
      /\ frames.reply.len + 1 <= FrameBytes

\* A refusal is not undone.  Once the connection was refused or shut down the policy is
\* not asked again and no transaction starts until the MTA begins a new connection; a
\* refused recipient stays charged, so that refused RCPTs cannot prolong a transaction
\* without bound (the comment in account_envelope).
RefusalIsFinal ==
  [][/\ state = "Stopped" => /\ pending' = "none"
                             /\ state' \in {"Stopped", "Closed", "Negotiated"}
                             /\ state' = "Negotiated" => ~connection'
     /\ {state, state'} \subseteq InTransaction =>
          message'.envelopeBytes >= message.envelopeBytes]_vars

\* README: after Shutdown "the state machine accepts only ABORT/QUIT".  QUIT_NC and the
\* macro batches that accompany a command are not held against it.
OnlyAbortQuitWhenStopped ==
  state = "Stopped" /\ Live =>
    \A cmd \in Commands : Accepted(cmd) => cmd.op \in {"A", "Q", "K", "D"}
=============================================================================
