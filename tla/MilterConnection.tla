-------------------------- MODULE MilterConnection --------------------------
(***************************************************************************)
(* One milter connection: the driver (src/src/server.rs,                   *)
(* handle_connection) around the session of MilterSession, the two byte    *)
(* streams, and the MTA at the other end.                                  *)
(*                                                                         *)
(* The MTA is outside the repository.  It is modelled from what the code   *)
(* assumes of it: it sends commands in SMTP order, goes on without waiting *)
(* after a command whose "no reply" bit was agreed on, waits for one reply *)
(* otherwise, and may disappear at any time.  It keeps its own account of  *)
(* the message, which the session's must agree with.                       *)
(*                                                                         *)
(* Time is abstracted to which deadline may fire in which place.           *)
(***************************************************************************)
EXTENDS MilterSession

CONSTANTS
  FailOpen,       \* Config.fail_open
  MaxInFlight,    \* bound: commands the MTA may have under way
  MaxProgress     \* bound: keepalives of one callback

ASSUME ConnectionAssumption ==
  /\ FailOpen \in BOOLEAN
  /\ MaxInFlight \in Nat \ {0} /\ MaxProgress \in Nat

VARIABLES
  pc,         \* where the driver's loop is: read, partial, evaluate, write, done
  ended,      \* how handle_connection returned
  out,        \* frames of the current step not yet written
  inbox,      \* commands on their way to the milter
  wire,       \* frames on their way to the MTA
  torn,       \* part of a frame was written and the rest never followed
  stop,       \* the shutdown token is cancelled
  progress,   \* keepalives sent for the current callback
  decidedBy,  \* history: who decided the current step's callback
  keepaliveFailed,  \* history: writing a keepalive failed
  mtaPhase,   \* where the MTA is in the SMTP conversation
  mtaAwaits,  \* the command whose reply it waits for, or Nothing
  mtaMessage, \* the MTA's account of the message
  mtaGone     \* the MTA closed its end

driver == <<pc, ended, out, progress, decidedBy, keepaliveFailed>>
streams == <<inbox, wire, torn>>
mta == <<mtaPhase, mtaAwaits, mtaMessage, mtaGone>>
connVars == <<vars, driver, streams, stop, mta>>

Nothing == [op |-> "none", arg |-> NoArgument]
EmptyAccount == [sender |-> NoSender, recipients |-> <<>>, headers |-> <<>>, body |-> 0]

\* The codes of the frames a step returns, edits first.
Codes(fs) ==
  [i \in 1 .. Len(fs.edits) |-> "edit"]
    \o (IF fs.reply = NoReply THEN <<>> ELSE <<fs.reply.cmd>>)

-----------------------------------------------------------------------------
(* The MTA (external). *)

MaySend(phase, account, op) ==
  CASE op = "O" -> phase = "start"
    [] op = "C" -> phase = "negotiated"
    [] op \in {"H", "M"} -> phase = "ready"
    [] op = "R" -> phase = "mail"
    [] op = "T" -> phase = "mail" /\ account.recipients # <<>>
    [] op \in {"L", "N"} -> phase = "data"
    [] op \in {"B", "E"} -> phase = "body"
    [] op = "U" -> phase \notin {"start", "negotiated", "refused"}
    [] op = "A" -> phase \notin {"start", "negotiated"}
    [] op \in {"K", "Q"} -> phase # "start"
    [] OTHER -> FALSE

\* What the MTA does once a command went through.
PhaseAfter(phase, cmd) ==
  CASE cmd.op \in {"O", "K"} -> "negotiated"
    [] cmd.op \in {"C", "E"} -> "ready"
    [] cmd.op = "A" -> IF phase = "refused" THEN "refused" ELSE "ready"
    [] cmd.op = "M" -> "mail"
    [] cmd.op = "T" -> "data"
    [] cmd.op = "N" -> "body"
    [] OTHER -> phase

AccountAfter(account, cmd) ==
  CASE cmd.op \in {"A", "K", "Q", "E"} -> EmptyAccount
    [] cmd.op = "M" -> [EmptyAccount EXCEPT !.sender = cmd.arg]
    [] cmd.op = "R" -> [account EXCEPT !.recipients = Append(@, cmd.arg)]
    [] cmd.op = "L" -> [account EXCEPT !.headers = Append(@, cmd.arg)]
    [] cmd.op = "B" -> [account EXCEPT !.body = @ + cmd.arg.bytes]
    [] OTHER -> account

Advance(cmd) == /\ mtaPhase' = PhaseAfter(mtaPhase, cmd)
                /\ mtaMessage' = AccountAfter(mtaMessage, cmd)

\* The MTA sends a command; it goes on at once if no reply is due.
MtaSends(cmd) ==
  /\ ~mtaGone /\ pc # "done"
  /\ mtaAwaits = Nothing
  /\ Len(inbox) < MaxInFlight
  /\ MaySend(mtaPhase, mtaMessage, cmd.op)
  /\ inbox' = Append(inbox, cmd)
  /\ IF MtaAwaits(cmd.op)
     THEN mtaAwaits' = cmd /\ UNCHANGED <<mtaPhase, mtaMessage>>
     ELSE UNCHANGED mtaAwaits /\ Advance(cmd)
  /\ mtaGone' = (cmd.op = "Q")
  /\ UNCHANGED <<vars, driver, wire, torn, stop>>

\* The MTA reads a frame.  A keepalive or an edit leaves it waiting; a refusal at RCPT
\* drops the recipient, at MAIL or at end of message the message, at CONNECT or HELO
\* the connection; an acceptance ends the filtering of the same thing.  Garbage, after
\* a torn frame, ends the conversation.
MtaReceives ==
  /\ wire # <<>> /\ ~mtaGone
  /\ wire' = Tail(wire)
  /\ LET code == Head(wire) IN
     \/ /\ code = "garbage"
        /\ mtaGone' = TRUE
        /\ UNCHANGED <<mtaPhase, mtaAwaits, mtaMessage>>
     \/ /\ code \in {"p", "edit"}
        /\ UNCHANGED mta
     \/ /\ code \in {"O", "c"}
        /\ Advance(mtaAwaits)
        /\ mtaAwaits' = Nothing
        /\ UNCHANGED mtaGone
     \/ /\ code \in {"a", "d", "r", "t", "y", "4"}
        /\ mtaAwaits' = Nothing
        /\ IF code = "4" \/ mtaAwaits.op \in {"C", "H"} THEN
             mtaPhase' = "refused" /\ mtaMessage' = EmptyAccount
           ELSE IF mtaAwaits.op = "R" /\ code \in {"r", "t", "y"} THEN
             UNCHANGED <<mtaPhase, mtaMessage>>
           ELSE mtaPhase' = "ready" /\ mtaMessage' = EmptyAccount
        /\ UNCHANGED mtaGone
  /\ UNCHANGED <<vars, driver, inbox, torn, stop>>

MtaDisappears ==
  /\ ~mtaGone /\ pc # "done"
  /\ mtaGone' = TRUE
  /\ UNCHANGED <<vars, driver, streams, stop, mtaPhase, mtaAwaits, mtaMessage>>

-----------------------------------------------------------------------------
(* handle_connection: reading. *)

End(how) == pc' = "done" /\ ended' = how

\* Fault: the token is looked at only when nothing has arrived.
StopWhenIdle ==
  /\ pc = "read" /\ inbox = <<>> /\ stop
  /\ End("stopped")
  /\ UNCHANGED <<vars, out, progress, decidedBy, keepaliveFailed, streams, stop, mta>>

\* The shutdown token wins the select against the read of the next frame.
StopAtRead ==
  /\ pc \in {"read", "partial"} /\ stop
  /\ End("stopped")
  /\ UNCHANGED <<vars, out, progress, decidedBy, keepaliveFailed, streams, stop, mta>>

FirstByte ==
  /\ pc = "read" /\ inbox # <<>>
  /\ pc' = "partial"
  /\ UNCHANGED <<vars, ended, out, progress, decidedBy, keepaliveFailed, streams, stop, mta>>

EndOfStream ==
  /\ pc = "read" /\ inbox = <<>> /\ mtaGone
  /\ End("eof")
  /\ UNCHANGED <<vars, out, progress, decidedBy, keepaliveFailed, streams, stop, mta>>

\* The idle deadline before a frame, the frame deadline or an I/O error within one.
ReadFails ==
  /\ pc \in {"read", "partial"}
  /\ pc = "read" => inbox = <<>>
  /\ End("timeout")
  /\ UNCHANGED <<vars, out, progress, decidedBy, keepaliveFailed, streams, stop, mta>>

\* A whole frame is there: session.receive, then the callback or the reply.
RestOfFrame ==
  /\ pc = "partial"
  /\ Receive(Head(inbox))
  /\ inbox' = Tail(inbox)
  /\ IF error' # "none" THEN End("error") /\ UNCHANGED out
     ELSE IF pending' # "none" THEN pc' = "evaluate" /\ UNCHANGED <<ended, out>>
     ELSE pc' = "write" /\ out' = Codes(frames') /\ UNCHANGED ended
  /\ progress' = 0 /\ decidedBy' = "nobody"
  /\ UNCHANGED <<keepaliveFailed, wire, torn, stop, mta>>

-----------------------------------------------------------------------------
(* handle_connection: the callback. *)

Evaluating == pc = "evaluate" /\ pending \in stages

Bare(v) == [verdict |-> v, mods |-> <<>>, code |-> 0, text |-> 0, clean |-> TRUE]
DefaultDecision == Bare("Continue")

\* Fault: the fallback lets the message pass whatever the configuration says.
AlwaysOpen == Bare("Continue")

Fallback == Bare(IF FailOpen THEN "Continue" ELSE "Tempfail")

Decided(d, who) ==
  /\ Complete(d)
  /\ pc' = "write"
  /\ out' = Codes(frames')
  /\ decidedBy' = who
  /\ UNCHANGED <<ended, progress, inbox, wire, stop, mta>>

\* End of message without a subscribed policy.
DefaultAnswer ==
  /\ pc = "evaluate" /\ pending \notin stages
  /\ Decided(DefaultDecision, "default")
  /\ UNCHANGED <<torn, keepaliveFailed>>

PolicyAnswers(d) ==
  /\ Evaluating
  /\ Decided(d, "policy")
  /\ UNCHANGED <<torn, keepaliveFailed>>

\* The policy fails, misses its deadline or answers what complete refuses: the
\* configured fallback answers instead.
PolicyFails ==
  /\ Evaluating
  /\ Decided(Fallback, "fallback")
  /\ UNCHANGED <<torn, keepaliveFailed>>

\* A keepalive is written while the policy works.
Progress ==
  /\ Evaluating /\ progress < MaxProgress
  /\ wire' = Append(wire, IF torn THEN "garbage" ELSE "p")
  /\ progress' = progress + 1
  /\ UNCHANGED <<vars, pc, ended, out, decidedBy, keepaliveFailed, inbox, torn, stop, mta>>

\* Writing the keepalive fails or times out, perhaps with part of it written.  The error
\* is the result of the evaluation, so the fallback answers and the loop goes on.
ProgressFails(partly) ==
  /\ Evaluating /\ progress < MaxProgress
  /\ Decided(Fallback, "fallback")
  /\ torn' = (torn \/ partly)
  /\ keepaliveFailed' = TRUE

-----------------------------------------------------------------------------
(* handle_connection: writing. *)

\* Fault: the shutdown token is also looked at while replies are being written.
StopCutsReply ==
  /\ pc = "write" /\ out # <<>>
  /\ IF stop THEN End("stopped") /\ UNCHANGED <<out, wire>>
     ELSE /\ wire' = Append(wire, Head(out)) /\ out' = Tail(out)
          /\ UNCHANGED <<pc, ended>>
  /\ UNCHANGED <<vars, progress, decidedBy, keepaliveFailed, inbox, torn, stop, mta>>

\* Fault: a keepalive counts as the answer, and no reply follows it.
KeepaliveTakenForReply ==
  /\ pc = "write" /\ out # <<>>
  /\ out' = Tail(out)
  /\ wire' = IF progress > 0 THEN wire ELSE Append(wire, IF torn THEN "garbage" ELSE Head(out))
  /\ UNCHANGED <<vars, pc, ended, progress, decidedBy, keepaliveFailed, inbox, torn, stop, mta>>

WriteFrame ==
  /\ pc = "write" /\ out # <<>>
  /\ wire' = Append(wire, IF torn THEN "garbage" ELSE Head(out))
  /\ out' = Tail(out)
  /\ UNCHANGED <<vars, pc, ended, progress, decidedBy, keepaliveFailed, inbox, torn, stop, mta>>

WriteFails(partly) ==
  /\ pc = "write" /\ out # <<>>
  /\ torn' = (torn \/ partly)
  /\ End("error")
  /\ UNCHANGED <<vars, out, progress, decidedBy, keepaliveFailed, inbox, wire, stop, mta>>

\* Everything is written: QUIT ends the connection, anything else the iteration.
Written ==
  /\ pc = "write" /\ out = <<>>
  /\ IF state = "Closed" THEN End("quit") ELSE pc' = "read" /\ UNCHANGED ended
  /\ UNCHANGED <<vars, out, progress, decidedBy, keepaliveFailed, streams, stop, mta>>

-----------------------------------------------------------------------------
(* The server around it. *)

Shutdown ==
  /\ ~stop
  /\ stop' = TRUE
  /\ UNCHANGED <<vars, driver, streams, mta>>

\* The drain deadline passed and serve aborts the task.
Aborted ==
  /\ stop /\ pc # "done"
  /\ End("aborted")
  /\ UNCHANGED <<vars, out, progress, decidedBy, keepaliveFailed, streams, stop, mta>>

ConnInit ==
  /\ Init
  /\ pc = "read" /\ ended = "running"
  /\ out = <<>> /\ inbox = <<>> /\ wire = <<>>
  /\ torn = FALSE /\ stop = FALSE
  /\ progress = 0 /\ decidedBy = "nobody" /\ keepaliveFailed = FALSE
  /\ mtaPhase = "start" /\ mtaAwaits = Nothing /\ mtaMessage = EmptyAccount
  /\ mtaGone = FALSE

Driver ==
  \/ StopAtRead \/ FirstByte \/ EndOfStream \/ ReadFails \/ RestOfFrame
  \/ DefaultAnswer \/ (\E d \in Decisions : PolicyAnswers(d)) \/ PolicyFails
  \/ Progress \/ (\E b \in BOOLEAN : ProgressFails(b))
  \/ WriteFrame \/ (\E b \in BOOLEAN : WriteFails(b)) \/ Written

Mta == (\E cmd \in Commands : MtaSends(cmd)) \/ MtaReceives \/ MtaDisappears

ConnNext == Driver \/ Mta \/ Shutdown \/ Aborted

ConnSpec == ConnInit /\ [][ConnNext]_connVars

(***************************************************************************)
(* Fairness.  The frame that began to arrive is read or its deadline       *)
(* fires; a callback ends because timeout_at bounds it; a write ends       *)
(* because write_timeout bounds it; a stop that is ready again and again   *)
(* wins the unbiased select at some point.                                 *)
(***************************************************************************)
Fairness ==
  /\ WF_connVars(FirstByte) /\ WF_connVars(RestOfFrame) /\ WF_connVars(EndOfStream)
  /\ WF_connVars(PolicyFails \/ DefaultAnswer)
  /\ WF_connVars(WriteFrame) /\ WF_connVars(Written)
  /\ WF_connVars(MtaReceives)
  /\ SF_connVars(StopAtRead)

FairConnSpec == ConnSpec /\ Fairness

-----------------------------------------------------------------------------
FinalCodes == {"O", "c", "a", "r", "t", "d", "y", "4"}

\* Every variable of the driver, the streams and the MTA has its type.
ConnTypeOK ==
  /\ TypeOK
  /\ pc \in {"read", "partial", "evaluate", "write", "done"}
  /\ ended \in {"running", "stopped", "eof", "timeout", "error", "quit", "aborted"}
  /\ pc = "done" <=> ended # "running"
  /\ out \in Seq(FinalCodes \cup {"edit"})
  /\ inbox \in Seq(Commands) /\ Len(inbox) <= MaxInFlight
  /\ wire \in Seq(FinalCodes \cup {"edit", "p", "garbage"})
  /\ torn \in BOOLEAN /\ stop \in BOOLEAN /\ keepaliveFailed \in BOOLEAN /\ mtaGone \in BOOLEAN
  /\ progress \in 0 .. MaxProgress
  /\ decidedBy \in {"nobody", "default", "policy", "fallback"}
  /\ mtaPhase \in {"start", "negotiated", "ready", "mail", "data", "body", "refused"}
  /\ mtaAwaits \in Commands \cup {Nothing}

\* Unless a write broke off, the MTA is sent nothing it does not wait for: frames under
\* way, keepalives included, are for the command it waits on, and one final reply
\* comes last, so a keepalive never follows a reply (handle_connection,
\* evaluate_with_progress, "progress notifications never interleave").
OneReplyPerCommand ==
  LET under == wire \o out
      finals == {i \in DOMAIN under : under[i] \in FinalCodes}
  IN  ~torn => /\ under # <<>> => mtaAwaits # Nothing
               /\ \A i \in finals : i = Len(under)
               /\ finals # {} => pending = "none"

\* When the policy is asked about a whole message, the session and the MTA agree on it:
\* the sender, exactly the recipients the MTA kept, the headers and the body, across
\* refused recipients, aborts and commands sent ahead.
MessageAgreement ==
  pc = "evaluate" /\ pending = "EndMessage" =>
    mtaMessage = [sender |-> message.sender, recipients |-> message.recipients,
                  headers |-> message.headers, body |-> message.body]

\* An MTA that follows the protocol is never refused for a command out of sequence,
\* whatever the policy decided before and however many commands are under way.
ConformingNeverRefused == error \notin {"sequence", "invalid"}

\* Without fail_open, a message passes a subscribed end of message only on the policy's
\* own decision: a failure, a deadline or a broken keepalive never lets it through.
FailClosed ==
  /\ ~FailOpen /\ "EndMessage" \in stages /\ mtaAwaits.op = "E"
  /\ \E i \in DOMAIN wire : wire[i] \in {"c", "a", "edit"}
  => decidedBy = "policy"

\* A graceful stop never cuts off a callback: when the stop ends the connection no
\* command that was read is left unanswered (README, "only an in-flight policy
\* callback/reply is drained").
StopKeepsReplies == ended = "stopped" => owed = 0 /\ out = <<>>

\* A waiting MTA is answered, unless it goes away or the connection ends.
AnsweredOrEnded == mtaAwaits # Nothing ~> mtaAwaits = Nothing \/ mtaGone \/ pc = "done"

\* A cancelled token ends the connection, however busy the MTA keeps it.
StopEndsConnection == stop ~> pc = "done"

\* The comment on evaluate_with_progress: "A failed keepalive write is fatal for the
\* connection".  Fatal means that no further command is read.
KeepaliveFailureIsFatal == keepaliveFailed => pc # "read"
=============================================================================
