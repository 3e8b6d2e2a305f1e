---------------------------- MODULE HookRequest ----------------------------
(***************************************************************************)
(* The hook request (src/src/hooks.rs, request): what the policy client    *)
(* reads of the session when a callback is evaluated.  A projected value   *)
(* is represented by its sources in the session, the empty set being null: *)
(* the connection, HELO, the parts of the message and the macro batches.   *)
(* Which batch carries a macro is the MTA's choice, so a value taken from  *)
(* macros may come from any active batch.                                  *)
(***************************************************************************)
EXTENDS MilterSession

OFFERED_PROPERTIES == {"stage", "action", "timestamp", "protocol", "rawMessage", "envelope",
                       "queue", "client", "tls", "auth", "server"}
BeforeMail == {"Connect", "Helo"}
\* An unknown command and its batch may come at any time and belong to no transaction.
TransactionSources ==
  {"sender", "recipients", "headers", "body"} \cup (MacroStages \ (ConnectionMacros \cup {"U"}))

Present(source, isPresent) == IF isPresent THEN {source} ELSE {}

EnvelopeSources(stage) ==
  IF message.sender # NoSender /\ stage \notin BeforeMail
  THEN {"sender"} \cup Present("recipients", message.recipients # <<>>)
  ELSE {}

Sources(stage, property) ==
  CASE property = "rawMessage" -> IF stage = "EndMessage" THEN {"headers", "body"} ELSE {}
    [] property = "envelope" -> EnvelopeSources(stage)
    [] property = "client" -> {"connection"} \cup Present("helo", helo) \cup DOMAIN macros
    [] property \in {"queue", "tls", "auth", "server"} -> DOMAIN macros
    [] OTHER -> {}

\* request() returns an error, for a property the registration negotiated.
RequestRefused(stage, property) ==
  \/ ~connection
  \/ property = "envelope" /\ message.sender = NoSender /\ stage = "EndMessage"

\* Whatever properties the scanner asked for, a callback can be projected, and what is
\* projected is of its own transaction: "`/rawMessage` and `/envelope` are `null` before
\* they exist", no queue id, login or address of an earlier transaction is seen at connect
\* or ehlo, and rcpt and data name a recipient (README, request).
RequestIsCurrent ==
  pending # "none" =>
    /\ \A property \in OFFERED_PROPERTIES :
         /\ ~RequestRefused(pending, property)
         /\ pending \in BeforeMail => Sources(pending, property) \cap TransactionSources = {}
    /\ pending \notin BeforeMail => "sender" \in Sources(pending, "envelope")
    /\ pending \in {"Recipient", "EndMessage"} => "recipients" \in Sources(pending, "envelope")
=============================================================================
