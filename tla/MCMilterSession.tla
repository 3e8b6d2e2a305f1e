-------------------------- MODULE MCMilterSession --------------------------
(***************************************************************************)
(* Small instances of the session.  The limits are a few bytes, so that    *)
(* every limit is met exactly and exceeded; each cfg opens the inputs its  *)
(* question is about and keeps the others to one value.                    *)
(***************************************************************************)
EXTENDS HookRequest

Mod(kind, name, value, index) ==
  [kind |-> kind, name |-> name, value |-> value, params |-> FALSE, space |-> TRUE,
   index |-> index, clean |-> TRUE]
Decide(verdict, mods) ==
  [verdict |-> verdict, mods |-> mods, code |-> 550, text |-> 4, clean |-> TRUE]

AllSubscriptions == {{}, {"Connect"}, {"Helo", "Mail"}, {"Recipient", "EndMessage"}, Stages}
EveryStage == {Stages}
FullOffer == {[version |-> 6, actions |-> ActionBits, protocol |-> ProtocolBits]}
SomeOffers == {[version |-> v, actions |-> ActionBits, protocol |-> p] :
                 v \in {2, 6}, p \in {{}, ProtocolBits, {"M", "R", "L", "space"}}}
CapabilityOffers ==
  {[version |-> 6, actions |-> ActionBits, protocol |-> ProtocolBits],
   [version |-> 6, actions |-> {"ADD_HEADERS", "CHANGE_BODY"}, protocol |-> ProtocolBits \ {"space"}]}
TwoEnvelopes == {[id |-> "a", bytes |-> 1], [id |-> "b", bytes |-> 3]}
OneEnvelope == {[id |-> "a", bytes |-> 1]}
TwoFields == {[bytes |-> 1, fold |-> FALSE], [bytes |-> 2, fold |-> TRUE]}
OneField == {[bytes |-> 1, fold |-> FALSE]}

PlainDecisions == {Decide(v, <<>>) : v \in Verdicts}
ShutdownOnly == {Decide("Shutdown", <<>>)}

\* One modification of each shape that the checks of complete tell apart.
SampleMods == {Mod("AddHeader", 1, 1, 0), Mod("InsertHeader", 1, 0, 0),
               Mod("ChangeHeader", 1, 2, 0), Mod("ChangeHeader", 1, 2, 1),
               Mod("InsertRawHeader", 1, 2, 0),
               [Mod("InsertRawHeader", 1, 2, 0) EXCEPT !.space = FALSE],
               Mod("ReplaceBody", 0, 0, 0), Mod("ReplaceBody", 7, 0, 0),
               Mod("ReplaceBody", 8, 0, 0), Mod("ReplaceBody", 13, 0, 0),
               Mod("ChangeFrom", 2, 0, 0), Mod("AddRecipient", 2, 0, 0),
               [Mod("AddRecipient", 3, 7, 0) EXCEPT !.params = TRUE],
               Mod("DeleteRecipient", 2, 0, 0), Mod("Quarantine", 0, 0, 0),
               [Mod("Quarantine", 3, 0, 0) EXCEPT !.clean = FALSE]}
EditDecisions ==
  PlainDecisions
    \cup {Decide(v, <<m>>) : v \in {"Continue", "Accept", "Reject", "Discard"}, m \in SampleMods}
    \cup {Decide("Accept", <<m, n>>) : m, n \in SampleMods}
    \cup {Decide("Continue", <<m, m, m>>) : m \in SampleMods}
    \cup {[Decide("Reply", <<>>) EXCEPT !.code = c, !.text = t, !.clean = k] :
            c \in {250, 451, 600}, t \in {4, 20}, k \in BOOLEAN}
=============================================================================
