------------------------- MODULE MCMilterConnection -------------------------
(***************************************************************************)
(* Small instances of MilterConnection: one or two recipients, at most one *)
(* header field and one body piece, two commands under way.                *)
(***************************************************************************)
EXTENDS MilterConnection

Edit == [kind |-> "AddHeader", name |-> 1, value |-> 1, params |-> FALSE, space |-> FALSE,
         index |-> 0, clean |-> TRUE]
Decide(v, mods) == [verdict |-> v, mods |-> mods, code |-> 550, text |-> 4, clean |-> TRUE]

ManyDecisions == {Decide(v, <<>>) : v \in {"Continue", "Reject", "Discard", "Shutdown"}}
                   \cup {Decide("Accept", <<Edit>>)}
FewDecisions == {Decide(v, <<>>) : v \in {"Continue", "Reject"}}

TwoSubscriptions == {{"Recipient", "EndMessage"}, {"Connect", "Mail"}}
MoreSubscriptions == {{}, {"Helo", "Recipient", "EndMessage"}}
TwoOffers == {[version |-> 6, actions |-> ActionBits, protocol |-> p] :
                p \in {{}, ProtocolBits}}
OneEnvelope == {[id |-> "a", bytes |-> 1]}
TwoEnvelopes == OneEnvelope \cup {[id |-> "b", bytes |-> 2]}
OneField == {[bytes |-> 1, fold |-> FALSE]}
=============================================================================
