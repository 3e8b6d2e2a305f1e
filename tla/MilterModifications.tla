------------------------ MODULE MilterModifications ------------------------
(***************************************************************************)
(* The message edits a policy may ask for at end of message, and the wire  *)
(* frames they become (src/src/protocol.rs, enum Modification).            *)
(*                                                                         *)
(* Strings are abstracted to what the code's decisions depend on: their    *)
(* length in bytes and whether the validators (clean, header_value, the    *)
(* header-name test) accept them.  A modification is a record              *)
(*   kind   the enum variant                                               *)
(*   name   bytes of the header name or of the address; of the body or of  *)
(*          the quarantine reason when that is all the variant carries     *)
(*   value  bytes of the header value or of the ESMTP parameters           *)
(*   params the Option holding the parameters is Some                      *)
(*   space  a raw header value starts with a space                         *)
(*   index  the insertion index or the one-based occurrence                *)
(*   clean  the validators accept every string of the modification         *)
(***************************************************************************)
EXTENDS Integers, Sequences, Functions

CONSTANT BodyChunk          \* BODY_CHUNK: largest body piece of one frame

ASSUME BodyChunkAssumption == BodyChunk \in Nat \ {0}

ActionBits == {"ADD_HEADERS", "CHANGE_BODY", "ADD_RECIPIENT",
               "DELETE_RECIPIENT", "CHANGE_HEADERS", "QUARANTINE",
               "CHANGE_FROM", "ADD_RECIPIENT_PAR"}

HeaderKinds == {"AddHeader", "InsertHeader", "ChangeHeader"}
AddressKinds == {"ChangeFrom", "AddRecipient"}
TextKinds == {"DeleteRecipient", "Quarantine"}
ModificationKinds ==
  HeaderKinds \cup AddressKinds \cup TextKinds \cup {"ReplaceBody", "InsertRawHeader"}

Modifications == [kind : ModificationKinds, name : Nat, value : Nat,
                  params : BOOLEAN, space : BOOLEAN, index : Nat, clean : BOOLEAN]

\* Opcodes the milter writes: edits, replies and the negotiation answer; "none" is no
\* frame at all.
EditCodes == {"h", "i", "m", "b", "e", "+", "2", "-", "q"}
ReplyCodes == {"none", "O", "c", "a", "r", "t", "d", "y", "4"}

WireFrame == [cmd : EditCodes \cup ReplyCodes, len : Nat]

EmptyFrame(c) == [cmd |-> c, len |-> 0]

FrameLengths(fs) == [i \in DOMAIN fs |-> fs[i].len]
TotalLength(fs) == SumFunction(FrameLengths(fs))

-----------------------------------------------------------------------------
Capability(m) ==
  CASE m.kind \in {"AddHeader", "InsertHeader", "InsertRawHeader"} -> "ADD_HEADERS"
    [] m.kind = "ChangeHeader"    -> "CHANGE_HEADERS"
    [] m.kind = "ReplaceBody"     -> "CHANGE_BODY"
    [] m.kind = "ChangeFrom"      -> "CHANGE_FROM"
    [] m.kind = "AddRecipient"    -> IF m.params THEN "ADD_RECIPIENT_PAR" ELSE "ADD_RECIPIENT"
    [] m.kind = "DeleteRecipient" -> "DELETE_RECIPIENT"
    [] m.kind = "Quarantine"      -> "QUARANTINE"

\* The space put before a non-empty header value once HEADER_LEADING_SPACE is agreed.
AddedSpace(m, leading) == IF leading /\ m.value > 0 THEN 1 ELSE 0

\* The parameters count only inside the Option.
ParameterBytes(m) == IF m.params THEN m.value ELSE 0

(***************************************************************************)
(* payload_bytes: the size checked before anything is serialised.          *)
(***************************************************************************)
PayloadBytes(m, leading) ==
  CASE m.kind = "ReplaceBody"     -> m.name
    [] m.kind = "InsertRawHeader" -> m.name + m.value + 6
    [] m.kind \in HeaderKinds     ->
         m.name + m.value + 2 + AddedSpace(m, leading)
                + (IF m.kind = "AddHeader" THEN 0 ELSE 4)
    [] m.kind \in AddressKinds    ->
         m.name + ParameterBytes(m) + 1 + (IF m.params THEN 1 ELSE 0)
    [] m.kind \in TextKinds       -> m.name + 1

(***************************************************************************)
(* frames() serialises the modification or returns an error; Serializable  *)
(* is the condition under which it returns frames.                         *)
(***************************************************************************)
Serializable(m, leading) ==
  CASE m.kind = "ReplaceBody"     -> TRUE
    [] m.kind = "InsertRawHeader" -> m.clean /\ m.name > 0 /\ (leading \/ m.space)
    [] m.kind \in HeaderKinds     ->
         /\ m.clean /\ m.name > 0
         /\ m.kind = "ChangeHeader" => m.index > 0
    [] m.kind \in AddressKinds    -> m.clean /\ m.name > 0
    [] m.kind \in TextKinds       -> m.clean

Chunks(bytes) == (bytes + BodyChunk - 1) \div BodyChunk

\* body.chunks(BODY_CHUNK): full chunks and a shorter last one; nothing becomes one
\* empty frame, which empties the body.
BodyFrames(bytes) ==
  IF bytes = 0 THEN <<EmptyFrame("b")>>
  ELSE [i \in 1 .. Chunks(bytes) |->
          [cmd |-> "b",
           len |-> IF i < Chunks(bytes) THEN BodyChunk
                   ELSE bytes - (Chunks(bytes) - 1) * BodyChunk]]

\* A string_frame holding the given number of NUL-terminated strings.
StringFrame(c, bytes, strings) == [cmd |-> c, len |-> bytes + strings]

ModificationFrames(m, leading) ==
  CASE m.kind = "ReplaceBody"     -> BodyFrames(m.name)
    [] m.kind = "InsertRawHeader" ->
         <<StringFrame("i", 4 + m.name + m.value - (IF leading THEN 0 ELSE 1), 2)>>
    [] m.kind = "AddHeader"       ->
         <<StringFrame("h", m.name + m.value + AddedSpace(m, leading), 2)>>
    [] m.kind = "InsertHeader"    ->
         <<StringFrame("i", 4 + m.name + m.value + AddedSpace(m, leading), 2)>>
    [] m.kind = "ChangeHeader"    ->
         <<StringFrame("m", 4 + m.name + m.value + AddedSpace(m, leading), 2)>>
    [] m.kind = "ChangeFrom"      ->
         <<StringFrame("e", m.name + ParameterBytes(m), IF m.params THEN 2 ELSE 1)>>
    [] m.kind = "AddRecipient"    ->
         <<StringFrame(IF m.params THEN "2" ELSE "+",
                       m.name + ParameterBytes(m), IF m.params THEN 2 ELSE 1)>>
    [] m.kind = "DeleteRecipient" -> <<StringFrame("-", m.name, 1)>>
    [] m.kind = "Quarantine"      -> <<StringFrame("q", m.name, 1)>>
=============================================================================
