--------------------------- MODULE HookTranslation ---------------------------
(***************************************************************************)
(* From a scanner's answer to milter modifications (src/src/hooks.rs:      *)
(* translate, Edits, insert_slot, raw_replacement).  The answer's set, add *)
(* and delete operations are taken in that order; nothing is sent before   *)
(* all of them are accepted.  The MTA is outside the repository: it        *)
(* applies the modifications one by one to its own copy of the message,    *)
(* where a position or an occurrence means what it means at that moment.   *)
(*                                                                         *)
(* The JSON is abstracted to operations with their arguments; whatever     *)
(* the schema, array_index and the path tables refuse is RefuseOperation.  *)
(* Indexes are zero-based on the wire, positions in sequences one-based.   *)
(***************************************************************************)
EXTENDS RawMessage, FiniteSets

CONSTANTS
  Sessions,          \* sessions an answer may meet: headers, to, body, leading, stage
  NewValues,         \* values of set and add operations
  NewNames,          \* names of added headers
  NewAddresses,      \* addresses of set /envelope/from and add /envelope/to
  Replacements,      \* replacement messages a scanner writes: fields, ending, body
  BadReplacements,   \* texts that are no message
  Actions,           \* values of /action
  Answers,           \* values of /response: null, object, badObject, scalar
  MaxHeaders, MaxRecipients, MaxModifications, MessageBytes,  \* Limits
  MaxOperations      \* bound: operations of an answer without and with a replacement

ASSUME TranslationAssumption ==
  /\ {MaxHeaders, MaxRecipients, MaxModifications, MessageBytes} \subseteq Nat
  /\ MaxOperations \in [BOOLEAN -> 0 .. MaxModifications]
  /\ \A s \in Sessions : /\ s.headers \in Seq(Fields) /\ Len(s.headers) <= MaxHeaders
                         /\ s.to \in Seq(STRING) /\ Len(s.to) <= MaxRecipients
                         /\ s.body \in Seq(Chars)
  /\ \A r \in Replacements : r.fields \in Seq(Fields) /\ {r.ending, r.body} \subseteq Seq(Chars)
  /\ NewNames \cup NewValues \cup BadReplacements \subseteq Seq(Chars)
  /\ NewAddresses \subseteq STRING
  /\ Answers \subseteq {"null", "object", "badObject", "scalar"}

VARIABLES
  session,   \* the session the answer is about (never changes)
  hasRaw,    \* the answer sets /rawMessage
  phase,     \* set, add, delete (operations), mta (applying), done, dropped or refused
  count,     \* operations so far
  op,        \* the operation taken last
  edits,     \* struct Edits
  raw,       \* the modifications of the replacement, or NoRaw
  action, response,
  mods, verdict,  \* the Decision
  applied,   \* how many of its modifications the MTA has applied
  mta        \* the MTA's message and envelope

decision == <<mods, verdict>>
translateVars == <<session, hasRaw, phase, count, op, edits, raw, action, response,
                   decision, applied, mta>>

NoRaw == [ok |-> FALSE, mods |-> <<>>]
Unset == "unset"
NullAddress == "<>"

-----------------------------------------------------------------------------
(* Edits *)

Original(i) == [kind |-> "Original", at |-> i]
Added(i) == [kind |-> "Added", at |-> i]

NewEdits(s) ==
  [changes |-> <<>>, deletes |-> <<>>, added |-> <<>>,
   headers |-> [i \in DOMAIN s.headers |-> Original(i)],
   from |-> Unset, toDeletes |-> <<>>, toAdded |-> <<>>,
   to |-> [i \in DOMAIN s.to |-> Original(i)]]

\* insert_slot; -1 is None.
InsertSlot(list, index, slot) ==
  IF index = -1 THEN Append(list, slot) ELSE InsertAt(list, index + 1, slot)

ChangedOrDeleted(e) == {e.changes[k].at : k \in DOMAIN e.changes} \cup ToSet(e.deletes)

\* The same original header is named twice.
Conflicting(e) == Cardinality(ChangedOrDeleted(e)) # Len(e.changes) + Len(e.deletes)

Occurrence(headers, i) == Cardinality({j \in 1 .. i : SameName(headers[j].name, headers[i].name)})

\* A modification; index is the insertion index or the occurrence.
Modify(kind, name, value, index) == [kind |-> kind, name |-> name, value |-> value, index |-> index]

\* The new value of an original header; nothing deletes it.
ChangedTo(e, i) ==
  IF i \in ToSet(e.deletes) THEN <<>>
  ELSE e.changes[SelectInSeq(e.changes, LAMBDA c : c.at = i)].value

\* Fault: first to last.
AscendingPositions(S) == Ascending(S)

\* Changes and deletions go from the last original header to the first.
Descending(S) == Reverse(Ascending(S))

HeaderEdits(s, e) ==
  LET order == Descending(ChangedOrDeleted(e))
  IN [k \in DOMAIN order |-> Modify("ChangeHeader", s.headers[order[k]].name,
                                    ChangedTo(e, order[k]), Occurrence(s.headers, order[k]))]

\* Added headers by their place in the final list; the last one is appended.
Insertions(e) ==
  LET places == Ascending({p \in DOMAIN e.headers : e.headers[p].kind = "Added"})
      header(p) == e.added[e.headers[p].at]
  IN [k \in DOMAIN places |->
        Modify(IF places[k] = Len(e.headers) THEN "AddHeader" ELSE "InsertHeader",
               header(places[k]).name, header(places[k]).value, places[k] - 1)]

\* A recipient that is deleted and added again stays: deletions go first.
EnvelopeEdits(s, e) ==
  LET kept == Ascending({k \in DOMAIN e.toAdded : e.toAdded[k] # Unset})
  IN [k \in DOMAIN e.toDeletes |-> Modify("DeleteRecipient", s.to[e.toDeletes[k]], <<>>, 0)]
       \o [k \in DOMAIN kept |-> Modify("AddRecipient", e.toAdded[kept[k]], <<>>, 0)]

\* Edits::modifications, unless it fails.
Modifications(s, e) ==
  HeaderEdits(s, e) \o Insertions(e)
    \o (IF e.from = Unset THEN <<>> ELSE <<Modify("ChangeFrom", e.from, <<>>, 0)>>)
    \o EnvelopeEdits(s, e)

\* Edits::is_empty: a header that was added and deleted again still counts.
NoEdit(e) == /\ e.changes = <<>> /\ e.deletes = <<>> /\ e.added = <<>> /\ e.from = Unset
             /\ e.toDeletes = <<>> /\ e.toAdded = <<>>

-----------------------------------------------------------------------------
(* raw_replacement *)

\* Fault: a value that starts with a fold is expected behind a space too.
LookupBehindSpace(v, leading) ==
  IF leading THEN [ok |-> TRUE, value |-> v]
  ELSE IF StartsWith(v, {"sp"}) THEN [ok |-> TRUE, value |-> Tail(v)]
  ELSE [ok |-> FALSE, value |-> <<>>]

\* The value a field would have as an original header, if the session can see it at all.
Lookup(v, leading) ==
  IF leading \/ StartsWith(v, Breaks) THEN [ok |-> TRUE, value |-> v]
  ELSE IF StartsWith(v, {"sp"}) THEN [ok |-> TRUE, value |-> Tail(v)]
  ELSE [ok |-> FALSE, value |-> <<>>]

\* The first identical original header behind the cursor; 0 if there is none.
Match(s, f, cursor) ==
  LET wanted == Lookup(f.value, s.leading)
  IN IF ~wanted.ok THEN 0
     ELSE SelectInSubSeq(s.headers, cursor + 1, Len(s.headers),
                         LAMBDA h : h = [name |-> f.name, value |-> wanted.value])

\* The cursor after each field; it moves exactly when the field is matched.
Cursors(s, fields) ==
  LET cursor[k \in 0 .. Len(fields)] ==
        IF k = 0 THEN 0
        ELSE LET m == Match(s, fields[k], cursor[k - 1]) IN IF m = 0 THEN cursor[k - 1] ELSE m
  IN cursor

Replace(s, fields, body) ==
  LET cursor == Cursors(s, fields)
      matched(k) == Match(s, fields[k], cursor[k - 1])
      retained == {matched(k) : k \in DOMAIN fields}
      gone == Descending(DOMAIN s.headers \ retained)
      new == Ascending({k \in DOMAIN fields : matched(k) = 0})
  IN [k \in DOMAIN gone |-> Modify("ChangeHeader", s.headers[gone[k]].name, <<>>,
                                   Occurrence(s.headers, gone[k]))]
       \o [k \in DOMAIN new |-> Modify("InsertRawHeader", fields[new[k]].name,
                                       fields[new[k]].value, new[k] - 1)]
       \o (IF body = s.body THEN <<>> ELSE <<Modify("ReplaceBody", <<>>, body, 0)>>)

\* The base64 length is bounded before the text is decoded.
SizeAccepted(bytes) == /\ 4 * ((bytes + 2) \div 3) <= 4 * ((MessageBytes + 2) \div 3)
                       /\ bytes <= MessageBytes

RawReplacement(s, text) ==
  LET parsed == Parse(text)
      result == Replace(s, parsed.fields, parsed.body)
  IN IF /\ SizeAccepted(Len(text)) /\ parsed.ok
        /\ Len(parsed.fields) <= MaxHeaders
        /\ Len(result) <= MaxModifications
     THEN [ok |-> TRUE, mods |-> result]
     ELSE NoRaw

-----------------------------------------------------------------------------
(* translate: one action per operation. *)

\* The next operation may belong to this list: set, then add, then delete.
InList(list) ==
  /\ count < MaxOperations[hasRaw] /\ count' = count + 1
  /\ \/ list = "set" /\ phase = "set"
     \/ list = "add" /\ phase \in {"set", "add"}
     \/ list = "delete" /\ phase \in {"set", "add", "delete"}
  /\ list # "set" /\ hasRaw => raw.ok
  /\ phase' = list

Edit(o, e) == /\ op' = o
              /\ edits' = e
              /\ UNCHANGED <<session, hasRaw, raw, action, response, decision, applied, mta>>

\* The wire form of a header value: a space is put before a non-empty one once the MTA
\* expects it.
Sent(v) == IF session.leading /\ v # <<>> THEN <<"sp">> \o v ELSE v

SetHeader(i, v) ==
  /\ InList("set") /\ ~hasRaw /\ i < Len(session.headers)
  /\ Edit([kind |-> "setHeader", index |-> i, arg |-> Sent(v)],
          [edits EXCEPT !.changes = Append(@, [at |-> i + 1, value |-> v])])

SetFrom(a) ==
  /\ InList("set")
  /\ Edit([kind |-> "setFrom", arg |-> a], [edits EXCEPT !.from = a])

\* Fault: one header more than the limit.
AddHeaderOver(i, h) ==
  /\ InList("add") /\ ~hasRaw /\ Len(edits.headers) <= MaxHeaders /\ i <= Len(edits.headers)
  /\ Edit([kind |-> "addHeader", index |-> i, arg |-> [h EXCEPT !.value = Sent(@)]],
          [edits EXCEPT !.added = Append(@, h),
                        !.headers = InsertSlot(@, i, Added(Len(edits.added) + 1))])

AddHeader(i, h) ==
  /\ InList("add") /\ ~hasRaw /\ Len(edits.headers) < MaxHeaders /\ i <= Len(edits.headers)
  /\ Edit([kind |-> "addHeader", index |-> i, arg |-> [h EXCEPT !.value = Sent(@)]],
          [edits EXCEPT !.added = Append(@, h),
                        !.headers = InsertSlot(@, i, Added(Len(edits.added) + 1))])

AddTo(i, a) ==
  /\ InList("add") /\ Len(edits.to) < MaxRecipients /\ i <= Len(edits.to)
  /\ Edit([kind |-> "addTo", index |-> i, arg |-> a],
          [edits EXCEPT !.toAdded = Append(@, a),
                        !.to = InsertSlot(@, i, Added(Len(edits.toAdded) + 1))])

\* Fault: the index is taken for one of the original list.
DeleteOriginal(i) ==
  /\ InList("delete") /\ ~hasRaw /\ i < Len(edits.headers)
  /\ Edit([kind |-> "deleteHeader", index |-> i],
          [edits EXCEPT !.headers = RemoveAt(@, i + 1), !.deletes = Append(@, i + 1)])

\* The index is one of the list as the additions have left it.
DeleteHeader(i) ==
  /\ InList("delete") /\ ~hasRaw /\ i < Len(edits.headers)
  /\ LET slot == edits.headers[i + 1]
         rest == [edits EXCEPT !.headers = RemoveAt(@, i + 1)]
     IN Edit([kind |-> "deleteHeader", index |-> i],
             IF slot.kind = "Original" THEN [rest EXCEPT !.deletes = Append(@, slot.at)] ELSE rest)

DeleteTo(i) ==
  /\ InList("delete") /\ i < Len(edits.to)
  /\ LET slot == edits.to[i + 1]
         rest == [edits EXCEPT !.to = RemoveAt(@, i + 1)]
     IN Edit([kind |-> "deleteTo", index |-> i],
             IF slot.kind = "Original" THEN [rest EXCEPT !.toDeletes = Append(@, slot.at)]
             ELSE [rest EXCEPT !.toAdded[slot.at] = Unset])

\* An operation on /message next to a replacement of /rawMessage.
Ignore(list) ==
  /\ InList(list) /\ hasRaw
  /\ Edit([kind |-> "ignored"], edits)

\* The scanner sends back the message it was given.
Echo == [fields |-> RawFields(session.headers, session.leading), ending |-> <<"cr", "lf">>,
         body |-> session.body]

\* The wire form of what stands after a colon: the MTA keeps one space to itself unless
\* it agreed to pass it on.
Unspaced(v) == IF ~session.leading /\ StartsWith(v, {"sp"}) THEN Tail(v) ELSE v

\* The replacement as the session would have received it.
Seen(r) == [headers |-> [k \in DOMAIN r.fields |-> [r.fields[k] EXCEPT !.value = Unspaced(@)]],
            body |-> r.body]

TakeRaw(o, text) ==
  LET result == RawReplacement(session, text)
  IN /\ phase = "set" /\ count < MaxOperations[hasRaw] /\ hasRaw /\ ~raw.ok
     /\ count' = count + 1
     /\ op' = o
     /\ raw' = result
     /\ phase' = IF result.ok THEN phase ELSE "refused"
     /\ UNCHANGED <<session, hasRaw, edits, action, response, decision, applied, mta>>

SetRaw(r) == TakeRaw([kind |-> "setRaw", arg |-> Seen(r), echo |-> r = Echo],
                     Text(r.fields, r.ending, r.body))

SetBadRaw(text) == TakeRaw([kind |-> "malformed"], text)

SetAction(a) ==
  /\ InList("set")
  /\ op' = [kind |-> "action"] /\ action' = a
  /\ UNCHANGED <<session, hasRaw, edits, raw, response, decision, applied, mta>>

SetResponse(v) ==
  /\ InList("set")
  /\ op' = [kind |-> "response"] /\ response' = v
  /\ UNCHANGED <<session, hasRaw, edits, raw, action, decision, applied, mta>>

\* One field of the SMTP response; a wrong one may be put right later.
SetResponseField(good) ==
  /\ InList("set") /\ response # "scalar"
  /\ op' = [kind |-> "response"]
  /\ \/ good /\ response' = "object"
     \/ (~good \/ response = "badObject") /\ response' = "badObject"
  /\ UNCHANGED <<session, hasRaw, edits, raw, action, decision, applied, mta>>

Refused == /\ phase' = "refused"
           /\ UNCHANGED <<session, hasRaw, count, op, edits, raw, action, response, decision,
                          applied, mta>>

Operating == phase \in {"set", "add", "delete"}

\* The answer is too long, or an operation is outside the supported profile, has the
\* wrong shape, an index out of range, parameters that cannot be sent, a full list to
\* add to, or is a second replacement.
RefuseOperation == Operating /\ Refused

-----------------------------------------------------------------------------
(* The end of translate. *)

AllEdits == Modifications(session, edits) \o raw.mods

\* m.frames(): the modification can be put on the wire.
CanSend(m) ==
  CASE m.kind \in {"AddHeader", "InsertHeader", "ChangeHeader"} ->
         HeaderName(m.name) /\ HeaderValue(m.value)
    [] m.kind = "InsertRawHeader" ->
         /\ HeaderName(m.name) /\ HeaderValue(m.value)
         /\ session.leading \/ StartsWith(m.value, {"sp"})
    [] OTHER -> TRUE

EditsAccepted ==
  /\ session.stage # "EndMessage" => NoEdit(edits) /\ ~raw.ok
  /\ ~Conflicting(edits)
  /\ NullAddress \notin ToSet(edits.toAdded)
  /\ \A k \in DOMAIN AllEdits : CanSend(AllEdits[k])

\* The verdict of an action, or "none" when it does not go with the stage or response.
VerdictOf ==
  CASE action = "reject" /\ response \in {"null", "object"}  -> "Reply"
    [] response # "null"                                     -> "none"
    [] action = "accept"                                     -> "Continue"
    [] action = "discard" /\ session.stage \notin {"Connect", "Helo"} -> "Discard"
    [] action = "quarantine" /\ session.stage = "EndMessage" -> "Continue"
    [] action = "disconnect"                                 -> "Shutdown"
    [] OTHER                                                 -> "none"

Complete == Operating /\ (hasRaw => raw.ok)

Decide ==
  /\ Complete /\ EditsAccepted /\ VerdictOf # "none"
  /\ phase' = "mta"
  /\ mods' = AllEdits \o (IF action = "quarantine" THEN <<Modify("Quarantine", <<>>, <<>>, 0)>>
                          ELSE <<>>)
  /\ verdict' = VerdictOf
  /\ UNCHANGED <<session, hasRaw, count, op, edits, raw, action, response, applied, mta>>

RefuseDecision ==
  /\ Complete /\ ~(EditsAccepted /\ VerdictOf # "none")
  /\ Refused

-----------------------------------------------------------------------------
(* The MTA. *)

\* Where the occurrence-th header of that name is; 0 if there is none.
Located(headers, name, occurrence) ==
  SelectInSeq([p \in DOMAIN headers |-> p],
              LAMBDA p : /\ SameName(headers[p].name, name)
                         /\ Occurrence(headers, p) = occurrence)

ChangeAt(headers, p, v) == IF p = 0 THEN headers
                           ELSE IF v = <<>> THEN RemoveAt(headers, p)
                           ELSE [headers EXCEPT ![p].value = v]

InsertIn(headers, index, h) ==
  InsertAt(headers, IF index < Len(headers) THEN index + 1 ELSE Len(headers) + 1, h)

WithModification(m, t) ==
  CASE m.kind = "ChangeHeader" ->
         [t EXCEPT !.headers = ChangeAt(@, Located(@, m.name, m.index), Sent(m.value))]
    [] m.kind = "InsertHeader" ->
         [t EXCEPT !.headers = InsertIn(@, m.index, [name |-> m.name, value |-> Sent(m.value)])]
    [] m.kind = "AddHeader" ->
         [t EXCEPT !.headers = Append(@, [name |-> m.name, value |-> Sent(m.value)])]
    [] m.kind = "InsertRawHeader" ->
         [t EXCEPT !.headers = InsertIn(@, m.index, [name |-> m.name, value |-> Unspaced(m.value)])]
    [] m.kind = "ReplaceBody"     -> [t EXCEPT !.body = m.value]
    [] m.kind = "ChangeFrom"      -> [t EXCEPT !.from = m.name]
    [] m.kind = "DeleteRecipient" -> [t EXCEPT !.to = @ \ {m.name}]
    [] m.kind = "AddRecipient"    -> [t EXCEPT !.to = @ \cup {m.name}]
    [] OTHER                      -> t

\* complete sends the modifications of a message that goes on, and of no other.
MtaApplies ==
  /\ phase = "mta" /\ verdict = "Continue" /\ applied < Len(mods)
  /\ mta' = WithModification(mods[applied + 1], mta)
  /\ applied' = applied + 1
  /\ UNCHANGED <<session, hasRaw, phase, count, op, edits, raw, action, response, decision>>

MtaDone ==
  /\ phase = "mta" /\ (verdict = "Continue" => applied = Len(mods))
  /\ phase' = IF verdict = "Continue" THEN "done" ELSE "dropped"
  /\ UNCHANGED <<session, hasRaw, count, op, edits, raw, action, response, decision, applied, mta>>

-----------------------------------------------------------------------------
TranslateInit ==
  /\ session \in Sessions /\ hasRaw \in BOOLEAN
  /\ phase = "set" /\ count = 0 /\ op = [kind |-> "none"]
  /\ edits = NewEdits(session) /\ raw = NoRaw
  /\ action = "accept" /\ response = "null"
  /\ mods = <<>> /\ verdict = "none" /\ applied = 0
  /\ mta = [headers |-> session.headers, body |-> session.body, from |-> Unset,
            to |-> ToSet(session.to)]

Headers == [name : NewNames, value : NewValues]

TranslateNext ==
  \/ \E i \in 0 .. MaxHeaders, v \in NewValues : SetHeader(i, v)
  \/ \E a \in NewAddresses : SetFrom(a)
  \/ \E i \in -1 .. MaxHeaders, h \in Headers : AddHeader(i, h)
  \/ \E i \in -1 .. MaxRecipients, a \in NewAddresses : AddTo(i, a)
  \/ \E i \in 0 .. MaxHeaders : DeleteHeader(i)
  \/ \E i \in 0 .. MaxRecipients : DeleteTo(i)
  \/ \E list \in {"set", "add", "delete"} : Ignore(list)
  \/ \E r \in Replacements \cup {Echo} : SetRaw(r)
  \/ \E text \in BadReplacements : SetBadRaw(text)
  \/ \E a \in Actions : SetAction(a)
  \/ \E v \in Answers : SetResponse(v)
  \/ \E good \in BOOLEAN : SetResponseField(good)
  \/ RefuseOperation \/ Decide \/ RefuseDecision \/ MtaApplies \/ MtaDone

TranslateSpec == TranslateInit /\ [][TranslateNext]_translateVars

-----------------------------------------------------------------------------
(***************************************************************************)
(* Refinement mapping.  The scanner's view of the message is read off the  *)
(* slots: an original header with its last change, or an added one.  A     *)
(* replacement is what its modifications make of the message.              *)
(***************************************************************************)
SlotHeader(slot) ==
  IF slot.kind = "Added"
  THEN [edits.added[slot.at] EXCEPT !.value = Sent(@)]
  ELSE LET k == SelectLastInSeq(edits.changes, LAMBDA c : c.at = slot.at)
       IN IF k = 0 THEN session.headers[slot.at]
          ELSE [session.headers[slot.at] EXCEPT !.value = Sent(edits.changes[k].value)]

SlotAddress(slot) == IF slot.kind = "Added" THEN edits.toAdded[slot.at] ELSE session.to[slot.at]

Received == [headers |-> session.headers, body |-> session.body, from |-> Unset, to |-> session.to]

Wanted ==
  LET start == [headers |-> [p \in DOMAIN edits.headers |-> SlotHeader(edits.headers[p])],
                body |-> session.body, from |-> edits.from,
                to |-> [p \in DOMAIN edits.to |-> SlotAddress(edits.to[p])]]
  IN FoldLeft(LAMBDA t, m : WithModification(m, t), start, raw.mods)

Abstract == INSTANCE EditedMessage WITH
  replacing <- hasRaw,
  editable <- session.stage = "EndMessage",
  message <- Wanted,
  status <- CASE phase = "done" -> "delivered"
              [] phase \in {"dropped", "refused"} -> "refused"
              [] OTHER -> "open",
  delivered <- IF phase = "mta" THEN [Received EXCEPT !.to = ToSet(@)] ELSE mta

\* The modifications of an answer, applied one by one by the MTA, give the message and
\* the envelope that its operations describe when they are applied to the lists the
\* scanner saw; an answer that is refused, by the translation or for the message's sake,
\* changes nothing (translate, "No modification is emitted until the whole response is
\* checked").
DeliversEdits == Abstract!EditSpec

\* Every variable has its type.
TranslateTypeOK ==
  /\ session \in Sessions /\ hasRaw \in BOOLEAN
  /\ phase \in {"set", "add", "delete", "mta", "done", "dropped", "refused"}
  /\ count \in 0 .. MaxModifications /\ applied \in 0 .. Len(mods)
  /\ edits.headers \in Seq([kind : {"Original", "Added"}, at : Nat])
  /\ edits.deletes \in Seq(DOMAIN session.headers)
  /\ response \in {"null", "object", "badObject", "scalar"}
  /\ verdict \in {"none", "Continue", "Reply", "Discard", "Shutdown"}
  /\ DOMAIN mta = {"headers", "body", "from", "to"}

\* A line feed only folds the value.
FoldsOnly(v) == \A i \in DOMAIN v : v[i] = "lf" => i < Len(v) /\ v[i + 1] \in Blanks

\* A scanner that sends the raw message back as it got it causes no edit at all:
\* raw_replacement recognises every field that raw_message wrote, folded and empty
\* values too.  The MTA's headers are taken to be header fields, which the session does not
\* check.
EchoIsNoop ==
  /\ op.kind = "setRaw" /\ op.echo
  /\ \A i \in DOMAIN session.headers : /\ HeaderName(session.headers[i].name)
                                       /\ FoldsOnly(session.headers[i].value)
  /\ Len(Text(Echo.fields, Echo.ending, Echo.body)) <= MessageBytes
  => raw = [ok |-> TRUE, mods |-> <<>>]

\* A header modification is one field in the message whatever its value holds: read back
\* by the parser it is the same name and value and no second field.
OneFieldEach ==
  \A k \in DOMAIN mods :
    mods[k].kind \in {"AddHeader", "InsertHeader", "ChangeHeader", "InsertRawHeader"} =>
      LET f == [name |-> mods[k].name, value |-> mods[k].value]
      IN Parse(Text(<<f>>, <<"cr", "lf">>, <<>>)).fields = <<f>>

\* README: "Header and recipient counts after hook edits are held to the same limits",
\* whichever mixture of additions, deletions and replacement an answer holds.
CountsHeld ==
  phase = "done" => Len(mta.headers) <= MaxHeaders /\ Cardinality(mta.to) <= MaxRecipients

\* modifications: "Emit milter frames in an order whose indexes stay valid as the MTA
\* applies them".  A header set to nothing may go; the others must be where they were
\* put.
IndexesStayValid ==
  phase = "done" /\ ~hasRaw =>
    LET kept == SelectSeq(edits.headers, LAMBDA slot :
                  slot.kind = "Original" => [at |-> slot.at, value |-> <<>>] \notin ToSet(edits.changes))
    IN mta.headers = [p \in DOMAIN kept |-> SlotHeader(kept[p])]
=============================================================================
