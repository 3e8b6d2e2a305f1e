----------------------------- MODULE RawMessage -----------------------------
(***************************************************************************)
(* Messages as text: how a session writes its header fields and body       *)
(* (src/src/session.rs, raw_message), how a replacement is read back       *)
(* (src/src/hooks.rs, raw_replacement) and which header values may be put  *)
(* on the wire (src/src/protocol.rs, header_value).                        *)
(*                                                                         *)
(* Text is a sequence of characters, one letter for each class the code    *)
(* tells apart: letters, "A" being the other case of "a", ":", the blanks  *)
(* "sp" and "tab", the breaks "cr" and "lf", and "ctl" for every other     *)
(* control character.  A field is a name and a value, both text.           *)
(***************************************************************************)
EXTENDS Integers, Sequences, SequencesExt

Blanks == {"sp", "tab"}
Breaks == {"cr", "lf"}
NameChars == {"a", "A", "b", "x", "y"}
Chars == NameChars \cup {":", "ctl"} \cup Blanks \cup Breaks
Fields == [name : Seq(Chars), value : Seq(Chars)]

LowerChar(c) == IF c = "A" THEN "a" ELSE c
SameName(m, n) == /\ Len(m) = Len(n)
                  /\ \A i \in DOMAIN m : LowerChar(m[i]) = LowerChar(n[i])

\* The members of a finite set of numbers in increasing order.
Ascending(S) ==
  [k \in 1 .. Cardinality(S) |-> CHOOSE p \in S : Cardinality({q \in S : q <= p}) = k]

StartsWith(v, chars) == v # <<>> /\ Head(v) \in chars

-----------------------------------------------------------------------------
(* Writing *)

\* Fault: an empty line may end the fold.
LooseHeaderValue(v) ==
  \A i \in DOMAIN v : /\ v[i] = "cr" => i < Len(v) /\ v[i + 1] = "lf"
                      /\ v[i] # "ctl"

\* header_value: folds only, no bare carriage return, no control character.
HeaderValue(v) ==
  \A i \in DOMAIN v : /\ v[i] = "cr" => i < Len(v) /\ v[i + 1] = "lf"
                      /\ v[i] = "lf" => i < Len(v) /\ v[i + 1] \in Blanks
                      /\ v[i] # "ctl"

HeaderName(n) == n # <<>> /\ \A i \in DOMAIN n : n[i] \in NameChars

\* What raw_message writes after the colon.
ColonText(v, leading) ==
  IF leading \/ StartsWith(v, Breaks) THEN v ELSE <<"sp">> \o v

Line(f, ending) == f.name \o <<":">> \o f.value \o ending

\* The text of a list of fields (values as after the colon) and a body.
Text(fields, ending, body) ==
  FlattenSeq([i \in DOMAIN fields |-> Line(fields[i], ending)]) \o ending \o body

RawFields(headers, leading) ==
  [i \in DOMAIN headers |-> [headers[i] EXCEPT !.value = ColonText(@, leading)]]

-----------------------------------------------------------------------------
(* Reading: the lines up to the first empty one are the header. *)

LineEnds(raw) == Ascending({i \in DOMAIN raw : raw[i] = "lf"})

\* The last character of a line, without its break.
ContentEnd(raw, start, end) ==
  IF end > start /\ raw[end - 1] = "cr" THEN end - 2 ELSE end - 1

Lines(raw) ==
  LET ends == LineEnds(raw)
      start(k) == IF k = 1 THEN 1 ELSE ends[k - 1] + 1
  IN [k \in DOMAIN ends |-> [start |-> start(k),
                             last |-> ContentEnd(raw, start(k), ends[k]),
                             next |-> ends[k] + 1]]

Malformed == [ok |-> FALSE, fields |-> <<>>, body |-> <<>>]

\* The fields (value: everything after the colon, folds included) and the body, or the
\* error for a text without an empty line, with a continuation before the first field,
\* a line without a colon or a name that is not one.
Parse(raw) ==
  LET lines == Lines(raw)
      content(k) == SubSeq(raw, lines[k].start, lines[k].last)
      blank == SelectInSeq(lines, LAMBDA l : l.last < l.start)
      continued(k) == StartsWith(content(k), Blanks)
      colon(k) == SelectInSeq(content(k), LAMBDA c : c = ":")
      name(k) == SubSeq(content(k), 1, colon(k) - 1)
      first == Ascending({k \in 1 .. blank - 1 : ~continued(k)})
      lastOf(j) == IF j = Len(first) THEN blank - 1 ELSE first[j + 1] - 1
  IN IF \/ blank = 0
        \/ blank > 1 /\ continued(1)
        \/ \E j \in DOMAIN first : colon(first[j]) = 0 \/ ~HeaderName(name(first[j]))
     THEN Malformed
     ELSE [ok |-> TRUE,
           fields |-> [j \in DOMAIN first |->
                         [name |-> name(first[j]),
                          value |-> SubSeq(raw, lines[first[j]].start + colon(first[j]),
                                           lines[lastOf(j)].last)]],
           body |-> SubSeq(raw, lines[blank].next, Len(raw))]
=============================================================================
