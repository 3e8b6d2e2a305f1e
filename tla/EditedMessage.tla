---------------------------- MODULE EditedMessage ----------------------------
(***************************************************************************)
(* What a hook response promises, whatever wire edits it becomes: its      *)
(* operations apply one after the other to the message and the envelope    *)
(* as the scanner saw them, and the result is delivered as a whole or not  *)
(* at all.  A replacement of the raw message silences the operations on    *)
(* the structured one.                                                     *)
(***************************************************************************)
EXTENDS Integers, Sequences, SequencesExt

VARIABLES
  op,         \* the operation applied last
  replacing,  \* the response replaces the raw message
  editable,   \* it answers the data stage
  message,    \* the scanner's view: headers, body, from, to
  status,     \* open, delivered or refused
  delivered   \* what the MTA holds

editVars == <<op, replacing, editable, message, status, delivered>>

\* Index -1 is "at the end".
Inserted(list, index, e) ==
  IF index = -1 THEN Append(list, e) ELSE InsertAt(list, index + 1, e)

\* The envelope's recipients are a set to the MTA.
AsDelivered(m) == [m EXCEPT !.to = ToSet(@)]

Apply(o, m) ==
  CASE o.kind = "setHeader"    -> [m EXCEPT !.headers[o.index + 1].value = o.arg]
    [] o.kind = "addHeader"    -> [m EXCEPT !.headers = Inserted(@, o.index, o.arg)]
    [] o.kind = "deleteHeader" -> [m EXCEPT !.headers = RemoveAt(@, o.index + 1)]
    [] o.kind = "setFrom"      -> [m EXCEPT !.from = o.arg]
    [] o.kind = "addTo"        -> [m EXCEPT !.to = Inserted(@, o.index, o.arg)]
    [] o.kind = "deleteTo"     -> [m EXCEPT !.to = RemoveAt(@, o.index + 1)]
    [] o.kind = "setRaw"       -> [m EXCEPT !.headers = o.arg.headers, !.body = o.arg.body]
    [] OTHER                   -> m

EditInit == /\ status = "open" /\ op = [kind |-> "none"]
            /\ delivered = AsDelivered(message)

Operate == /\ status = "open"
           /\ op'.kind \in {"setHeader", "addHeader", "deleteHeader"} => ~replacing
           /\ op'.kind \in {"setRaw", "ignored"} => replacing
           /\ op'.kind # "malformed"
           /\ message' = Apply(op', message)
           /\ UNCHANGED <<replacing, editable, status, delivered>>

Deliver == /\ status = "open" /\ status' = "delivered"
           /\ editable \/ delivered = AsDelivered(message)
           /\ delivered' = AsDelivered(message)
           /\ UNCHANGED <<op, replacing, editable, message>>

Refuse == /\ status = "open" /\ status' = "refused"
          /\ UNCHANGED <<replacing, editable, message, delivered>>

EditSpec == EditInit /\ [][Operate \/ Deliver \/ Refuse]_editVars
=============================================================================
