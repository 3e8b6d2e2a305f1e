-------------------------- MODULE MCHookTranslation --------------------------
(***************************************************************************)
(* Small instances of HookTranslation: up to three original headers, two   *)
(* of them able to share a name in either case, with and without the       *)
(* leading-space option, folded values, three operations.                  *)
(***************************************************************************)
EXTENDS HookTranslation

Field(n, v) == [name |-> <<n>>, value |-> v]
ListsOf(fields, n) == UNION {[1 .. k -> fields] : k \in 0 .. n}

SpacedFields == {Field("a", <<"sp", "x">>), Field("A", <<"sp", "x">>), Field("b", <<"sp", "x">>)}
BareFields == {Field("a", <<"x">>), Field("a", <<"lf", "sp", "y">>), Field("b", <<>>)}

AtEom(headers, leading) ==
  [headers |-> headers, to |-> <<"p">>, body |-> <<"y">>, leading |-> leading,
   stage |-> "EndMessage"]
AtHelo == [headers |-> <<>>, to |-> <<>>, body |-> <<>>, leading |-> TRUE, stage |-> "Helo"]

SpacedSessions ==
  {AtEom(h, TRUE) : h \in {<<>>} \cup {<<f>> : f \in SpacedFields}
                           \cup {<<Field("a", <<"sp", "x">>), f, g>> : f \in SpacedFields,
                                  g \in {Field("a", <<"sp", "x">>), Field("b", <<"sp", "x">>)}}}
BareSessions == {AtEom(<<f, g>>, FALSE) : f, g \in BareFields}
SomeSessions == SpacedSessions \cup BareSessions \cup {AtHelo}

UpToOperations == [replacing \in BOOLEAN |-> IF replacing THEN 2 ELSE 3]
GoodAndBadValues == {<<"x">>, <<"y", "lf", "a", ":">>}
EmptyOrNot == {<<>>, <<"x">>}
OneName == {<<"a">>}
SomeAddresses == {"p", NullAddress}

RawValues == {<<"sp", "x">>, <<"x">>, <<"lf", "sp", "y">>, <<"sp", "x", "lf", "sp", "y">>}
SomeReplacements ==
  {[fields |-> fs, ending |-> <<"cr", "lf">>, body |-> <<"y">>] :
     fs \in ListsOf(SpacedFields, 2) \cup {<<f, g, f>> : f, g \in SpacedFields}}
  \cup {[fields |-> <<Field("a", v), Field("b", w)>>, ending |-> <<"lf">>, body |-> <<"x", "lf">>] :
          v, w \in RawValues}
NoMessages == {<<"a", ":", "sp", "x", "lf">>, <<"sp", "a", ":", "x", "lf", "lf">>,
               <<"a", "lf", "lf">>, <<":", "x", "lf", "lf">>, <<"a", "sp", ":", "lf", "lf">>, <<>>}
=============================================================================
