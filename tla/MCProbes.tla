----------------------------- MODULE MCProbes -------------------------------
(***************************************************************************)
(* Tools for Probes: every combination of three kinds of schema under the  *)
(* names "to" (an address), "link" (a URL), "x", and "x.to", which looks   *)
(* like a path, with any of them required; and a tool whose name and       *)
(* parameter are those of a configuration value.                           *)
(***************************************************************************)
EXTENDS Probes

Schema(type) == [PlainString EXCEPT !.type = type]
To == <<"to">>
Link == <<"link">>
X == <<"x">>
XTo == <<"x", ".", "to">>
Absent == <<"absent">>

Leafs == {PlainString, Schema(<<>>), Schema(<<"null", "integer">>),
          [PlainString EXCEPT !.format = "uri"], [PlainString EXCEPT !.enum = <<"a">>]}
ObjectOf(p) == [Schema(<<>>) EXCEPT !.properties = <<p>>]
ListOf(s) == [Schema(<<"array">>) EXCEPT !.items = <<s>>]
Empty == ObjectOf(<<>>)
Flat == Leafs \cup {Schema(<<"boolean">>), Empty}
Lists == {ListOf(s) : s \in Flat} \cup {Schema(<<"array">>)}
Nested == {ListOf(ListOf(PlainString))}
            \cup {ObjectOf((To :> s) @@ (X :> ListOf(t))) : s, t \in Leafs}

MCSchemas == Flat \cup Lists \cup Nested
MCDepth ==
  [s \in MCSchemas |-> CASE s \in Flat -> 0 [] s \in Lists -> 1 [] s \in Nested -> 2]

Wide == {(X :> s) @@ (To :> t) @@ (k :> PlainString) :
           s \in Leafs \cup Nested \cup {ListOf(Schema(<<"boolean">>)), Schema(<<"array">>), Empty},
           t \in Leafs, k \in {Link, XTo}}
MCTools ==
  {[name |-> "send", properties |-> p, required |-> r] : p \in Wide, r \in SUBSET {X, To, Absent}}
    \cup {[name |-> "__config__", properties |-> <<"TOKEN">> :> PlainString, required |-> {}]}

MCKeys == {To, Link, X, XTo, Absent, <<"TOKEN">>}
MCEmailNames == {To}
MCUrlNames == {Link}
MCConfigNames == {<<"TOKEN">>, <<"EMAIL_FROM">>, <<"STREAM">>}
MCEmailConfig == {<<"EMAIL_FROM">>}
MCStreamConfig == {<<"STREAM">>}
=============================================================================
