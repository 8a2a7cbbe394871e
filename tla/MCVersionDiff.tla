---------------------------- MODULE MCVersionDiff ----------------------------
(***************************************************************************)
(* VersionDiff on small instances for TLC: requests to two destinations,   *)
(* bodies whose leaves come from the caller, the config or the package,    *)
(* one body that is not JSON, and one request that differs from another    *)
(* only in its headers; a number and the truth value Python takes for its  *)
(* equal.                                                                  *)
(***************************************************************************)
EXTENDS VersionDiff

Req(to, other, json, leaves) ==
  [to |-> to, other |-> other, json |-> json, leaves |-> leaves]

Plain == Req("api", "h1", TRUE, [text |-> "caller", tag |-> "1"])
Alike == Req("api", "h1", TRUE, [text |-> "caller", tag |-> "true"])
Other == Req("api", "h1", TRUE, [text |-> "caller", tag |-> "y"])
Extra == Req("api", "h1", TRUE, [text |-> "caller", tag |-> "1", bcc |-> "z"])
Header == Req("api", "h2", TRUE, [text |-> "caller", tag |-> "1"])
Echo == Req("api", "h1", TRUE, [text |-> "caller"])
Config == Req("web", "h1", TRUE, [key |-> "config"])
Opaque == Req("web", "h1", FALSE, <<>>)

MCRequests == {Plain, Alike, Other, Extra, Header, Echo, Config, Opaque}
Values == {"caller", "config", "1", "true", "y", "z"}
MCEqualValues == {<<v, v>> : v \in Values} \cup {<<"1", "true">>, <<"true", "1">>}
MCEffects == {"spawn", "write_event"}

Obs(requests, effects, error) ==
  [requests |-> requests, effects |-> effects, error |-> error]

MCObserved ==
  {Obs(s, {}, FALSE) : s \in {<<>>, <<Plain>>, <<Alike>>, <<Extra>>, <<Header>>, <<Echo>>, <<Opaque>>,
                              <<Config>>, <<Plain, Other>>, <<Other, Plain>>,
                              <<Plain, Plain>>, <<Config, Plain>>, <<Echo, Echo>>}}
    \cup {Obs(<<Plain>>, {"spawn"}, FALSE), Obs(<<Plain>>, {"write_event"}, FALSE),
          Obs(<<>>, {"spawn", "write_event"}, FALSE), Obs(<<Plain>>, {}, TRUE)}
=============================================================================
