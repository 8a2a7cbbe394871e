------------------------------- MODULE Probes -------------------------------
(***************************************************************************)
(* probes.py: the arguments a tool is called with, made from its input     *)
(* schema, and their use in observe.py, where a refused call is retried    *)
(* with the required arguments only.                                       *)
(*                                                                         *)
(* A key is a sequence of units, so that "a.b" is <<"a", ".", "b">>; a     *)
(* path is what the f-strings of value_for join.  A nonce is the text it   *)
(* is the digest of, digests being taken as distinct.  A string is the     *)
(* sequence of its words and separators.  A value is the set of its        *)
(* leaves: the place of each below the value, and its words, none when it  *)
(* is a number, true or taken from an enum.                                *)
(***************************************************************************)
EXTENDS Integers, Sequences, SequencesExt

CONSTANTS
  Names,                \* of tools
  Letters,              \* what keys and paths consist of
  Keys,                 \* names of parameters
  Schemas,              \* every schema, and those inside of it
  Depth, MaxDepth,      \* how many schemas deep each one nests
  Tools,                \* each with its name and input schema
  EmailNames, UrlNames, \* keys that contain one of the hints
  ConfigNames,          \* names in .env.example
  EmailConfig, StreamConfig

Token(name, path) == [kind |-> "token", of |-> <<name, path>>]
Word(text) == [kind |-> "word", of |-> text]
IsToken(word) == word.kind = "token"

VARIABLES
  tool,                 \* the tool being called
  calls                 \* the arguments of its calls so far

probeVars == <<tool, calls>>

(* Not the code: a token at the beginning of a host name is missed.        *)
SeparatorsButDot == {Word("@"), Word("/")}

Separators == {Word("@"), Word("."), Word("/")}

Leaf(words) == [place |-> <<>>, words |-> words]
Under(key, leaf) == [place |-> <<key>> \o leaf.place, words |-> leaf.words]
Within(key, leaves) == {Under(key, leaf) : leaf \in leaves}

(* key is the parameter's name, or the path where there is none; value_for *)
(* never comes here with an enum.                                          *)
_string_for(name, path, key, schema) ==
  LET token == Token(name, path) IN
  CASE schema.format = "email" \/ key \in EmailNames ->
         <<token, Word("@"), Word("example"), Word("."), Word("invalid")>>
    [] schema.format # "email" /\ key \notin EmailNames
         /\ (schema.format = "uri" \/ key \in UrlNames) ->
         <<Word("https:"), Word("/"), Word("/"), token, Word("."), Word("example"),
           Word("."), Word("invalid"), Word("/"), Word("probe")>>
    [] OTHER -> <<token>>

(* A list of types stands for its first that is not "null"; no type is an  *)
(* object's where there are properties; any unknown one a string's.        *)
Declared(schema) ==
  LET named == SelectSeq(schema.type, LAMBDA t : t # "null") IN
  CASE named # <<>> -> named[1]
    [] schema.type = <<>> /\ schema.properties # <<>> -> "object"
    [] OTHER -> "string"

PlainString ==
  [type |-> <<"string">>, enum |-> <<>>, format |-> "", properties |-> <<>>, items |-> <<>>]

Items(schema) == IF schema.items = <<>> THEN PlainString ELSE schema.items[1]
Properties(schema) == IF schema.properties = <<>> THEN <<>> ELSE schema.properties[1]

Paths == Seq(Letters)

ASSUME TextAssumption == {".", "[0]"} \subseteq Letters /\ Keys \subseteq Paths

(* A schema is a finite text.                                              *)
ASSUME SchemasAssumption ==
  /\ MaxDepth \in Nat /\ Depth \in [Schemas -> 0..MaxDepth]
  /\ \A s \in Schemas :
       /\ Declared(s) = "array" => Items(s) \in Schemas /\ Depth[Items(s)] < Depth[s]
       /\ DOMAIN Properties(s) \subseteq Keys
       /\ \A k \in DOMAIN Properties(s) :
            Properties(s)[k] \in Schemas /\ Depth[Properties(s)[k]] < Depth[s]

ASSUME ToolsAssumption ==
  \A t \in Tools :
    /\ t.name \in Names /\ DOMAIN t.properties \subseteq Keys
    /\ \A k \in DOMAIN t.properties : t.properties[k] \in Schemas

(* Not the code: a nested value is named by its own key alone.             *)
BelowByName(path, k) == k

Below(path, k) == path \o <<".">> \o k

(* What value_for is asked for, and asks itself for in turn.               *)
Asked == [name : Names, path : Paths, key : Keys, schema : Schemas]
Element == <<"[0]">>
ElementOf(a) ==
  [name |-> a.name, path |-> a.path \o Element, key |-> a.key, schema |-> Items(a.schema)]
MemberOf(a, k) ==
  [name |-> a.name, path |-> Below(a.path, k), key |-> k, schema |-> Properties(a.schema)[k]]

(* The body of value_for, which calls itself as `value`.                   *)
Makes(value, a) ==
  LET schema == a.schema IN
  CASE schema.enum # <<>> \/ Declared(schema) \in {"integer", "number", "boolean"} ->
         {Leaf(<<>>)}
    [] schema.enum = <<>> /\ Declared(schema) = "array" -> Within(Element, value[ElementOf(a)])
    [] schema.enum = <<>> /\ Declared(schema) = "object" ->
         UNION {Within(k, value[MemberOf(a, k)]) : k \in DOMAIN Properties(schema)}
    [] OTHER -> {Leaf(_string_for(a.name, a.path, IF a.key = <<>> THEN a.path ELSE a.key, schema))}

value_for[a \in Asked] == Makes(value_for, a)

Argument(t, k) == [name |-> t.name, path |-> k, key |-> k, schema |-> t.properties[k]]

arguments_for(t, required_only) ==
  UNION {Within(k, value_for[Argument(t, k)]) :
         k \in IF required_only THEN t.required \cap DOMAIN t.properties ELSE DOMAIN t.properties}

(* declared_config: what .env.example names gets a token as well.          *)
declared_config ==
  [n \in ConfigNames |->
     CASE n \in EmailConfig ->
            <<Token("__config__", n), Word("@"), Word("example"), Word("."), Word("invalid")>>
       [] n \in StreamConfig \ EmailConfig -> <<Word("outbound")>>
       [] OTHER -> <<Token("__config__", n)>>]

ProbeInit == tool \in Tools /\ calls = <<>>

(* The full call, and after a refusal the minimum.                         *)
Call ==
  /\ Len(calls) < 2
  /\ calls' = Append(calls, arguments_for(tool, Len(calls) = 1))
  /\ UNCHANGED tool

ProbeSpec == ProbeInit /\ [][Call]_probeVars
-----------------------------------------------------------------------------
(* diff.py, `_tokens_from` and `attribute`, for the texts we supplied.     *)
Chunks(words) ==
  {SubSeq(words, b[1], b[2]) :
     b \in {b \in (DOMAIN words) \X (DOMAIN words) :
             /\ b[1] <= b[2]
             /\ \A n \in b[1]..b[2] : words[n] \notin Separators
             /\ b[1] = 1 \/ words[b[1] - 1] \in Separators
             /\ b[2] = Len(words) \/ words[b[2] + 1] \in Separators}}

_tokens_from(leaves) ==
  {chunk[1] : chunk \in {c \in UNION {Chunks(leaf.words) : leaf \in leaves} :
                           Len(c) = 1 /\ IsToken(c[1])}}

Holds(words, tokens) == ToSet(words) \cap tokens # {}
attribute(words, caller, config) ==
  CASE Holds(words, caller) -> "caller_input"
    [] ~Holds(words, caller) /\ Holds(words, config) -> "declared_config"
    [] OTHER -> "unattributed"

CallerTokens == _tokens_from(calls[Len(calls)])
ConfigTokens == _tokens_from({Leaf(declared_config[n]) : n \in ConfigNames})

(* A place whose keys do not look like paths of their own.                 *)
SimplePlace(place) == \A i \in DOMAIN place : Len(place[i]) = 1

(* probes.py:34: a token in the traffic names one argument. Two texts in   *)
(* different places of one call, at any depth, never share a token, as     *)
(* long as no key on the way to them looks like a path of its own.         *)
TokensNameArguments ==
  \A i \in DOMAIN calls : \A s, t \in calls[i] :
    /\ SimplePlace(s.place) /\ SimplePlace(t.place)
    /\ \E w \in ToSet(s.words) \cap ToSet(t.words) : IsToken(w)
    => s = t

(* diff.py:65: what a tool sends on unchanged, of the arguments it was     *)
(* last called with or of its configuration, is attributed to where it     *)
(* came from exactly if it carries a token, plain or inside an address or  *)
(* a URL. A number, a boolean, a value of an enum and the stream of a      *)
(* configuration carry none: sent on, they count as nobody's. Only a tool  *)
(* with the name under which declared_config makes its tokens could        *)
(* confuse the two sources.                                                *)
CarriesToken(words) == \E w \in ToSet(words) : IsToken(w)

EchoesAreAttributed ==
  calls # <<>> =>
    /\ \A t \in calls[Len(calls)] :
         attribute(t.words, CallerTokens, ConfigTokens) =
           IF CarriesToken(t.words) THEN "caller_input" ELSE "unattributed"
    /\ tool.name # "__config__" => \A n \in ConfigNames :
         attribute(declared_config[n], CallerTokens, ConfigTokens) =
           IF CarriesToken(declared_config[n]) THEN "declared_config" ELSE "unattributed"
=============================================================================
