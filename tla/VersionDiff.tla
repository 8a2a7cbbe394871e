----------------------------- MODULE VersionDiff -----------------------------
(***************************************************************************)
(* scan.py, the folding of runs in observe.py, and diff.py: from what each *)
(* run of two versions saw of one tool, or of one install hook, to the row *)
(* of the report about it.                                                 *)
(*                                                                         *)
(* The loops over names treat each name by itself, so the state is that of *)
(* one arbitrary name, of either kind.  What a run sees of it is an input: *)
(* any member of Observed, or nothing when the run did not list the name.  *)
(* A request is its destination (host, method and path without query), the *)
(* leaves of its body if that is JSON, and everything else about it, which *)
(* only the comparison of runs looks at.  An effect is one file change,    *)
(* spawn, read or write event.                                             *)
(***************************************************************************)
EXTENDS Integers, Sequences, FiniteSets, SequencesExt

CONSTANTS
  Runs,             \* runs of each version
  Requests,         \* requests a package may send: [to, other, json, leaves]
  Effects,          \* side effects a run may see
  ReportedEffects,  \* those the diff looks at; a write event is not one
  Observed,         \* observations a run may make: [requests, effects, error]
  CallerValues,     \* values that contain a token of the call's arguments
  ConfigValues,     \* values that contain a token of the declared config
  EqualValues       \* pairs of values that Python's == holds of: 1, 1.0 and
                    \* true are alike to it

ASSUME DiffBounds ==
  /\ Runs \in Nat \ {0}
  /\ ReportedEffects \subseteq Effects
  /\ \A o \in Observed : /\ o.requests \in Seq(Requests)
                         /\ o.effects \subseteq Effects
                         /\ o.error \in BOOLEAN

Versions == {"old", "new"}
Verdicts == {"consistent", "undeclared", "cannot_conclude", "unstable"}

VARIABLES
  kind,             \* what the name is: "tool" or "hook"
  results,          \* per version, what each run so far saw: {} or {observation}
  folded,           \* per version, {} or {its part of the VersionObservation}
  report            \* {} or {the row about this name}

diffVars == <<kind, results, folded, report>>

-----------------------------------------------------------------------------
(* Runs of one version. *)

Count(q, s) == Cardinality({i \in DOMAIN s : s[i] = q})

(* Not the code: a key without what was sent. *)
KeyWithoutRequests(o) ==
  [requests |-> Len(o.requests), effects |-> o.effects, error |-> o.error]

(* Two runs agree when the keys of their observations are equal: the same  *)
(* requests in any order, the same effects, and an error in both or none.  *)
ObservationKey(o) ==
  [requests |-> [q \in Requests |-> Count(q, o.requests)],
   effects |-> o.effects,
   error |-> o.error]

(* Not the code: runs that did not list the name are passed over. *)
AgreeWhereSeen(rs) ==
  \A i \in DOMAIN rs : \A a \in rs[1], b \in rs[i] :
    ObservationKey(a) = ObservationKey(b)

Agree(rs) ==
  /\ \A i \in DOMAIN rs : rs[i] # {}
  /\ \A i \in DOMAIN rs : \A a \in rs[1], b \in rs[i] :
       ObservationKey(a) = ObservationKey(b)

(* The first run decides which names there are and what is kept of them. *)
FoldRuns(rs) ==
  [listed |-> rs[1] # {}, seen |-> rs[1],
   unstable |-> rs[1] # {} /\ ~Agree(rs)]

-----------------------------------------------------------------------------
(* Two versions. *)

Leaves(q) == {<<p, q.leaves[p]>> : p \in DOMAIN q.leaves}

HasEqual(q, leaf) ==
  leaf[1] \in DOMAIN q.leaves /\ <<q.leaves[leaf[1]], leaf[2]>> \in EqualValues

(* Install hooks take no arguments, so nothing they send is a caller's. *)
Attribution(value) ==
  IF kind = "tool" /\ value \in CallerValues THEN "caller_input"
  ELSE IF value \in ConfigValues THEN "declared_config"
  ELSE "unattributed"

(* Where s[i] stands among the requests of s to the same destination. *)
Rank(s, i) == Cardinality({j \in 1 .. i : s[j].to = s[i].to})

(* Not the code: the first old request there, taken or not. *)
MatchWithReuse(old, new) ==
  [i \in DOMAIN new |->
    [new |-> new[i],
     old |-> {old[j] : j \in {j \in DOMAIN old : /\ old[j].to = new[i].to
                                                 /\ Rank(old, j) = 1}}]]

(* The n-th new request to a destination is compared with the n-th old one *)
(* there.  That is what the loop below computes: it takes the first old    *)
(* request to the destination that no earlier new request has taken.       *)
MatchRequests(old, new) ==
  [i \in DOMAIN new |->
    [new |-> new[i],
     old |-> {old[j] : j \in {j \in DOMAIN old : /\ old[j].to = new[i].to
                                                 /\ Rank(old, j) = Rank(new, i)}}]]

(* Not the code: one turn of the loop that leaves the match in place. *)
MatchKeeps(acc, q) ==
  LET same == {i \in DOMAIN acc.remaining : acc.remaining[i].to = q.to}
      first == {acc.remaining[i] : i \in {i \in same : \A j \in same : i <= j}}
  IN  [acc EXCEPT !.pairs = Append(@, [new |-> q, old |-> first])]

(* One turn of the loop over the new requests. *)
MatchOne(acc, q) ==
  LET same == {i \in DOMAIN acc.remaining : acc.remaining[i].to = q.to}
  IN  IF same = {}
      THEN [acc EXCEPT !.pairs = Append(@, [new |-> q, old |-> {}])]
      ELSE LET i == CHOOSE i \in same : \A j \in same : i <= j
           IN  [remaining |-> RemoveAt(acc.remaining, i),
                pairs |-> Append(acc.pairs, [new |-> q, old |-> {acc.remaining[i]}])]

MatchLoop(old, new) ==
  LET after[k \in 0 .. Len(new)] ==          \* what k turns leave
        IF k = 0 THEN [remaining |-> old, pairs |-> <<>>]
        ELSE MatchOne(after[k - 1], new[k])
  IN  after[Len(new)].pairs

RequestFinding(leaf, q, what) ==
  [what |-> what, leaf |-> leaf, attribution |-> Attribution(leaf[2]), request |-> q]

(* Not the code: a request with no counterpart has nothing to compare. *)
AddedIgnored(q) == {}

(* A request with no counterpart: the parts of it that did not come from us. *)
AddedFindings(q) ==
  {RequestFinding(leaf, q, "request_added") :
     leaf \in {l \in Leaves(q) : Attribution(l[2]) = "unattributed"}}

(* A request with a counterpart: every leaf with no equal there. *)
ChangedFindings(q, before) ==
  {RequestFinding(leaf, q, IF leaf[1] \in DOMAIN before.leaves
                           THEN "request_field_changed" ELSE "request_field_added") :
     leaf \in {l \in Leaves(q) : ~HasEqual(before, l)}}

(* Only a JSON body is looked into. *)
PairFindings(pair) ==
  IF ~pair.new.json THEN {}
  ELSE IF pair.old = {} THEN AddedFindings(pair.new)
  ELSE UNION {ChangedFindings(pair.new, before) : before \in pair.old}

DiffTool(old, new) ==
  UNION {PairFindings(MatchRequests(old, new)[i]) : i \in DOMAIN new}

DiffSideEffects(old, new) ==
  {[what |-> "side_effect", effect |-> e] : e \in (new \ old) \cap ReportedEffects}

Findings(old, new) ==
  DiffTool(old.requests, new.requests) \cup DiffSideEffects(old.effects, new.effects)

(* Which findings count against a package.  For a tool, a value in a       *)
(* request that can be traced to us does not; for a hook every one does.   *)
Implicates(f) ==
  kind = "hook" \/ f.what = "side_effect" \/ f.attribution = "unattributed"

Row(old, new) ==
  IF old.unstable \/ new.unstable
  THEN [verdict |-> "unstable", findings |-> {}]
  ELSE IF \/ old.seen = {} \/ new.seen = {}
          \/ \E o \in old.seen \cup new.seen : o.error
  THEN [verdict |-> "cannot_conclude", findings |-> {}]
  ELSE LET fs == UNION {Findings(a, b) : a \in old.seen, b \in new.seen}
       IN  [verdict |-> IF \E f \in fs : Implicates(f) THEN "undeclared" ELSE "consistent",
            findings |-> fs]

-----------------------------------------------------------------------------
(* The scan of each version, then the diff. *)

DiffInit ==
  /\ kind \in {"tool", "hook"}
  /\ results = [v \in Versions |-> <<>>]
  /\ folded = [v \in Versions |-> {}]
  /\ report = {}

(* One version is scanned after the other. *)
MayStart(v) == v = "new" => folded["old"] # {}

(* A run may miss any name: the tools are what the server says, and a hook *)
(* is passed over when its directory is gone (observe.py:269).             *)
Sightings == {{}} \cup {{o} : o \in Observed}

(* Not the code: a loop that makes one run too many. *)
RunOnceMore(v) ==
  /\ MayStart(v)
  /\ folded[v] = {}
  /\ Len(results[v]) <= Runs
  /\ \E s \in Sightings : results' = [results EXCEPT ![v] = Append(@, s)]
  /\ UNCHANGED <<kind, folded, report>>

SingleRun(v) ==
  /\ MayStart(v)
  /\ Len(results[v]) < Runs
  /\ \E s \in Sightings : results' = [results EXCEPT ![v] = Append(@, s)]
  /\ UNCHANGED <<kind, folded, report>>

(* observe_version returns. *)
FoldVersion(v) ==
  /\ Len(results[v]) = Runs
  /\ folded[v] = {}
  /\ folded' = [folded EXCEPT ![v] = {FoldRuns(results[v])}]
  /\ UNCHANGED <<kind, results, report>>

(* diff_versions: a name in neither version's first run has no row. *)
DiffVersions ==
  /\ report = {}
  /\ \E old \in folded["old"], new \in folded["new"] :
       /\ old.listed \/ new.listed
       /\ report' = {Row(old, new)}
  /\ UNCHANGED <<kind, results, folded>>

DiffNext ==
  \/ \E v \in Versions : SingleRun(v) \/ FoldVersion(v)
  \/ DiffVersions

DiffSpec == DiffInit /\ [][DiffNext]_diffVars

-----------------------------------------------------------------------------
(* Properties. *)

(* No version is run more often than asked (the range(runs) loop of        *)
(* observe_version), and a row has one of the four verdicts of model.py,   *)
(* with findings only where there was a comparison.                        *)
DiffTypeOK ==
  /\ kind \in {"tool", "hook"}
  /\ \A v \in Versions : /\ results[v] \in Seq(Sightings)
                         /\ Len(results[v]) <= Runs
                         /\ folded[v] # {} => folded[v] = {FoldRuns(results[v])}
  /\ \A row \in report : /\ row.verdict \in Verdicts
                         /\ row.verdict \in {"unstable", "cannot_conclude"} =>
                              row.findings = {}

Concluded(row) == row.verdict \in {"consistent", "undeclared"}

(* A claim about a name (model.py:24-26) is made only when every run of    *)
(* both versions listed it, saw it work, and saw the same: no conclusion   *)
(* rests on whichever run came first.                                      *)
ConcludedMeansAgreed ==
  \A row \in report : Concluded(row) =>
    \A v \in Versions : \E a \in Observed :
      /\ ~a.error
      /\ DOMAIN results[v] = 1 .. Runs
      /\ \A i \in 1 .. Runs : \E b \in results[v][i] :
           /\ results[v][i] = {b}
           /\ ObservationKey(a) = ObservationKey(b)

(* Every finding of a row can be reproduced: the request that is its       *)
(* evidence was sent in every run of the new version, and a side effect    *)
(* happened in every run of the new version and in none of the old.        *)
FindingsAreReproducible ==
  \A row \in report : \A f \in row.findings :
    /\ \A i \in DOMAIN results["new"] : \A o \in results["new"][i] :
         IF f.what = "side_effect" THEN f.effect \in o.effects
         ELSE \E k \in DOMAIN o.requests : o.requests[k] = f.request
    /\ \A i \in DOMAIN results["old"] : \A o \in results["old"][i] :
         f.what = "side_effect" => f.effect \notin o.effects

(* When the verdict is consistent, there is nothing in any run of the new  *)
(* version that was not in each run of the old: a leaf of a JSON body      *)
(* comes from our inputs, or one equal to it was sent to the same          *)
(* destination before, and every reported side effect was there before.    *)
ConsistentMeansNothingNew ==
  \A row \in report : row.verdict = "consistent" =>
    \A i \in DOMAIN results["new"], j \in DOMAIN results["old"] :
      \A new \in results["new"][i], old \in results["old"][j] :
        /\ new.effects \cap ReportedEffects \subseteq old.effects
        /\ \A k \in DOMAIN new.requests : LET q == new.requests[k] IN
             q.json => \A leaf \in Leaves(q) :
               \/ Attribution(leaf[2]) # "unattributed"
               \/ \E m \in DOMAIN old.requests :
                    old.requests[m].to = q.to /\ HasEqual(old.requests[m], leaf)

Telling(q) ==
  q.json /\ \E leaf \in Leaves(q) : Attribution(leaf[2]) = "unattributed"

(* Saying an old thing more often is new: a consistent name did not send   *)
(* more requests with content of the package's own to a destination than   *)
(* the old version sent requests there (a match is used up by one request, *)
(* diff.py:117).                                                           *)
RepeatsAreNotConsistent ==
  \A row \in report : row.verdict = "consistent" =>
    \A i \in DOMAIN results["new"], j \in DOMAIN results["old"] :
      \A new \in results["new"][i], old \in results["old"][j] :
        \A to \in {q.to : q \in Requests} :
          Cardinality({k \in DOMAIN new.requests : /\ new.requests[k].to = to
                                                   /\ Telling(new.requests[k])})
            <= Cardinality({k \in DOMAIN old.requests : old.requests[k].to = to})

(* The loop of _match_requests, with its list of remaining requests, pairs *)
(* requests by their rank at the destination, whatever two runs sent.      *)
LoopMatchesByRank ==
  \A i \in DOMAIN results["new"], j \in DOMAIN results["old"] :
    \A new \in results["new"][i], old \in results["old"][j] :
      MatchLoop(old.requests, new.requests) = MatchRequests(old.requests, new.requests)

(* Both versions are folded, and the name has its row if it gets one. *)
Done ==
  /\ \A v \in Versions : folded[v] # {}
  /\ report = {} => \A v \in Versions : \A f \in folded[v] : ~f.listed

(* README.md:71-72 says of every tool that runs that disagree about it are *)
(* reported as unstable.  Runs disagree when one lists it and another does *)
(* not; the fold looks only at the names of the first run.                 *)
DisagreementIsReported ==
  kind = "tool" /\ Done =>
    \A v \in Versions :
      (\E i \in DOMAIN results[v] : results[v][i] # {}) /\ ~Agree(results[v]) =>
        \E row \in report : row.verdict = "unstable"

(* diff.py:6-7 says the diff asks what is in the new version's request     *)
(* that was not in the old one's.  Two versions that sent the same         *)
(* requests and had the same effects in every run have no such difference. *)
SameTrafficIsConsistent ==
  \A row \in report :
    (\A v, w \in Versions : \A i \in DOMAIN results[v], j \in DOMAIN results[w] :
       \A a \in results[v][i], b \in results[w][j] : ObservationKey(a) = ObservationKey(b))
      => row.verdict # "undeclared"
=============================================================================
