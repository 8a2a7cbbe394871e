-------------------------- MODULE VersionDiffProofs --------------------------
(***************************************************************************)
(* What VersionDiff promises for every number of runs, every set of        *)
(* observations a run may make and every attribution of values.            *)
(***************************************************************************)
EXTENDS VersionDiff, SequenceFacts, TLAPS

(* The report is a function of the two folds, and each fold of its runs.   *)
FoldedFrom(v) ==
  folded[v] = {FoldRuns(results[v])} /\ Len(results[v]) = Runs

DiffInv ==
  /\ kind \in {"tool", "hook"}
  /\ results \in [Versions -> Seq(Sightings)]
  /\ \A v \in Versions : Len(results[v]) <= Runs
  /\ folded = [v \in Versions |-> folded[v]]
  /\ \A v \in Versions : folded[v] = {} \/ FoldedFrom(v)
  /\ report = {} \/ /\ \A v \in Versions : FoldedFrom(v)
                    /\ report = {Row(FoldRuns(results["old"]), FoldRuns(results["new"]))}

-----------------------------------------------------------------------------
(* Each action keeps the invariant: a run is only added to a version that  *)
(* is not folded, so nothing a fold or a row was made from changes.        *)

LEMMA SingleRunKeepsInv ==
  ASSUME DiffInv, NEW v \in Versions, SingleRun(v)
  PROVE  DiffInv'
<1>1. PICK s \in Sightings : results' = [results EXCEPT ![v] = Append(@, s)]
  BY DEF SingleRun
<1>2. /\ results' \in [Versions -> Seq(Sightings)]
      /\ Len(results'[v]) = Len(results[v]) + 1
      /\ \A w \in Versions : w # v => results'[w] = results[w]
  BY <1>1 DEF DiffInv
<1>3. Len(results[v]) \in Nat /\ Runs \in Nat /\ Len(results[v]) < Runs
  BY DiffBounds DEF SingleRun, DiffInv
<1>4. \A w \in Versions : Len(results'[w]) <= Runs
  <2>1. Len(results'[v]) <= Runs
    BY <1>2, <1>3
  <2>2. \A w \in Versions : Len(results[w]) <= Runs
    BY DEF DiffInv
  <2> QED
    BY <1>2, <2>1, <2>2
<1>5. folded[v] = {} /\ report = {}
  BY <1>3 DEF DiffInv, FoldedFrom
<1>6. folded' = folded /\ report' = report /\ kind' = kind
  BY DEF SingleRun
<1>7. \A w \in Versions : folded'[w] = {} \/ FoldedFrom(w)'
  BY <1>2, <1>5, <1>6 DEF DiffInv, FoldedFrom
<1> QED
  BY <1>2, <1>4, <1>5, <1>6, <1>7 DEF DiffInv

LEMMA FoldVersionKeepsInv ==
  ASSUME DiffInv, NEW v \in Versions, FoldVersion(v)
  PROVE  DiffInv'
<1>1. /\ folded' = [folded EXCEPT ![v] = {FoldRuns(results[v])}]
      /\ Len(results[v]) = Runs /\ folded[v] = {}
      /\ kind' = kind /\ results' = results /\ report' = report
  BY DEF FoldVersion
<1>2. folded' = [w \in Versions |-> folded'[w]]
  BY <1>1 DEF DiffInv
<1>3. \A w \in Versions : folded'[w] = {} \/ FoldedFrom(w)'
  BY <1>1 DEF DiffInv, FoldedFrom
<1>4. report = {}
  BY <1>1 DEF DiffInv, FoldedFrom
<1> QED
  BY <1>1, <1>2, <1>3, <1>4 DEF DiffInv

LEMMA DiffVersionsKeepsInv ==
  ASSUME DiffInv, DiffVersions
  PROVE  DiffInv'
<1>1. PICK old \in folded["old"], new \in folded["new"] : report' = {Row(old, new)}
  BY DEF DiffVersions
<1>2. \A v \in Versions : FoldedFrom(v)
  BY <1>1 DEF DiffInv, Versions
<1>3. old = FoldRuns(results["old"]) /\ new = FoldRuns(results["new"])
  BY <1>1, <1>2 DEF FoldedFrom, Versions
<1>4. kind' = kind /\ results' = results /\ folded' = folded
  BY DEF DiffVersions
<1>5. Row(old, new) = Row(old, new)'
  BY <1>4 DEF Row, Findings, DiffTool, DiffSideEffects, PairFindings, AddedFindings,
              ChangedFindings, RequestFinding, Attribution, Implicates
<1> QED
  BY <1>1, <1>2, <1>3, <1>4, <1>5 DEF DiffInv, FoldedFrom

(* In every reachable state the row is what the runs of the two versions   *)
(* determine, and no version ran more often than asked.                    *)
THEOREM DiffInvariant == DiffSpec => []DiffInv
<1>1. DiffInit => DiffInv
  <2> SUFFICES ASSUME DiffInit PROVE DiffInv
    OBVIOUS
  <2>1. results = [v \in Versions |-> <<>>] /\ folded = [v \in Versions |-> {}]
    BY DEF DiffInit
  <2>2. results \in [Versions -> Seq(Sightings)]
    BY <2>1
  <2>3. \A v \in Versions : Len(results[v]) <= Runs
    BY <2>1, DiffBounds
  <2> QED
    BY <2>1, <2>2, <2>3 DEF DiffInit, DiffInv
<1>2. DiffInv /\ [DiffNext]_diffVars => DiffInv'
  <2> SUFFICES ASSUME DiffInv, [DiffNext]_diffVars PROVE DiffInv'
    OBVIOUS
  <2>1. CASE \E v \in Versions : SingleRun(v)
    BY <2>1, SingleRunKeepsInv
  <2>2. CASE \E v \in Versions : FoldVersion(v)
    BY <2>2, FoldVersionKeepsInv
  <2>3. CASE DiffVersions
    BY <2>3, DiffVersionsKeepsInv
  <2>4. CASE UNCHANGED diffVars
    <3>1. kind' = kind /\ results' = results /\ folded' = folded /\ report' = report
      BY <2>4 DEF diffVars
    <3>2. ASSUME NEW old, NEW new PROVE Row(old, new)' = Row(old, new)
      BY <3>1 DEF Row, Findings, DiffTool, DiffSideEffects, PairFindings, AddedFindings,
                  ChangedFindings, RequestFinding, Attribution, Implicates
    <3> QED
      BY <3>1, <3>2 DEF DiffInv, FoldedFrom
  <2> QED
    BY <2>1, <2>2, <2>3, <2>4 DEF DiffNext
<1> QED
  BY <1>1, <1>2, PTL DEF DiffSpec

(* Runs are bounded and rows well formed, for every number of runs.        *)
THEOREM DiffTypeCorrect == DiffSpec => []DiffTypeOK
<1>1. DiffInv => DiffTypeOK
  <2> SUFFICES ASSUME DiffInv PROVE DiffTypeOK
    OBVIOUS
  <2>1. \A v \in Versions : /\ results[v] \in Seq(Sightings)
                            /\ Len(results[v]) <= Runs
                            /\ folded[v] # {} => folded[v] = {FoldRuns(results[v])}
    BY DEF DiffInv, FoldedFrom
  <2>2. ASSUME NEW row \in report
        PROVE  /\ row.verdict \in Verdicts
               /\ row.verdict \in {"unstable", "cannot_conclude"} => row.findings = {}
    <3> DEFINE old == FoldRuns(results["old"])
               new == FoldRuns(results["new"])
    <3>1. row = Row(old, new)
      BY <2>2 DEF DiffInv
    <3> HIDE DEF old, new
    <3> QED
      BY <3>1 DEF Row, Verdicts
  <2> QED
    BY <2>1, <2>2 DEF DiffInv, DiffTypeOK
<1> QED
  BY <1>1, DiffInvariant, PTL

-----------------------------------------------------------------------------
(* What an invariant state with a concluded row looks like. *)

LEMMA SightingKinds ==
  ASSUME NEW s \in Sightings
  PROVE  s = {} \/ \E o \in Observed : s = {o}
BY DEF Sightings

(* A row with a comparison was made from the first runs, which agree with  *)
(* every other run of their version.                                       *)
LEMMA ComparedRuns ==
  ASSUME DiffInv, NEW row \in report, Concluded(row), NEW v \in Versions
  PROVE  /\ DOMAIN results[v] = 1 .. Runs
         /\ \E a \in Observed :
              /\ results[v][1] = {a} /\ ~a.error
              /\ \A i \in 1 .. Runs : \E b \in Observed :
                   results[v][i] = {b} /\ ObservationKey(a) = ObservationKey(b)
<1> DEFINE old == FoldRuns(results["old"])
           new == FoldRuns(results["new"])
           f == FoldRuns(results[v])
<1>1. row = Row(old, new) /\ \A w \in Versions : FoldedFrom(w)
  BY DEF DiffInv
<1>2. results[v] \in Seq(Sightings) /\ Len(results[v]) = Runs /\ Runs \in Nat \ {0}
  BY <1>1, DiffBounds DEF DiffInv, FoldedFrom
<1>3. DOMAIN results[v] = 1 .. Runs /\ 1 \in 1 .. Runs
  BY <1>2
<1>4. /\ ~old.unstable /\ ~new.unstable
      /\ old.seen # {} /\ new.seen # {}
      /\ \A o \in old.seen \cup new.seen : ~o.error
  <2>1. row.verdict # "unstable" /\ row.verdict # "cannot_conclude"
    BY DEF Concluded
  <2> HIDE DEF old, new
  <2> QED
    BY <2>1, <1>1 DEF Row
<1>5. f = old \/ f = new
  BY DEF Versions
<1>6. ~f.unstable /\ f.seen # {} /\ \A o \in f.seen : ~o.error
  BY <1>4, <1>5
<1>7. f.seen = results[v][1] /\ f.unstable = (results[v][1] # {} /\ ~Agree(results[v]))
  BY DEF FoldRuns
<1>8. Agree(results[v])
  BY <1>6, <1>7
<1>9. ASSUME NEW i \in 1 .. Runs
      PROVE  \E b \in Observed : results[v][i] = {b}
  BY <1>2, <1>3, <1>8, SightingKinds DEF Agree
<1>10. PICK a \in Observed : results[v][1] = {a}
  BY <1>3, <1>9
<1>11. ~a.error
  BY <1>6, <1>7, <1>10
<1>12. ASSUME NEW i \in 1 .. Runs
       PROVE  \E b \in Observed : results[v][i] = {b} /\ ObservationKey(a) = ObservationKey(b)
  BY <1>3, <1>8, <1>9, <1>10 DEF Agree
<1> QED
  BY <1>3, <1>10, <1>11, <1>12

(* A claim is made only when every run of both versions saw the name, saw  *)
(* it work and saw the same, however many runs there are (the fold of      *)
(* observe.py:465-482 with the order of the tests of diff_versions).       *)
THEOREM ConclusionsNeedAgreement == DiffSpec => []ConcludedMeansAgreed
<1>1. DiffInv => ConcludedMeansAgreed
  <2> SUFFICES ASSUME DiffInv, NEW row \in report, Concluded(row), NEW v \in Versions
               PROVE  \E a \in Observed :
                        /\ ~a.error
                        /\ DOMAIN results[v] = 1 .. Runs
                        /\ \A i \in 1 .. Runs : \E b \in results[v][i] :
                             /\ results[v][i] = {b}
                             /\ ObservationKey(a) = ObservationKey(b)
    BY DEF ConcludedMeansAgreed
  <2>1. PICK a \in Observed :
          /\ ~a.error
          /\ \A i \in 1 .. Runs : \E b \in Observed :
               results[v][i] = {b} /\ ObservationKey(a) = ObservationKey(b)
    BY ComparedRuns
  <2>2. ASSUME NEW i \in 1 .. Runs
        PROVE  \E b \in results[v][i] : results[v][i] = {b} /\ ObservationKey(a) = ObservationKey(b)
    BY <2>1
  <2> QED
    BY <2>1, <2>2, ComparedRuns
<1> QED
  BY <1>1, DiffInvariant, PTL

-----------------------------------------------------------------------------
(* Equal keys mean the same requests and the same effects. *)

LEMMA CountIsPositive ==
  ASSUME NEW q, NEW s \in Seq(Requests)
  PROVE  Count(q, s) = 0 <=> \A i \in DOMAIN s : s[i] # q
<1> DEFINE S == {i \in DOMAIN s : s[i] = q}
<1>1. IsFiniteSet(1 .. Len(s))
  BY FS_Interval
<1>2. DOMAIN s = 1 .. Len(s)
  OBVIOUS
<1>3. IsFiniteSet(S)
  <2>1. S \subseteq 1 .. Len(s)
    BY <1>2
  <2> QED
    BY <1>1, <2>1, FS_Subset
<1>4. Cardinality(S) = 0 <=> S = {}
  BY <1>3, FS_EmptySet
<1> QED
  BY <1>4 DEF Count

LEMMA SameKeySameContent ==
  ASSUME NEW a \in Observed, NEW b \in Observed, ObservationKey(a) = ObservationKey(b)
  PROVE  /\ a.effects = b.effects
         /\ \A i \in DOMAIN a.requests : \E k \in DOMAIN b.requests :
              b.requests[k] = a.requests[i]
<1>1. /\ [q \in Requests |-> Count(q, a.requests)] = [q \in Requests |-> Count(q, b.requests)]
      /\ a.effects = b.effects
  BY DEF ObservationKey
<1>2. a.requests \in Seq(Requests) /\ b.requests \in Seq(Requests)
  BY DiffBounds
<1>3. ASSUME NEW i \in DOMAIN a.requests
      PROVE  \E k \in DOMAIN b.requests : b.requests[k] = a.requests[i]
  <2> DEFINE q == a.requests[i]
  <2>1. q \in Requests
    BY <1>2
  <2>2. Count(q, a.requests) = Count(q, b.requests)
    BY <1>1, <2>1
  <2>3. Count(q, a.requests) # 0
    BY <1>2, CountIsPositive
  <2> QED
    BY <1>2, <2>2, <2>3, CountIsPositive
<1> QED
  BY <1>1, <1>3

(* What each channel of the diff contributes. *)
LEMMA RequestFindingsFromNew ==
  ASSUME NEW old, NEW new, NEW f \in DiffTool(old, new)
  PROVE  f.what # "side_effect" /\ \E k \in DOMAIN new : new[k] = f.request
<1>1. PICK i \in DOMAIN new : f \in PairFindings(MatchRequests(old, new)[i])
  BY DEF DiffTool
<1>2. MatchRequests(old, new)[i].new = new[i]
  BY DEF MatchRequests
<1>3. \E leaf : \/ f = RequestFinding(leaf, new[i], "request_added")
                \/ f = RequestFinding(leaf, new[i], "request_field_changed")
                \/ f = RequestFinding(leaf, new[i], "request_field_added")
  BY <1>1, <1>2 DEF PairFindings, AddedFindings, ChangedFindings
<1> QED
  BY <1>3 DEF RequestFinding

LEMMA RowComparesFirstRuns ==
  ASSUME DiffInv, NEW row \in report, Concluded(row),
         NEW a, NEW b, results["old"][1] = {a}, results["new"][1] = {b}
  PROVE  /\ row.findings = Findings(a, b)
         /\ row.verdict = "consistent" => \A f \in Findings(a, b) : ~Implicates(f)
<1> DEFINE old == FoldRuns(results["old"])
           new == FoldRuns(results["new"])
           fs == UNION {Findings(x, y) : x \in old.seen, y \in new.seen}
<1>1. row = Row(old, new)
  BY DEF DiffInv
<1>2. old.seen = {a} /\ new.seen = {b}
  BY DEF FoldRuns
<1>3. fs = Findings(a, b)
  BY <1>2
<1>4. row = [verdict |-> IF \E f \in fs : Implicates(f) THEN "undeclared" ELSE "consistent",
             findings |-> fs]
  <2>1. row.verdict # "unstable" /\ row.verdict # "cannot_conclude"
    BY DEF Concluded
  <2> HIDE DEF old, new
  <2> QED
    BY <2>1, <1>1 DEF Row
<1> QED
  BY <1>3, <1>4

(* Only a compared row has findings. *)
LEMMA FindingsAreConclusions ==
  ASSUME DiffInv, NEW row \in report, row.findings # {}
  PROVE  Concluded(row)
<1> DEFINE old == FoldRuns(results["old"])
           new == FoldRuns(results["new"])
<1>1. row = Row(old, new)
  BY DEF DiffInv
<1> HIDE DEF old, new
<1> QED
  BY <1>1 DEF Row, Concluded

(* Every finding is there in every run of the new version, and a new side  *)
(* effect in no run of the old: reporting the first run loses nothing.     *)
THEOREM FindingsHoldInEveryRun == DiffSpec => []FindingsAreReproducible
<1>1. DiffInv => FindingsAreReproducible
  <2> SUFFICES ASSUME DiffInv, NEW row \in report, NEW f \in row.findings
               PROVE  /\ \A i \in DOMAIN results["new"] : \A o \in results["new"][i] :
                           IF f.what = "side_effect" THEN f.effect \in o.effects
                           ELSE \E k \in DOMAIN o.requests : o.requests[k] = f.request
                      /\ \A i \in DOMAIN results["old"] : \A o \in results["old"][i] :
                           f.what = "side_effect" => f.effect \notin o.effects
    BY DEF FindingsAreReproducible
  <2>1. Concluded(row)
    BY FindingsAreConclusions
  <2>2. "old" \in Versions /\ "new" \in Versions
    BY DEF Versions
  <2>3. PICK a \in Observed :
          /\ results["old"][1] = {a}
          /\ \A i \in 1 .. Runs : \E o \in Observed :
               results["old"][i] = {o} /\ ObservationKey(a) = ObservationKey(o)
    BY <2>1, <2>2, ComparedRuns
  <2>4. PICK b \in Observed :
          /\ results["new"][1] = {b}
          /\ \A i \in 1 .. Runs : \E o \in Observed :
               results["new"][i] = {o} /\ ObservationKey(b) = ObservationKey(o)
    BY <2>1, <2>2, ComparedRuns
  <2>5. DOMAIN results["old"] = 1 .. Runs /\ DOMAIN results["new"] = 1 .. Runs
    BY <2>1, <2>2, ComparedRuns
  <2>6. f \in DiffTool(a.requests, b.requests) \/ f \in DiffSideEffects(a.effects, b.effects)
    BY <2>1, <2>3, <2>4, RowComparesFirstRuns DEF Findings
  <2>7. CASE f \in DiffTool(a.requests, b.requests)
    <3>1. f.what # "side_effect" /\ \E k \in DOMAIN b.requests : b.requests[k] = f.request
      BY <2>7, RequestFindingsFromNew
    <3>2. ASSUME NEW i \in DOMAIN results["new"], NEW o \in results["new"][i]
          PROVE  \E k \in DOMAIN o.requests : o.requests[k] = f.request
      <4>1. o \in Observed /\ ObservationKey(b) = ObservationKey(o)
        BY <2>4, <2>5
      <4> QED
        BY <3>1, <4>1, SameKeySameContent
    <3> QED
      BY <3>1, <3>2
  <2>8. CASE f \in DiffSideEffects(a.effects, b.effects)
    <3>1. f.what = "side_effect" /\ f.effect \in b.effects /\ f.effect \notin a.effects
      BY <2>8 DEF DiffSideEffects
    <3>2. ASSUME NEW i \in DOMAIN results["new"], NEW o \in results["new"][i]
          PROVE  f.effect \in o.effects
      <4>1. o \in Observed /\ ObservationKey(b) = ObservationKey(o)
        BY <2>4, <2>5
      <4> QED
        BY <3>1, <4>1, SameKeySameContent
    <3>3. ASSUME NEW i \in DOMAIN results["old"], NEW o \in results["old"][i]
          PROVE  f.effect \notin o.effects
      <4>1. o \in Observed /\ ObservationKey(a) = ObservationKey(o)
        BY <2>3, <2>5
      <4> QED
        BY <3>1, <4>1, SameKeySameContent
    <3> QED
      BY <3>1, <3>2, <3>3
  <2> QED
    BY <2>6, <2>7, <2>8
<1> QED
  BY <1>1, DiffInvariant, PTL

-----------------------------------------------------------------------------
(* A pair of requests without an implicating finding adds nothing: what    *)
(* the new one says is ours, or its equal was said there before.           *)
LEMMA QuietPairAddsNothing ==
  ASSUME NEW old, NEW new, NEW k \in DOMAIN new, new[k].json,
         \A f \in DiffTool(old, new) : ~Implicates(f),
         NEW leaf \in Leaves(new[k]), Attribution(leaf[2]) = "unattributed"
  PROVE  \E m \in DOMAIN old : old[m].to = new[k].to /\ HasEqual(old[m], leaf)
<1> DEFINE pair == MatchRequests(old, new)[k]
<1>1. /\ pair.new = new[k]
      /\ pair.old = {old[j] : j \in {j \in DOMAIN old : /\ old[j].to = new[k].to
                                                        /\ Rank(old, j) = Rank(new, k)}}
  BY DEF MatchRequests
<1>2. \A f \in PairFindings(pair) : ~Implicates(f)
  BY DEF DiffTool
<1>3. \A what : RequestFinding(leaf, new[k], what).attribution = "unattributed"
  BY DEF RequestFinding
<1>4. \A what : Implicates(RequestFinding(leaf, new[k], what))
  BY <1>3 DEF Implicates
<1>5. pair.old # {}
  <2> SUFFICES ASSUME pair.old = {} PROVE FALSE
    OBVIOUS
  <2>1. PairFindings(pair) = AddedFindings(new[k])
    BY <1>1 DEF PairFindings
  <2>2. RequestFinding(leaf, new[k], "request_added") \in AddedFindings(new[k])
    BY DEF AddedFindings
  <2> QED
    BY <1>2, <1>4, <2>1, <2>2
<1>6. PICK m \in DOMAIN old : old[m].to = new[k].to /\ old[m] \in pair.old
  BY <1>1, <1>5
<1>7. HasEqual(old[m], leaf)
  <2> SUFFICES ASSUME ~HasEqual(old[m], leaf) PROVE FALSE
    OBVIOUS
  <2>1. \E what : RequestFinding(leaf, new[k], what) \in ChangedFindings(new[k], old[m])
    BY DEF ChangedFindings
  <2>2. ChangedFindings(new[k], old[m]) \subseteq PairFindings(pair)
    BY <1>1, <1>5, <1>6 DEF PairFindings
  <2> QED
    BY <1>2, <1>4, <2>1, <2>2
<1> QED
  BY <1>6, <1>7

(* A consistent name did nothing in any run of the new version that it did *)
(* not do in each run of the old, apart from what our inputs explain.      *)
THEOREM ConsistentAddsNothing == DiffSpec => []ConsistentMeansNothingNew
<1>1. DiffInv => ConsistentMeansNothingNew
  <2> SUFFICES ASSUME DiffInv, NEW row \in report, row.verdict = "consistent",
                      NEW i \in DOMAIN results["new"], NEW j \in DOMAIN results["old"],
                      NEW new \in results["new"][i], NEW old \in results["old"][j]
               PROVE  /\ new.effects \cap ReportedEffects \subseteq old.effects
                      /\ \A k \in DOMAIN new.requests :
                           new.requests[k].json => \A leaf \in Leaves(new.requests[k]) :
                             \/ Attribution(leaf[2]) # "unattributed"
                             \/ \E m \in DOMAIN old.requests :
                                  /\ old.requests[m].to = new.requests[k].to
                                  /\ HasEqual(old.requests[m], leaf)
    BY DEF ConsistentMeansNothingNew
  <2>1. Concluded(row)
    BY DEF Concluded
  <2>2. "old" \in Versions /\ "new" \in Versions
    BY DEF Versions
  <2>3. PICK a \in Observed :
          /\ results["old"][1] = {a}
          /\ \A n \in 1 .. Runs : \E o \in Observed :
               results["old"][n] = {o} /\ ObservationKey(a) = ObservationKey(o)
    BY <2>1, <2>2, ComparedRuns
  <2>4. PICK b \in Observed :
          /\ results["new"][1] = {b}
          /\ \A n \in 1 .. Runs : \E o \in Observed :
               results["new"][n] = {o} /\ ObservationKey(b) = ObservationKey(o)
    BY <2>1, <2>2, ComparedRuns
  <2>5. DOMAIN results["old"] = 1 .. Runs /\ DOMAIN results["new"] = 1 .. Runs
    BY <2>1, <2>2, ComparedRuns
  <2>6. old \in Observed /\ ObservationKey(a) = ObservationKey(old)
    BY <2>3, <2>5
  <2>7. new \in Observed /\ ObservationKey(new) = ObservationKey(b)
    BY <2>4, <2>5
  <2>8. \A f \in Findings(a, b) : ~Implicates(f)
    BY <2>1, <2>3, <2>4, RowComparesFirstRuns
  <2>9. new.effects \cap ReportedEffects \subseteq old.effects
    <3>1. DiffSideEffects(a.effects, b.effects) = {}
      BY <2>8 DEF Findings, DiffSideEffects, Implicates
    <3>2. b.effects \cap ReportedEffects \subseteq a.effects
      BY <3>1 DEF DiffSideEffects
    <3> QED
      BY <2>6, <2>7, <3>2, SameKeySameContent
  <2>10. ASSUME NEW k \in DOMAIN new.requests, new.requests[k].json,
                NEW leaf \in Leaves(new.requests[k]), Attribution(leaf[2]) = "unattributed"
         PROVE  \E m \in DOMAIN old.requests :
                  old.requests[m].to = new.requests[k].to /\ HasEqual(old.requests[m], leaf)
    <3>1. PICK n \in DOMAIN b.requests : b.requests[n] = new.requests[k]
      BY <2>7, SameKeySameContent
    <3>2. PICK m \in DOMAIN a.requests :
            a.requests[m].to = b.requests[n].to /\ HasEqual(a.requests[m], leaf)
      <4>1. \A f \in DiffTool(a.requests, b.requests) : ~Implicates(f)
        BY <2>8 DEF Findings
      <4>2. b.requests[n].json /\ leaf \in Leaves(b.requests[n])
        BY <2>10, <3>1
      <4> QED
        BY <2>10, <4>1, <4>2, QuietPairAddsNothing
    <3>3. PICK p \in DOMAIN old.requests : old.requests[p] = a.requests[m]
      BY <2>6, SameKeySameContent
    <3> QED
      BY <3>1, <3>2, <3>3
  <2> QED
    BY <2>9, <2>10
<1> QED
  BY <1>1, DiffInvariant, PTL
-----------------------------------------------------------------------------
(* How often.  Positions of s that hold one of the requests in Q.           *)
Holding(s, Q) == {k \in DOMAIN s : s[k] \in Q}

LEMMA HoldingIsFinite ==
  ASSUME NEW s \in Seq(Requests), NEW Q
  PROVE  IsFiniteSet(Holding(s, Q)) /\ Holding(s, Q) \subseteq 1 .. Len(s)
<1>1. IsFiniteSet(DOMAIN s) /\ DOMAIN s = 1 .. Len(s)
  BY PositionsAreFinite
<1>2. Holding(s, Q) \in SUBSET DOMAIN s
  BY DEF Holding
<1> QED
  BY <1>1, <1>2, FS_Subset

(* Observations with one key hold as many requests of any kind: their      *)
(* requests are the same up to order, one request at a time.               *)
LEMMA SameKeySameNumber ==
  ASSUME NEW a \in Observed, NEW b \in Observed, ObservationKey(a) = ObservationKey(b),
         NEW Q \in SUBSET Requests
  PROVE  Cardinality(Holding(a.requests, Q)) = Cardinality(Holding(b.requests, Q))
<1> DEFINE s == a.requests
           t == b.requests
           F == [q \in Requests |-> CHOOSE g : g \in Bijection(Holding(s, {q}), Holding(t, {q}))]
           h == [k \in Holding(s, Q) |-> F[s[k]][k]]
<1>1. s \in Seq(Requests) /\ t \in Seq(Requests)
  BY DiffBounds
<1>2. [q \in Requests |-> Count(q, s)] = [q \in Requests |-> Count(q, t)]
  BY DEF ObservationKey
<1> HIDE DEF s, t
<1>3. ASSUME NEW q \in Requests
      PROVE  F[q] \in Bijection(Holding(s, {q}), Holding(t, {q}))
  <2>1. Count(q, s) = Count(q, t)
    BY <1>2
  <2>2. /\ Count(q, s) = Cardinality(Holding(s, {q}))
        /\ Count(q, t) = Cardinality(Holding(t, {q}))
    <3>1. /\ Holding(s, {q}) = {i \in DOMAIN s : s[i] = q}
          /\ Holding(t, {q}) = {i \in DOMAIN t : t[i] = q}
      BY DEF Holding
    <3> QED
      BY <3>1 DEF Count
  <2>3. ExistsBijection(Holding(s, {q}), Holding(t, {q}))
    BY <1>1, <2>1, <2>2, HoldingIsFinite, FS_SameCardinalityBij
  <2> QED
    BY <2>3 DEF ExistsBijection
<1> HIDE DEF F
<1>4. ASSUME NEW q \in Requests
      PROVE  /\ \A k \in Holding(s, {q}) : F[q][k] \in Holding(t, {q})
             /\ \A k, l \in Holding(s, {q}) : F[q][k] = F[q][l] => k = l
             /\ \A m \in Holding(t, {q}) : \E k \in Holding(s, {q}) : F[q][k] = m
  BY <1>3 DEF Bijection, Injection, Surjection, IsInjective
<1>5. ASSUME NEW k \in Holding(s, Q)
      PROVE  s[k] \in Q /\ s[k] \in Requests /\ k \in Holding(s, {s[k]})
  BY DEF Holding
<1>6. ASSUME NEW k \in Holding(s, Q)
      PROVE  h[k] \in Holding(t, {s[k]}) /\ h[k] \in Holding(t, Q) /\ t[h[k]] = s[k]
  <2>1. h[k] = F[s[k]][k]
    OBVIOUS
  <2> HIDE DEF h
  <2> QED
    BY <1>4, <1>5, <2>1 DEF Holding
<1>7. h \in [Holding(s, Q) -> Holding(t, Q)]
  BY <1>6
<1>8. ASSUME NEW k \in Holding(s, Q), NEW l \in Holding(s, Q), h[k] = h[l]
      PROVE  k = l
  <2>1. s[k] = s[l]
    BY <1>6, <1>8
  <2>2. F[s[k]][k] = F[s[k]][l]
    BY <1>8, <2>1
  <2> QED
    BY <1>4, <1>5, <2>1, <2>2
<1>9. ASSUME NEW m \in Holding(t, Q) PROVE \E k \in Holding(s, Q) : h[k] = m
  <2>1. t[m] \in Q /\ t[m] \in Requests /\ m \in Holding(t, {t[m]})
    BY DEF Holding
  <2>2. PICK k \in Holding(s, {t[m]}) : F[t[m]][k] = m
    BY <1>4, <2>1
  <2>3. s[k] = t[m] /\ k \in Holding(s, Q)
    BY <2>1, <2>2 DEF Holding
  <2> QED
    BY <2>2, <2>3
<1>10. ExistsBijection(Holding(s, Q), Holding(t, Q))
  <2> HIDE DEF h
  <2> QED
    BY <1>7, <1>8, <1>9 DEF ExistsBijection, Bijection, Injection, Surjection, IsInjective
<1>11. Cardinality(Holding(s, Q)) = Cardinality(Holding(t, Q))
  BY <1>1, <1>10, HoldingIsFinite, FS_Bijection
<1> QED
  BY <1>11 DEF s, t

-----------------------------------------------------------------------------
(* Rank numbers the requests to one destination.                           *)
Earlier(s, i, to) == {j \in 1 .. i : s[j].to = to}

LEMMA RankGrows ==
  ASSUME NEW s \in Seq(Requests), NEW i \in DOMAIN s, NEW k \in DOMAIN s,
         s[i].to = s[k].to, i < k
  PROVE  Rank(s, i) < Rank(s, k)
<1> DEFINE A == Earlier(s, i, s[i].to)
           B == Earlier(s, k, s[k].to)
<1>1. i \in Nat /\ k \in Nat
  OBVIOUS
<1>2. IsFiniteSet(B)
  <2>1. IsFiniteSet(1 .. k)
    BY <1>1, FS_Interval
  <2>2. B \in SUBSET (1 .. k)
    BY DEF Earlier
  <2> QED
    BY <2>1, <2>2, FS_Subset
<1>3. A \in SUBSET B /\ k \in B /\ k \notin A
  BY <1>1 DEF Earlier
<1>4. /\ IsFiniteSet(A) /\ Cardinality(A) <= Cardinality(B)
      /\ Cardinality(A) # Cardinality(B)
      /\ Cardinality(A) \in Nat /\ Cardinality(B) \in Nat
  <2> HIDE DEF A, B
  <2> QED
    BY <1>2, <1>3, FS_Subset, FS_CardinalityType
<1>5. Rank(s, i) = Cardinality(A) /\ Rank(s, k) = Cardinality(B)
  BY DEF Rank, Earlier
<1> HIDE DEF A, B
<1> QED
  BY <1>4, <1>5

LEMMA RankIdentifies ==
  ASSUME NEW s \in Seq(Requests), NEW i \in DOMAIN s, NEW k \in DOMAIN s,
         s[i].to = s[k].to, Rank(s, i) = Rank(s, k)
  PROVE  i = k
<1>1. i \in Nat /\ k \in Nat
  OBVIOUS
<1>2. Rank(s, i) \in Nat
  <2>1. IsFiniteSet(1 .. i) /\ Earlier(s, i, s[i].to) \in SUBSET (1 .. i)
    BY <1>1, FS_Interval DEF Earlier
  <2> QED
    BY <2>1, FS_Subset, FS_CardinalityType DEF Rank, Earlier
<1>3. ~(i < k)
  BY <1>2, RankGrows
<1>4. ~(k < i)
  BY <1>2, RankGrows
<1> QED
  BY <1>1, <1>3, <1>4

(* A telling new request without an implicating finding has a counterpart  *)
(* of its own rank.                                                        *)
LEMMA TellingIsMatched ==
  ASSUME NEW old \in Seq(Requests), NEW new \in Seq(Requests),
         \A f \in DiffTool(old, new) : ~Implicates(f)
  PROVE  \A k \in DOMAIN new : Telling(new[k]) =>
           \E m \in DOMAIN old : old[m].to = new[k].to /\ Rank(old, m) = Rank(new, k)
<1> SUFFICES ASSUME NEW k \in DOMAIN new, Telling(new[k])
             PROVE  \E m \in DOMAIN old : old[m].to = new[k].to /\ Rank(old, m) = Rank(new, k)
  OBVIOUS
<1> DEFINE pair == MatchRequests(old, new)[k]
<1>1. PICK leaf \in Leaves(new[k]) : Attribution(leaf[2]) = "unattributed"
  BY DEF Telling
<1>2. /\ pair.new = new[k]
      /\ pair.old = {old[j] : j \in {j \in DOMAIN old : /\ old[j].to = new[k].to
                                                        /\ Rank(old, j) = Rank(new, k)}}
  BY DEF MatchRequests
<1>3. SUFFICES ASSUME pair.old = {} PROVE FALSE
  BY <1>2
<1>4. PairFindings(pair) = AddedFindings(new[k])
  BY <1>2, <1>3 DEF PairFindings, Telling
<1>5. RequestFinding(leaf, new[k], "request_added") \in DiffTool(old, new)
  BY <1>1, <1>4 DEF AddedFindings, DiffTool
<1> QED
  BY <1>1, <1>5 DEF Implicates, RequestFinding

(* A match is used up: telling requests are counted off against old ones   *)
(* to the same destination.                                                *)
LEMMA TellingAreCovered ==
  ASSUME NEW old \in Seq(Requests), NEW new \in Seq(Requests),
         \A f \in DiffTool(old, new) : ~Implicates(f), NEW to
  PROVE  Cardinality(Holding(new, {q \in Requests : q.to = to /\ Telling(q)}))
           <= Cardinality(Holding(old, {q \in Requests : q.to = to}))
<1>0. \A k \in DOMAIN new : Telling(new[k]) =>
        \E m \in DOMAIN old : old[m].to = new[k].to /\ Rank(old, m) = Rank(new, k)
  BY TellingIsMatched
<1> DEFINE K == Holding(new, {q \in Requests : q.to = to /\ Telling(q)})
           M == Holding(old, {q \in Requests : q.to = to})
           f == [k \in K |-> CHOOSE m \in M : Rank(old, m) = Rank(new, k)]
<1>1. ASSUME NEW k \in K
      PROVE  f[k] \in M /\ Rank(old, f[k]) = Rank(new, k)
  <2>1. k \in DOMAIN new /\ new[k].to = to /\ Telling(new[k])
    BY DEF Holding
  <2>2. PICK m \in DOMAIN old : old[m].to = to /\ Rank(old, m) = Rank(new, k)
    <3> HIDE DEF K, M, f
    <3> QED
      BY <1>0, <2>1
  <2>3. m \in M
    BY <2>2 DEF Holding
  <2>4. f[k] = CHOOSE n \in M : Rank(old, n) = Rank(new, k)
    OBVIOUS
  <2> HIDE DEF K, M, f
  <2> QED
    BY <2>2, <2>3, <2>4
<1>2. f \in [K -> M]
  <2> HIDE DEF K, M
  <2> QED
    BY <1>1
<1>3. ASSUME NEW k \in K, NEW l \in K, f[k] = f[l] PROVE k = l
  <2>1. Rank(new, k) = Rank(new, l)
    <3> HIDE DEF K, M, f
    <3> QED
      BY <1>1, <1>3
  <2>2. k \in DOMAIN new /\ l \in DOMAIN new /\ new[k].to = to /\ new[l].to = to
    BY DEF Holding
  <2> QED
    BY <2>1, <2>2, RankIdentifies
<1> HIDE DEF f, K, M
<1>4. f \in Injection(K, M)
  BY <1>2, <1>3 DEF Injection, IsInjective
<1>5. IsFiniteSet(M)
  BY HoldingIsFinite DEF M
<1>6. Cardinality(K) <= Cardinality(M)
  BY <1>4, <1>5, FS_Injection
<1> QED
  BY <1>6 DEF K, M

(* Saying an old thing more often is a finding in every run (diff.py:117), *)
(* for any number of runs and requests.                                    *)
THEOREM RepeatsAreFindings == DiffSpec => []RepeatsAreNotConsistent
<1>1. DiffInv => RepeatsAreNotConsistent
  <2> SUFFICES ASSUME DiffInv, NEW row \in report, row.verdict = "consistent",
                      NEW i \in DOMAIN results["new"], NEW j \in DOMAIN results["old"],
                      NEW new \in results["new"][i], NEW old \in results["old"][j],
                      NEW to \in {q.to : q \in Requests}
               PROVE  Cardinality({k \in DOMAIN new.requests : /\ new.requests[k].to = to
                                                               /\ Telling(new.requests[k])})
                        <= Cardinality({k \in DOMAIN old.requests : old.requests[k].to = to})
    BY DEF RepeatsAreNotConsistent
  <2> DEFINE here == {q \in Requests : q.to = to}
             telling == {q \in Requests : q.to = to /\ Telling(q)}
  <2>1. Concluded(row)
    BY DEF Concluded
  <2>2. "old" \in Versions /\ "new" \in Versions
    BY DEF Versions
  <2>3. PICK a \in Observed :
          /\ results["old"][1] = {a}
          /\ \A n \in 1 .. Runs : \E o \in Observed :
               results["old"][n] = {o} /\ ObservationKey(a) = ObservationKey(o)
    BY <2>1, <2>2, ComparedRuns
  <2>4. PICK b \in Observed :
          /\ results["new"][1] = {b}
          /\ \A n \in 1 .. Runs : \E o \in Observed :
               results["new"][n] = {o} /\ ObservationKey(b) = ObservationKey(o)
    BY <2>1, <2>2, ComparedRuns
  <2>5. DOMAIN results["old"] = 1 .. Runs /\ DOMAIN results["new"] = 1 .. Runs
    BY <2>1, <2>2, ComparedRuns
  <2>6. old \in Observed /\ ObservationKey(a) = ObservationKey(old)
    BY <2>3, <2>5
  <2>7. new \in Observed /\ ObservationKey(b) = ObservationKey(new)
    BY <2>4, <2>5
  <2>8. \A f \in DiffTool(a.requests, b.requests) : ~Implicates(f)
    <3>1. \A f \in Findings(a, b) : ~Implicates(f)
      BY <2>1, <2>3, <2>4, RowComparesFirstRuns
    <3> QED
      BY <3>1 DEF Findings
  <2>9. /\ a.requests \in Seq(Requests) /\ b.requests \in Seq(Requests)
        /\ old.requests \in Seq(Requests) /\ new.requests \in Seq(Requests)
    BY <2>6, <2>7, DiffBounds
  <2>10. Cardinality(Holding(b.requests, telling)) <= Cardinality(Holding(a.requests, here))
    <3>1. ASSUME NEW x \in Seq(Requests), NEW y \in Seq(Requests),
                 \A f \in DiffTool(x, y) : ~Implicates(f)
          PROVE  Cardinality(Holding(y, telling)) <= Cardinality(Holding(x, here))
      BY <3>1, TellingAreCovered
    <3> HIDE DEF here, telling
    <3> QED
      BY <2>8, <2>9, <3>1
  <2>11. Cardinality(Holding(a.requests, here)) = Cardinality(Holding(old.requests, here))
    <3>1. here \in SUBSET Requests
      OBVIOUS
    <3> HIDE DEF here
    <3> QED
      BY <2>6, <3>1, SameKeySameNumber
  <2>12. Cardinality(Holding(b.requests, telling)) = Cardinality(Holding(new.requests, telling))
    <3>1. telling \in SUBSET Requests
      OBVIOUS
    <3> HIDE DEF telling
    <3> QED
      BY <2>7, <3>1, SameKeySameNumber
  <2>13. Holding(old.requests, here) = {k \in DOMAIN old.requests : old.requests[k].to = to}
    BY <2>9 DEF Holding
  <2>14. Holding(new.requests, telling)
           = {k \in DOMAIN new.requests : /\ new.requests[k].to = to
                                          /\ Telling(new.requests[k])}
    BY <2>9 DEF Holding
  <2> HIDE DEF here, telling
  <2> QED
    BY <2>10, <2>11, <2>12, <2>13, <2>14
<1> QED
  BY <1>1, DiffInvariant, PTL
-----------------------------------------------------------------------------
(* The loop of _match_requests.  Its state is what is left of the old      *)
(* requests and the pairs made so far.                                     *)
Pairs == [new : Requests, old : SUBSET Requests]
LoopStates == [remaining : Seq(Requests), pairs : Seq(Pairs)]

(* How many of the first k requests went to a destination.                 *)
Seen(s, k, to) == Cardinality(Earlier(s, k, to))

LEMMA SeenFacts ==
  ASSUME NEW s \in Seq(Requests), NEW k \in 0 .. Len(s), NEW to
  PROVE  /\ IsFiniteSet(Earlier(s, k, to)) /\ Seen(s, k, to) \in Nat
         /\ k = 0 => Seen(s, k, to) = 0
         /\ k # 0 => Seen(s, k, to) = IF s[k].to = to THEN Seen(s, k - 1, to) + 1
                                      ELSE Seen(s, k - 1, to)
<1>0. Len(s) \in Nat
  BY LenProperties
<1>1. ASSUME NEW n \in Nat PROVE IsFiniteSet(Earlier(s, n, to))
  <2>1. IsFiniteSet(1 .. n)
    BY FS_Interval
  <2>2. Earlier(s, n, to) \in SUBSET (1 .. n)
    BY DEF Earlier
  <2> QED
    BY <2>1, <2>2, FS_Subset
<1>2. IsFiniteSet(Earlier(s, k, to)) /\ Seen(s, k, to) \in Nat
  BY <1>1, FS_CardinalityType DEF Seen
<1>3. CASE k = 0
  <2>1. Earlier(s, k, to) = {}
    BY <1>3 DEF Earlier
  <2> QED
    BY <1>2, <1>3, <2>1, FS_EmptySet DEF Seen
<1>4. CASE k # 0
  <2>1. k - 1 \in Nat /\ 1 .. k = 1 .. (k - 1) \cup {k} /\ k \notin 1 .. (k - 1)
    BY <1>0, <1>4
  <2>2. IsFiniteSet(Earlier(s, k - 1, to)) /\ k \notin Earlier(s, k - 1, to)
    BY <1>1, <2>1 DEF Earlier
  <2>3. CASE s[k].to = to
    <3>1. Earlier(s, k, to) = Earlier(s, k - 1, to) \cup {k}
      BY <2>1, <2>3 DEF Earlier
    <3> QED
      BY <1>2, <1>4, <2>2, <2>3, <3>1, FS_AddElement DEF Seen
  <2>4. CASE s[k].to # to
    <3>1. Earlier(s, k, to) = Earlier(s, k - 1, to)
      BY <2>1, <2>4 DEF Earlier
    <3> QED
      BY <1>2, <1>4, <2>4, <3>1 DEF Seen
  <2> QED
    BY <2>3, <2>4
<1> QED
  BY <1>2, <1>3, <1>4

LEMMA RankIsSeen ==
  ASSUME NEW s, NEW i
  PROVE  Rank(s, i) = Seen(s, i, s[i].to)
BY DEF Rank, Seen, Earlier

(* Ranks have no gaps.                                                     *)
LEMMA RankHasPredecessor ==
  ASSUME NEW s \in Seq(Requests), NEW j \in DOMAIN s, Rank(s, j) > 1
  PROVE  \E i \in DOMAIN s : /\ i < j /\ s[i].to = s[j].to
                             /\ Rank(s, i) = Rank(s, j) - 1
<1> DEFINE to == s[j].to
           E == Earlier(s, j - 1, to)
<1>1. j \in Nat /\ j - 1 \in 0 .. Len(s) /\ j \in 0 .. Len(s) /\ Len(s) \in Nat
      /\ DOMAIN s = 1 .. Len(s)
  BY LenProperties
<1>2. Rank(s, j) = Seen(s, j - 1, to) + 1
  BY <1>1, SeenFacts, RankIsSeen
<1>3. Seen(s, j - 1, to) \in Nat
  BY <1>1, SeenFacts
<1>4. E # {}
  <2> SUFFICES ASSUME E = {} PROVE FALSE
    OBVIOUS
  <2>1. Seen(s, j - 1, to) = 0
    BY FS_EmptySet DEF Seen
  <2> QED
    BY <1>2, <2>1
<1>5. E \in SUBSET (1 .. (j - 1)) /\ j - 1 \in Nat
  BY <1>1 DEF Earlier
<1>6. PICK i \in E : \A k \in E : k <= i
  <2> HIDE DEF E
  <2> QED
    BY <1>4, <1>5, GreatestPosition
<1>7. i \in DOMAIN s /\ i < j /\ s[i].to = to
  BY <1>1, <1>5 DEF Earlier
<1>8. Earlier(s, i, to) = E
  <2>1. Earlier(s, i, to) \subseteq E
    BY <1>1, <1>7 DEF Earlier
  <2>2. ASSUME NEW k \in E PROVE k \in Earlier(s, i, to)
    <3>1. k <= i
      BY <1>6
    <3> QED
      BY <1>5, <3>1 DEF Earlier
  <2> QED
    BY <2>1, <2>2
<1>9. Rank(s, i) = Seen(s, j - 1, to)
  BY <1>7, <1>8, RankIsSeen DEF Seen
<1> QED
  BY <1>2, <1>3, <1>7, <1>9

(* What is left after k turns: the old requests whose rank no new request  *)
(* has reached, in their order; `place` says where each one stood.         *)
LeftAfter(old, new, k, rem, place) ==
  /\ place \in [1 .. Len(rem) -> DOMAIN old]
  /\ \A x, y \in 1 .. Len(rem) : x < y => place[x] < place[y]
  /\ \A x \in 1 .. Len(rem) : rem[x] = old[place[x]]
  /\ \A j \in DOMAIN old :
       (\E x \in 1 .. Len(rem) : place[x] = j) <=> Rank(old, j) > Seen(new, k, old[j].to)

AfterTurns(old, new, k, acc) ==
  /\ acc \in LoopStates
  /\ \E place : LeftAfter(old, new, k, acc.remaining, place)
  /\ Len(acc.pairs) = k
  /\ \A i \in 1 .. k : acc.pairs[i] = MatchRequests(old, new)[i]

(* Positions of what is left that go to q's destination.                   *)
Same(rem, q) == {x \in DOMAIN rem : rem[x].to = q.to}
IsFirst(i, S) == i \in S /\ \A j \in S : i <= j

LEMMA FirstOfSame ==
  ASSUME NEW rem \in Seq(Requests), NEW q, Same(rem, q) # {}
  PROVE  IsFirst(CHOOSE i \in Same(rem, q) : \A j \in Same(rem, q) : i <= j, Same(rem, q))
<1>1. Same(rem, q) \in SUBSET Nat
  BY DEF Same
<1>2. \E i \in Same(rem, q) : \A j \in Same(rem, q) : i <= j
  BY <1>1, LeastNatural
<1> QED
  BY <1>2 DEF IsFirst

LEMMA MatchOneType ==
  ASSUME NEW acc \in LoopStates, NEW q \in Requests
  PROVE  MatchOne(acc, q) \in LoopStates
<1>1. acc.remaining \in Seq(Requests) /\ acc.pairs \in Seq(Pairs)
  BY DEF LoopStates
<1>2. CASE Same(acc.remaining, q) = {}
  <2>1. MatchOne(acc, q) = [acc EXCEPT !.pairs = Append(@, [new |-> q, old |-> {}])]
    BY <1>2 DEF MatchOne, Same
  <2>2. [new |-> q, old |-> {}] \in Pairs
    BY DEF Pairs
  <2>3. Append(acc.pairs, [new |-> q, old |-> {}]) \in Seq(Pairs)
    BY <1>1, <2>2
  <2> QED
    BY <2>1, <2>3 DEF LoopStates
<1>3. CASE Same(acc.remaining, q) # {}
  <2> DEFINE i == CHOOSE i \in Same(acc.remaining, q) : \A j \in Same(acc.remaining, q) : i <= j
  <2>1. i \in Same(acc.remaining, q)
    BY <1>1, <1>3, FirstOfSame DEF IsFirst
  <2>2. i \in 1 .. Len(acc.remaining) /\ acc.remaining[i] \in Requests
    <3> HIDE DEF i
    <3>1. DOMAIN acc.remaining = 1 .. Len(acc.remaining)
      BY <1>1, LenProperties
    <3> QED
      BY <1>1, <2>1, <3>1, ElementOfSeq DEF Same
  <2>3. MatchOne(acc, q)
          = [remaining |-> RemoveAt(acc.remaining, i),
             pairs |-> Append(acc.pairs, [new |-> q, old |-> {acc.remaining[i]}])]
    BY <1>3 DEF MatchOne, Same
  <2> HIDE DEF i
  <2>4. RemoveAt(acc.remaining, i) \in Seq(Requests)
    BY <1>1, <2>2, RemoveAtFacts
  <2>5. [new |-> q, old |-> {acc.remaining[i]}] \in Pairs
    BY <2>2 DEF Pairs
  <2>6. Append(acc.pairs, [new |-> q, old |-> {acc.remaining[i]}]) \in Seq(Pairs)
    BY <1>1, <2>5
  <2> QED
    BY <2>3, <2>4, <2>6 DEF LoopStates
<1> QED
  BY <1>2, <1>3
(* A turn that finds nothing: no old request has the rank of the new one.  *)
LEMMA NothingLeft ==
  ASSUME NEW old \in Seq(Requests), NEW new \in Seq(Requests),
         NEW k \in 0 .. Len(new), k < Len(new),
         NEW rem \in Seq(Requests), NEW place, LeftAfter(old, new, k, rem, place),
         Same(rem, new[k + 1]) = {}
  PROVE  /\ LeftAfter(old, new, k + 1, rem, place)
         /\ MatchRequests(old, new)[k + 1] = [new |-> new[k + 1], old |-> {}]
<1> DEFINE q == new[k + 1]
           n == Seen(new, k, q.to)
<1>1. /\ k + 1 \in 1 .. Len(new) /\ k + 1 \in 0 .. Len(new) /\ k + 1 \in DOMAIN new
      /\ k + 1 # 0 /\ (k + 1) - 1 = k
      /\ DOMAIN rem = 1 .. Len(rem) /\ DOMAIN old = 1 .. Len(old)
  BY LenProperties
<1>2. /\ n \in Nat
      /\ \A to : Seen(new, k, to) \in Nat
      /\ \A to : Seen(new, k + 1, to) = IF q.to = to THEN Seen(new, k, to) + 1
                                        ELSE Seen(new, k, to)
  BY <1>1, SeenFacts
<1>3. Rank(new, k + 1) = n + 1
  BY <1>1, <1>2, RankIsSeen
<1>4. ASSUME NEW j \in DOMAIN old PROVE Rank(old, j) \in Nat
  <2>1. j \in 0 .. Len(old)
    BY <1>1
  <2> QED
    BY <2>1, SeenFacts, RankIsSeen
<1>5. ASSUME NEW j \in DOMAIN old, old[j].to = q.to
      PROVE  ~(Rank(old, j) > n)
  <2> SUFFICES ASSUME Rank(old, j) > n PROVE FALSE
    OBVIOUS
  <2>1. PICK x \in 1 .. Len(rem) : place[x] = j
    BY <1>5 DEF LeftAfter
  <2>2. rem[x].to = q.to /\ x \in DOMAIN rem
    BY <1>1, <1>5, <2>1 DEF LeftAfter
  <2> QED
    BY <2>2 DEF Same
<1> HIDE DEF n, q
<1>6. ASSUME NEW j \in DOMAIN old
      PROVE  Rank(old, j) > Seen(new, k, old[j].to) <=> Rank(old, j) > Seen(new, k + 1, old[j].to)
  <2>1. CASE old[j].to = q.to
    <3>1. Seen(new, k, old[j].to) = n /\ Seen(new, k + 1, old[j].to) = n + 1
      BY <1>2, <2>1 DEF n, q
    <3> QED
      BY <1>2, <1>4, <1>5, <2>1, <3>1
  <2>2. CASE old[j].to # q.to
    BY <1>2, <2>2
  <2> QED
    BY <2>1, <2>2
<1>7. LeftAfter(old, new, k + 1, rem, place)
  BY <1>6 DEF LeftAfter
<1>8. {j \in DOMAIN old : old[j].to = q.to /\ Rank(old, j) = Rank(new, k + 1)} = {}
  BY <1>2, <1>3, <1>4, <1>5
<1>9. MatchRequests(old, new)[k + 1] = [new |-> q, old |-> {}]
  <2>1. MatchRequests(old, new)[k + 1]
          = [new |-> q,
             old |-> {old[j] : j \in {j \in DOMAIN old : /\ old[j].to = q.to
                                                         /\ Rank(old, j) = Rank(new, k + 1)}}]
    BY <1>1 DEF MatchRequests, q
  <2>2. {old[j] : j \in {j \in DOMAIN old : /\ old[j].to = q.to
                                            /\ Rank(old, j) = Rank(new, k + 1)}} = {}
    BY <1>8
  <2> QED
    BY <2>1, <2>2
<1> QED
  BY <1>7, <1>9 DEF q

(* A turn that finds something: the first request left there has exactly   *)
(* the rank of the new one.                                                *)
MatchedBy(old, new, k, rem, i) ==
  /\ \E p : LeftAfter(old, new, k + 1, RemoveAt(rem, i), p)
  /\ MatchRequests(old, new)[k + 1] = [new |-> new[k + 1], old |-> {rem[i]}]

LEMMA FirstLeft ==
  ASSUME NEW old \in Seq(Requests), NEW new \in Seq(Requests),
         NEW k \in 0 .. Len(new), k < Len(new),
         NEW rem \in Seq(Requests), NEW place, LeftAfter(old, new, k, rem, place),
         NEW q, q = new[k + 1], NEW i, IsFirst(i, Same(rem, q))
  PROVE  MatchedBy(old, new, k, rem, i)
<1> DEFINE n == Seen(new, k, q.to)
<1>1. /\ k + 1 \in 1 .. Len(new) /\ k + 1 \in 0 .. Len(new) /\ k + 1 \in DOMAIN new
      /\ k + 1 # 0 /\ (k + 1) - 1 = k /\ Len(rem) \in Nat
      /\ DOMAIN rem = 1 .. Len(rem) /\ DOMAIN old = 1 .. Len(old)
  BY LenProperties
<1>2. /\ n \in Nat
      /\ \A to : Seen(new, k, to) \in Nat
      /\ \A to : Seen(new, k + 1, to) = IF q.to = to THEN Seen(new, k, to) + 1
                                        ELSE Seen(new, k, to)
  BY <1>1, SeenFacts
<1>3. Rank(new, k + 1) = n + 1
  BY <1>1, <1>2, RankIsSeen
<1>4. ASSUME NEW j \in DOMAIN old PROVE Rank(old, j) \in Nat
  <2>1. j \in 0 .. Len(old)
    BY <1>1
  <2> QED
    BY <2>1, SeenFacts, RankIsSeen
<1>5. i \in 1 .. Len(rem) /\ rem[i].to = q.to
  BY <1>1 DEF Same, IsFirst
<1>6. /\ \A x \in 1 .. Len(rem) : place[x] \in DOMAIN old /\ rem[x] = old[place[x]]
      /\ \A x, y \in 1 .. Len(rem) : x < y => place[x] < place[y]
      /\ \A j \in DOMAIN old :
           (\E x \in 1 .. Len(rem) : place[x] = j) <=> Rank(old, j) > Seen(new, k, old[j].to)
  BY DEF LeftAfter
<1> HIDE DEF n
<1>7. \A x \in 1 .. Len(rem) : rem[x].to = q.to => i <= x
  BY <1>1 DEF Same, IsFirst
<1>8. place[i] \in DOMAIN old /\ old[place[i]].to = q.to /\ Rank(old, place[i]) > n
  BY <1>5, <1>6 DEF n
<1>9. Rank(old, place[i]) = n + 1
  <2> SUFFICES ASSUME Rank(old, place[i]) > n + 1 PROVE FALSE
    BY <1>2, <1>4, <1>8
  <2>1. PICK j \in DOMAIN old : /\ j < place[i] /\ old[j].to = q.to
                                /\ Rank(old, j) = Rank(old, place[i]) - 1
    BY <1>2, <1>4, <1>8, RankHasPredecessor
  <2>2. Rank(old, j) > n
    BY <1>2, <1>4, <1>8, <2>1
  <2>3. PICK x \in 1 .. Len(rem) : place[x] = j
    BY <1>6, <2>1, <2>2 DEF n
  <2>4. rem[x].to = q.to /\ x # i
    BY <1>1, <1>6, <1>8, <2>1, <2>3
  <2>5. i < x
    BY <1>1, <1>5, <1>7, <2>4
  <2>6. place[i] < place[x]
    BY <1>5, <1>6, <2>5
  <2> QED
    BY <1>1, <1>8, <2>1, <2>3, <2>6
<1>10. ASSUME NEW j \in DOMAIN old, old[j].to = q.to, Rank(old, j) = n + 1
       PROVE  j = place[i]
  BY <1>8, <1>9, <1>10, RankIdentifies
<1>11. MatchRequests(old, new)[k + 1] = [new |-> q, old |-> {rem[i]}]
  <2> DEFINE J == {j \in DOMAIN old : /\ old[j].to = q.to
                                      /\ Rank(old, j) = Rank(new, k + 1)}
  <2>1. MatchRequests(old, new)[k + 1] = [new |-> q, old |-> {old[j] : j \in J}]
    BY <1>1 DEF MatchRequests
  <2>2. J = {place[i]}
    BY <1>3, <1>8, <1>9, <1>10
  <2>3. {old[j] : j \in J} = {rem[i]}
    <3> HIDE DEF J
    <3> QED
      BY <1>5, <1>6, <2>2
  <2> HIDE DEF J
  <2> QED
    BY <2>1, <2>3
<1> DEFINE r == RemoveAt(rem, i)
           p == [x \in 1 .. (Len(rem) - 1) |-> IF x < i THEN place[x] ELSE place[x + 1]]
<1>12. /\ Len(r) = Len(rem) - 1
       /\ \A x \in 1 .. (Len(rem) - 1) : r[x] = IF x < i THEN rem[x] ELSE rem[x + 1]
  BY <1>5, RemoveAtFacts
<1>13. i \in Nat /\ \A x \in 1 .. (Len(rem) - 1) :
         /\ x \in 1 .. Len(rem) /\ x + 1 \in 1 .. Len(rem)
         /\ p[x] = IF x < i THEN place[x] ELSE place[x + 1]
  BY <1>1, <1>5
<1>14. p \in [1 .. Len(r) -> DOMAIN old]
  BY <1>6, <1>12, <1>13
<1> HIDE DEF r, p
<1>15. ASSUME NEW x \in 1 .. Len(r) PROVE r[x] = old[p[x]]
  <2>1. x \in 1 .. (Len(rem) - 1)
    BY <1>12
  <2>2. CASE x < i
    BY <1>6, <1>12, <1>13, <2>1, <2>2
  <2>3. CASE ~(x < i)
    <3>1. r[x] = rem[x + 1] /\ p[x] = place[x + 1] /\ x + 1 \in 1 .. Len(rem)
      BY <1>12, <1>13, <2>1, <2>3
    <3> QED
      BY <1>6, <3>1
  <2> QED
    BY <2>2, <2>3
<1>16. ASSUME NEW x \in 1 .. Len(r), NEW y \in 1 .. Len(r), x < y
       PROVE  p[x] < p[y]
  <2>1. CASE y < i
    <3>0. x \in 1 .. (Len(rem) - 1) /\ y \in 1 .. (Len(rem) - 1) /\ x < i
      BY <1>1, <1>12, <1>13, <1>16, <2>1
    <3>1. p[x] = place[x] /\ p[y] = place[y]
      BY <1>13, <2>1, <3>0
    <3> QED
      BY <1>6, <1>12, <1>13, <1>16, <3>1
  <2>2. CASE ~(y < i) /\ x < i
    <3>1. p[x] = place[x] /\ p[y] = place[y + 1] /\ x < y + 1
      BY <1>12, <1>13, <1>16, <2>2
    <3> QED
      BY <1>6, <1>12, <1>13, <3>1
  <2>3. CASE ~(x < i)
    <3>1. p[x] = place[x + 1] /\ p[y] = place[y + 1] /\ x + 1 < y + 1
      BY <1>12, <1>13, <1>16, <2>3
    <3> QED
      BY <1>6, <1>12, <1>13, <3>1
  <2> QED
    BY <2>1, <2>2, <2>3
<1>17. ASSUME NEW j \in DOMAIN old
       PROVE  (\E x \in 1 .. Len(r) : p[x] = j)
                <=> j # place[i] /\ \E x \in 1 .. Len(rem) : place[x] = j
  <2>1. ASSUME NEW x \in 1 .. Len(r), p[x] = j
        PROVE  j # place[i] /\ \E y \in 1 .. Len(rem) : place[y] = j
    <3>1. CASE x < i
      <4>1. p[x] = place[x] /\ x \in 1 .. Len(rem)
        BY <1>12, <1>13, <3>1
      <4>2. place[x] < place[i]
        BY <1>5, <1>6, <3>1, <4>1
      <4> QED
        BY <1>1, <1>8, <2>1, <4>1, <4>2
    <3>2. CASE ~(x < i)
      <4>1. p[x] = place[x + 1] /\ x + 1 \in 1 .. Len(rem) /\ i < x + 1
        BY <1>12, <1>13, <3>2
      <4>2. place[i] < place[x + 1]
        BY <1>5, <1>6, <4>1
      <4> QED
        BY <1>1, <1>8, <2>1, <4>1, <4>2
    <3> QED
      BY <3>1, <3>2
  <2>2. ASSUME NEW y \in 1 .. Len(rem), place[y] = j, j # place[i]
        PROVE  \E x \in 1 .. Len(r) : p[x] = j
    <3>1. y # i
      BY <2>2
    <3>2. CASE y < i
      <4>1. y \in 1 .. Len(r)
        BY <1>1, <1>5, <1>12, <3>2
      <4> QED
        BY <1>12, <1>13, <2>2, <3>2, <4>1
    <3>3. CASE i < y
      <4>1. y - 1 \in 1 .. Len(r) /\ ~(y - 1 < i) /\ (y - 1) + 1 = y
        BY <1>1, <1>5, <1>12, <3>3
      <4>2. p[y - 1] = place[y]
        BY <1>12, <1>13, <4>1
      <4> QED
        BY <2>2, <4>1, <4>2
    <3> QED
      BY <1>1, <1>13, <3>1, <3>2, <3>3
  <2> QED
    BY <2>1, <2>2
<1>18. ASSUME NEW j \in DOMAIN old
       PROVE  j # place[i] /\ Rank(old, j) > Seen(new, k, old[j].to)
                <=> Rank(old, j) > Seen(new, k + 1, old[j].to)
  <2>1. CASE old[j].to = q.to
    <3>1. Seen(new, k, old[j].to) = n /\ Seen(new, k + 1, old[j].to) = n + 1
      BY <1>2, <2>1 DEF n
    <3>2. j = place[i] <=> Rank(old, j) = n + 1
      BY <1>9, <1>10, <2>1
    <3> QED
      BY <1>2, <1>4, <3>1, <3>2
  <2>2. CASE old[j].to # q.to
    <3>1. j # place[i] /\ Seen(new, k, old[j].to) = Seen(new, k + 1, old[j].to)
      BY <1>2, <1>8, <2>2
    <3> QED
      BY <3>1
  <2> QED
    BY <2>1, <2>2
<1>19. ASSUME NEW j \in DOMAIN old
       PROVE  (\E x \in 1 .. Len(r) : p[x] = j) <=> Rank(old, j) > Seen(new, k + 1, old[j].to)
  BY <1>6, <1>17, <1>18
<1>20. LeftAfter(old, new, k + 1, r, p)
  BY <1>14, <1>15, <1>16, <1>19 DEF LeftAfter
<1> QED
  BY <1>11, <1>20 DEF r, MatchedBy
LEMMA TurnMatches ==
  ASSUME NEW old \in Seq(Requests), NEW new \in Seq(Requests),
         NEW k \in 0 .. Len(new), k < Len(new),
         NEW acc, AfterTurns(old, new, k, acc)
  PROVE  AfterTurns(old, new, k + 1, MatchOne(acc, new[k + 1]))
<1> DEFINE q == new[k + 1]
           rem == acc.remaining
           next == MatchOne(acc, q)
<1>1. /\ acc \in LoopStates /\ rem \in Seq(Requests) /\ acc.pairs \in Seq(Pairs)
      /\ Len(acc.pairs) = k
      /\ \A i \in 1 .. k : acc.pairs[i] = MatchRequests(old, new)[i]
  BY DEF AfterTurns, LoopStates
<1>2. PICK place : LeftAfter(old, new, k, rem, place)
  BY DEF AfterTurns
<1>3. k \in Nat /\ k + 1 \in 1 .. Len(new) /\ q \in Requests
  BY LenProperties, ElementOfSeq
<1>4. next \in LoopStates
  BY <1>1, <1>3, MatchOneType
<1>5. ASSUME NEW pair \in Pairs, next.pairs = Append(acc.pairs, pair),
             pair = MatchRequests(old, new)[k + 1]
      PROVE  /\ Len(next.pairs) = k + 1
             /\ \A i \in 1 .. (k + 1) : next.pairs[i] = MatchRequests(old, new)[i]
  <2>1. /\ Len(Append(acc.pairs, pair)) = k + 1
        /\ \A i \in 1 .. k : Append(acc.pairs, pair)[i] = acc.pairs[i]
        /\ Append(acc.pairs, pair)[k + 1] = pair
    BY <1>1, <1>3, AppendProperties
  <2> HIDE DEF next
  <2> QED
    BY <1>1, <1>3, <1>5, <2>1
<1>6. CASE Same(rem, q) = {}
  <2> DEFINE pair == [new |-> q, old |-> {}]
  <2>1. next = [acc EXCEPT !.pairs = Append(@, pair)]
    BY <1>6 DEF MatchOne, Same
  <2>2. next.remaining = rem /\ next.pairs = Append(acc.pairs, pair)
    BY <1>1, <2>1 DEF LoopStates
  <2>3. pair \in Pairs
    BY <1>3 DEF Pairs
  <2>4. LeftAfter(old, new, k + 1, rem, place) /\ pair = MatchRequests(old, new)[k + 1]
    BY <1>1, <1>2, <1>6, NothingLeft
  <2>5. LeftAfter(old, new, k + 1, next.remaining, place)
    BY <2>2, <2>4
  <2>6. /\ Len(next.pairs) = k + 1
        /\ \A i \in 1 .. (k + 1) : next.pairs[i] = MatchRequests(old, new)[i]
    <3> HIDE DEF next, rem, pair
    <3> QED
      BY <1>5, <2>2, <2>3, <2>4
  <2>7. AfterTurns(old, new, k + 1, next)
    <3> HIDE DEF next, rem, pair, q
    <3> QED
      BY <1>4, <2>5, <2>6 DEF AfterTurns
  <2> QED
    BY <2>7
<1>7. CASE Same(rem, q) # {}
  <2> DEFINE i == CHOOSE i \in Same(rem, q) : \A j \in Same(rem, q) : i <= j
             pair == [new |-> q, old |-> {rem[i]}]
  <2>1. IsFirst(i, Same(rem, q))
    BY <1>1, <1>7, FirstOfSame
  <2>2. next = [remaining |-> RemoveAt(rem, i), pairs |-> Append(acc.pairs, pair)]
    BY <1>7 DEF MatchOne, Same
  <2>3. next.remaining = RemoveAt(rem, i) /\ next.pairs = Append(acc.pairs, pair)
    BY <2>2
  <2> HIDE DEF i
  <2>4. pair \in Pairs
    <3>1. rem[i] \in Requests
      BY <1>1, <2>1, ElementOfSeq, LenProperties DEF Same, IsFirst
    <3> QED
      BY <1>3, <3>1 DEF Pairs
  <2>5. /\ \E p : LeftAfter(old, new, k + 1, RemoveAt(rem, i), p)
        /\ pair = MatchRequests(old, new)[k + 1]
    <3> HIDE DEF next, rem, q
    <3>1. q = new[k + 1]
      BY DEF q
    <3>2. MatchedBy(old, new, k, rem, i)
      BY <1>1, <1>2, <2>1, <3>1, FirstLeft
    <3> QED
      BY <3>1, <3>2 DEF MatchedBy
  <2>6. \E s : LeftAfter(old, new, k + 1, next.remaining, s)
    BY <2>3, <2>5
  <2>7. /\ Len(next.pairs) = k + 1
        /\ \A x \in 1 .. (k + 1) : next.pairs[x] = MatchRequests(old, new)[x]
    <3> HIDE DEF next, rem, pair
    <3> QED
      BY <1>5, <2>3, <2>4, <2>5
  <2>8. AfterTurns(old, new, k + 1, next)
    <3> HIDE DEF next, rem, pair, q
    <3> QED
      BY <1>4, <2>6, <2>7 DEF AfterTurns
  <2> QED
    BY <2>8
<1> QED
  BY <1>6, <1>7

LEMMA NoTurnsYet ==
  ASSUME NEW old \in Seq(Requests), NEW new \in Seq(Requests)
  PROVE  AfterTurns(old, new, 0, [remaining |-> old, pairs |-> <<>>])
<1> DEFINE place == [x \in 1 .. Len(old) |-> x]
<1>1. DOMAIN old = 1 .. Len(old) /\ Len(old) \in Nat
  BY LenProperties
<1>2. ASSUME NEW j \in DOMAIN old
      PROVE  Rank(old, j) > Seen(new, 0, old[j].to)
  <2>1. Seen(new, 0, old[j].to) = 0
    BY SeenFacts, LenProperties
  <2>2. j \in 0 .. Len(old) /\ j # 0
    BY <1>1
  <2>3. Rank(old, j) = Seen(old, j - 1, old[j].to) + 1
    BY <2>2, SeenFacts, RankIsSeen
  <2>4. Seen(old, j - 1, old[j].to) \in Nat
    <3>1. j - 1 \in 0 .. Len(old)
      BY <1>1
    <3> QED
      BY <3>1, SeenFacts
  <2> QED
    BY <2>1, <2>3, <2>4
<1>3. LeftAfter(old, new, 0, old, place)
  <2>1. /\ place \in [1 .. Len(old) -> DOMAIN old]
        /\ \A x \in 1 .. Len(old) : place[x] = x
    BY <1>1
  <2> HIDE DEF place
  <2>2. \A j \in DOMAIN old : \E x \in 1 .. Len(old) : place[x] = j
    BY <1>1, <2>1
  <2> QED
    BY <1>1, <1>2, <2>1, <2>2 DEF LeftAfter
<1>4. <<>> \in Seq(Pairs) /\ Len(<<>>) = 0
  BY EmptySeq
<1>5. [remaining |-> old, pairs |-> <<>>] \in LoopStates
  BY <1>4 DEF LoopStates
<1> QED
  BY <1>3, <1>4, <1>5 DEF AfterTurns

(* What the loop computes, for any two lists of requests.                  *)
LEMMA LoopIsByRank ==
  ASSUME NEW old \in Seq(Requests), NEW new \in Seq(Requests)
  PROVE  MatchLoop(old, new) = MatchRequests(old, new)
<1> DEFINE N == Len(new)
           start == [remaining |-> old, pairs |-> <<>>]
           turn == [acc \in LoopStates |-> [k \in 1 .. N |-> MatchOne(acc, new[k])]]
           after == CHOOSE f : f = [k \in 0 .. N |-> IF k = 0 THEN start
                                                     ELSE MatchOne(f[k - 1], new[k])]
<1>1. N \in Nat /\ DOMAIN new = 1 .. N /\ \A k \in 1 .. N : new[k] \in Requests
  BY LenProperties, ElementOfSeq
<1>2. MatchLoop(old, new) = after[N].pairs
  BY DEF MatchLoop
<1>3. start \in LoopStates
  BY NoTurnsYet DEF AfterTurns
<1>4. turn \in [LoopStates -> [1 .. N -> LoopStates]]
  BY <1>1, MatchOneType
<1> HIDE DEF start, N
<1>5. after = [k \in 0 .. N |-> IF k = 0 THEN start ELSE MatchOne(after[k - 1], new[k])]
  <2>1. PICK f \in [0 .. N -> LoopStates] :
          f[0] = start /\ \A k \in 1 .. N : f[k] = turn[f[k - 1]][k]
    <3> HIDE DEF turn, after
    <3>1. IsLoop(N, LoopStates, start, turn)
      BY <1>1, <1>3, <1>4 DEF IsLoop
    <3>2. PICK f : IsRunOf(f, N, LoopStates, start, turn)
      BY <3>1, LoopRuns
    <3> QED
      BY <3>2 DEF IsRunOf
  <2>2. ASSUME NEW k \in 0 .. N
        PROVE  f[k] = IF k = 0 THEN start ELSE MatchOne(f[k - 1], new[k])
    <3>1. CASE k = 0
      BY <2>1, <3>1
    <3>2. CASE k # 0
      <4>1. k \in 1 .. N /\ f[k - 1] \in LoopStates
        BY <1>1, <2>1, <3>2
      <4> QED
        BY <2>1, <3>2, <4>1
    <3> QED
      BY <3>1, <3>2
  <2>3. f = [k \in 0 .. N |-> IF k = 0 THEN start ELSE MatchOne(f[k - 1], new[k])]
    BY <2>1, <2>2
  <2> QED
    BY <2>3
<1> HIDE DEF after, turn
<1> DEFINE T == {k \in 0 .. N : AfterTurns(old, new, k, after[k])}
<1>6. 0 \in T
  <2>1. 0 \in 0 .. N /\ after[0] = start
    BY <1>1, <1>5
  <2> QED
    BY <2>1, NoTurnsYet DEF start
<1>7. ASSUME NEW k \in T, k < N PROVE k + 1 \in T
  <2>1. k \in 0 .. N /\ k + 1 \in 0 .. N /\ k + 1 # 0 /\ (k + 1) - 1 = k
    BY <1>1, <1>7
  <2>2. after[k + 1] = MatchOne(after[k], new[k + 1])
    BY <1>5, <2>1
  <2>3. AfterTurns(old, new, k, after[k])
    OBVIOUS
  <2>4. AfterTurns(old, new, k + 1, MatchOne(after[k], new[k + 1]))
    BY <1>7, <2>1, <2>3, TurnMatches DEF N
  <2> QED
    BY <2>1, <2>2, <2>4
<1>8. T = 0 .. N
  <2>1. T \in SUBSET (0 .. N)
    OBVIOUS
  <2> HIDE DEF T
  <2> QED
    BY <1>1, <1>6, <1>7, <2>1, FromZeroInduction
<1>9. AfterTurns(old, new, N, after[N])
  <2>1. N \in T
    <3> HIDE DEF T
    <3> QED
      BY <1>1, <1>8
  <2> QED
    BY <2>1
<1>10. /\ after[N].pairs \in Seq(Pairs) /\ Len(after[N].pairs) = N
       /\ \A i \in 1 .. N : after[N].pairs[i] = MatchRequests(old, new)[i]
  BY <1>9 DEF AfterTurns, LoopStates
<1>11. after[N].pairs = [i \in 1 .. N |-> MatchRequests(old, new)[i]]
  <2>1. DOMAIN after[N].pairs = 1 .. N /\ after[N].pairs \in [1 .. N -> Pairs]
    BY <1>10, LenProperties
  <2> QED
    BY <1>10, <2>1
<1>12. MatchRequests(old, new) = [i \in 1 .. N |-> MatchRequests(old, new)[i]]
  BY <1>1 DEF MatchRequests
<1> QED
  BY <1>2, <1>11, <1>12

(* diff.py:105-118: the loop with its list of remaining requests pairs     *)
(* requests by their rank at the destination, whatever any two runs sent.  *)
THEOREM LoopPairsByRank == DiffSpec => []LoopMatchesByRank
<1>1. DiffInv => LoopMatchesByRank
  <2> SUFFICES ASSUME DiffInv,
                      NEW i \in DOMAIN results["new"], NEW j \in DOMAIN results["old"],
                      NEW new \in results["new"][i], NEW old \in results["old"][j]
               PROVE  MatchLoop(old.requests, new.requests)
                        = MatchRequests(old.requests, new.requests)
    BY DEF LoopMatchesByRank
  <2>1. results["new"] \in Seq(Sightings) /\ results["old"] \in Seq(Sightings)
    BY DEF DiffInv, Versions
  <2>2. results["new"][i] \in Sightings /\ results["old"][j] \in Sightings
    BY <2>1, ElementOfSeq, LenProperties
  <2>3. new \in Observed /\ old \in Observed
    BY <2>2, SightingKinds
  <2> QED
    BY <2>3, DiffBounds, LoopIsByRank
<1> QED
  BY <1>1, DiffInvariant, PTL
=============================================================================
