------------------------- MODULE PackagePartsProofs --------------------------
(***************************************************************************)
(* Theorems about two sides of running a package, which meet in no state:  *)
(* how its process is confined (Sandbox), for any tree of places, any      *)
(* configuration a package declares and any kernel, and the arguments its  *)
(* tools are called with (Probes), for any schemas, keys and tools.        *)
(***************************************************************************)
EXTENDS Sandbox, Probes, SequenceFacts

Started == {"spawn", "create", "rules", "restrict", "exec", "running"}
Changes == {1, 5, 8, 14}                 \* the rights of the operations but "read"

(* A rule that may be granted: it lets read and execute, only the run      *)
(* directory and the devices be changed, and only what is given be read.   *)
GoodRule(rule) ==
  /\ rule.path \in SystemDirs \cup Devices \cup Given
  /\ rule.access \cap Changes # {} => rule.path \in {Workdir} \cup Devices
  /\ ExecuteBit \in rule.access /\ rule.access \subseteq READ_WRITE
  /\ rule.path \notin Dirs => rule.access \cap DirectoryOnly = {}

EnvInv ==
  at \in Started => available /\ declared \cap Forbidden = {} /\ env = build_child_env(declared)

HelperInv ==
  /\ abi \in 0..7
  /\ \A rule \in todo \cup rules : GoodRule(rule)
  /\ at \in {"create", "rules", "restrict"} => platform = "linux" /\ ~shadowed
  /\ at \in {"restrict"} => ports = {ProxyPort}
  /\ at \in {"exec", "running"} /\ OwnStart =>
       /\ ports = {ProxyPort}
       /\ platform = "linux" => restricted
       /\ platform # "linux" => profile = build_profile
  /\ at # "rejected"

BoxInv == EnvInv /\ HelperInv

LEMMA GrantsAreGood ==
  \A rule \in build_config : GoodRule(rule)
<1>1. ASSUME NEW p \in SystemDirs \cup Each(ReadPaths), NEW rule \in Grant(p, READ_ONLY)
      PROVE  GoodRule(rule)
  BY <1>1 DEF Grant, Rule, GoodRule, READ_ONLY, ReadFile, ExecuteBit, DirectoryOnly, Changes,
              READ_WRITE, Given
<1>2. ASSUME NEW p \in Devices \cup {Workdir}, NEW rule \in Grant(p, READ_WRITE)
      PROVE  GoodRule(rule)
  BY <1>2 DEF Grant, Rule, GoodRule, ExecuteBit, DirectoryOnly, READ_WRITE, Given
<1>3. ASSUME NEW rule \in build_config
      PROVE  \/ \E p \in SystemDirs \cup Each(ReadPaths) : rule \in Grant(p, READ_ONLY)
             \/ \E p \in Devices \cup {Workdir} : rule \in Grant(p, READ_WRITE)
  <2>1. \/ rule \in UNION {Grant(p, READ_ONLY) : p \in SystemDirs \cup Each(ReadPaths)}
        \/ rule \in UNION {Grant(p, READ_WRITE) : p \in Devices}
        \/ rule \in Grant(Workdir, READ_WRITE)
    BY <1>3 DEF build_config
  <2>2. QED
    BY <2>1, Zenon
<1>4. QED
  BY <1>1, <1>2, <1>3

(* The rights every kernel with network rules handles.                     *)
LEMMA Handled ==
  ASSUME NEW v \in 4..7
  PROVE  _handled_fs(v) \subseteq 0..15 /\ 0..14 \subseteq _handled_fs(v)
BY DEF _handled_fs

(* Masking with what is handled leaves a good rule that the kernel takes.  *)
LEMMA MaskedIsValid ==
  ASSUME NEW rule, GoodRule(rule), abi \in 4..7
  PROVE  GoodRule(Masked(rule)) /\ Valid(Masked(rule))
<1>1. ExecuteBit \in _handled_fs(abi)
  BY Handled DEF ExecuteBit
<1>2. QED
  BY <1>1 DEF GoodRule, Masked, Valid, Rule

LEMMA EnvStep ==
  ASSUME EnvInv, BoxNext
  PROVE  EnvInv'
<1> USE DEF EnvInv, Started, Go, world, available
<1>1. CASE Unavailable \/ EnvRefused \/ EnvBuilt
  BY <1>1 DEF Unavailable, EnvRefused, EnvBuilt
<1>2. CASE ProfileWritten \/ HelperStarted \/ RulesetCreated
  BY <1>2 DEF ProfileWritten, HelperStarted, RulesetCreated
<1>3. CASE PortAdded \/ Restricted \/ Fails \/ Exec
  BY <1>3 DEF PortAdded, Restricted, Fails, Exec
<1>7. CASE ProfileReplaced \/ OtherModuleImported
  BY <1>7 DEF ProfileReplaced, OtherModuleImported
<1>4. ASSUME NEW rule \in todo, RuleAdded(rule) \/ RuleSkipped(rule)
      PROVE  EnvInv'
  BY <1>4 DEF RuleAdded, RuleSkipped
<1>5. ASSUME NEW p, Vanish(p)
      PROVE  EnvInv'
  BY <1>5 DEF Vanish
<1>6. QED
  BY ONLY BoxNext, <1>1, <1>2, <1>3, <1>4, <1>5, <1>7 DEF BoxNext

LEMMA HelperStep ==
  ASSUME EnvInv, HelperInv, BoxNext
  PROVE  HelperInv'
<1> USE DEF HelperInv, Go, world, GoodRule, OwnStart
<1>1. CASE Unavailable \/ EnvRefused \/ EnvBuilt
  BY <1>1 DEF Unavailable, EnvRefused, EnvBuilt
<1>2. CASE ProfileWritten
  BY <1>2 DEF ProfileWritten, build_profile
<1>9. CASE ProfileReplaced \/ OtherModuleImported
  BY <1>9 DEF ProfileReplaced, OtherModuleImported
<1>3. CASE HelperStarted
  BY <1>3, GrantsAreGood DEF HelperStarted
<1>4. CASE RulesetCreated \/ PortAdded \/ Restricted \/ Fails \/ Exec
  <2>1. CASE RulesetCreated \/ PortAdded
    BY <2>1 DEF RulesetCreated, PortAdded
  <2>2. CASE Restricted
    BY <2>2 DEF Restricted
  <2>3. CASE Fails
    BY <2>3 DEF Fails
  <2>4. CASE Exec
    <3>1. UNCHANGED build_profile
      BY DEF build_profile
    <3>2. QED
      BY <2>4, <3>1 DEF Exec
  <2>5. QED
    BY <1>4, <2>1, <2>2, <2>3, <2>4
<1>5. ASSUME NEW rule \in todo, RuleAdded(rule)
      PROVE  HelperInv'
  <2>1. abi \in 4..7
    BY <1>5 DEF RuleAdded, EnvInv, Started, available
  <2>2. GoodRule(Masked(rule)) /\ Valid(Masked(rule))
    BY <2>1, MaskedIsValid
  <2>3. QED
    BY <1>5, <2>2 DEF RuleAdded
<1>6. ASSUME NEW rule \in todo, RuleSkipped(rule)
      PROVE  HelperInv'
  BY <1>6 DEF RuleSkipped
<1>7. ASSUME NEW p, Vanish(p)
      PROVE  HelperInv'
  BY <1>7 DEF Vanish
<1>8. QED
  BY ONLY BoxNext, <1>1, <1>2, <1>3, <1>4, <1>5, <1>6, <1>7, <1>9 DEF BoxNext

LEMMA BoxInductive == BoxSpec => []BoxInv
<1>1. BoxInit => BoxInv
  <2>1. BoxInit => abi \in 0..7
    <3>1. BoxInit /\ platform = "linux" => abi \in 0..7
      BY DEF BoxInit
    <3>2. BoxInit /\ platform # "linux" => abi = 0
      BY DEF BoxInit
    <3>3. QED
      BY <3>1, <3>2
  <2>2. BoxInit => at = "asked" /\ todo \cup rules = {}
    BY DEF BoxInit
  <2>3. QED
    BY <2>1, <2>2 DEF BoxInv, EnvInv, HelperInv, Started
<1>2. BoxInv /\ [BoxNext]_boxVars => BoxInv'
  <2>1. ASSUME BoxInv, BoxNext PROVE BoxInv'
    BY <2>1, EnvStep, HelperStep DEF BoxInv
  <2>2. ASSUME BoxInv, UNCHANGED boxVars PROVE BoxInv'
    BY <2>2 DEF boxVars, world, BoxInv, EnvInv, HelperInv, GoodRule, available, build_profile,
                OwnStart
  <2>3. QED
    BY <2>1, <2>2
<1>3. QED
  BY <1>1, <1>2, PTL DEF BoxSpec

(* landlock.py:236: no set of paths, whichever are directories, makes the  *)
(* kernel reject a rule.                                                   *)
THEOREM NoRuleIsRejected == BoxSpec => []NothingIsRejected
<1>1. BoxInv => NothingIsRejected
  BY DEF BoxInv, HelperInv, NothingIsRejected
<1>2. QED
  BY <1>1, BoxInductive, PTL

(* The lines of the profile, in order: everything may be read, but not the *)
(* users' trees, but what is given; only the run directory and the null    *)
(* device may be changed.                                                  *)
LineSet == [allow : BOOLEAN, ops : SUBSET Operation, path : Places]

LEMMA LinesAreLines ==
  ASSUME NEW allow \in BOOLEAN, NEW list \in Seq(Places)
  PROVE  /\ Lines(allow, list) \in Seq(LineSet) /\ Len(Lines(allow, list)) = Len(list)
         /\ \A i \in 1..Len(list) : Lines(allow, list)[i] = Line(allow, {"read"}, list[i])
<1>1. DOMAIN list = 1..Len(list) /\ Len(list) \in Nat /\ \A i \in 1..Len(list) : list[i] \in Places
  OBVIOUS
<1>2. \A i \in 1..Len(list) : Line(allow, {"read"}, list[i]) \in LineSet
  BY <1>1 DEF Line, LineSet, Operation
<1>3. Lines(allow, list) = [i \in 1..Len(list) |-> Line(allow, {"read"}, list[i])]
  BY <1>1 DEF Lines
<1>4. QED
  BY <1>1, <1>2, <1>3

LEMMA ConcatLines ==
  ASSUME NEW s \in Seq(LineSet), NEW t \in Seq(LineSet)
  PROVE  /\ s \o t \in Seq(LineSet) /\ Len(s \o t) = Len(s) + Len(t)
         /\ \A i \in 1..Len(s) : (s \o t)[i] = s[i]
         /\ \A i \in 1..Len(t) : (s \o t)[Len(s) + i] = t[i]
OBVIOUS

Denied == Len(UserTrees)
GivenBack == Len(ReadPaths)

LEMMA LineLists ==
  /\ Denied \in Nat /\ GivenBack \in Nat
  /\ Lines(FALSE, UserTrees) \in Seq(LineSet) /\ Len(Lines(FALSE, UserTrees)) = Denied
  /\ \A i \in 1..Denied : Lines(FALSE, UserTrees)[i] = Line(FALSE, {"read"}, UserTrees[i])
  /\ Lines(TRUE, ReadPaths) \in Seq(LineSet) /\ Len(Lines(TRUE, ReadPaths)) = GivenBack
  /\ \A i \in 1..GivenBack : Lines(TRUE, ReadPaths)[i] = Line(TRUE, {"read"}, ReadPaths[i])
<1>1. UserTrees \in Seq(Places) /\ ReadPaths \in Seq(Places)
  BY TreeAssumption
<1>2. Denied \in Nat /\ GivenBack \in Nat
  BY <1>1 DEF Denied, GivenBack
<1>3. TRUE \in BOOLEAN /\ FALSE \in BOOLEAN
  OBVIOUS
<1>4. /\ Lines(FALSE, UserTrees) \in Seq(LineSet) /\ Len(Lines(FALSE, UserTrees)) = Denied
      /\ \A i \in 1..Denied : Lines(FALSE, UserTrees)[i] = Line(FALSE, {"read"}, UserTrees[i])
  BY <1>1, <1>3, LinesAreLines, Zenon DEF Denied
<1>5. /\ Lines(TRUE, ReadPaths) \in Seq(LineSet) /\ Len(Lines(TRUE, ReadPaths)) = GivenBack
      /\ \A i \in 1..GivenBack : Lines(TRUE, ReadPaths)[i] = Line(TRUE, {"read"}, ReadPaths[i])
  BY <1>1, <1>3, LinesAreLines, Zenon DEF GivenBack
<1>6. QED
  BY <1>2, <1>4, <1>5

LEMMA ProfileLines ==
  /\ Denied \in Nat /\ GivenBack \in Nat
  /\ DOMAIN build_profile = 1..(Denied + GivenBack + 4)
  /\ build_profile[1] = Line(TRUE, {"read"}, Root)
  /\ \A i \in 1..Denied : build_profile[1 + i] = Line(FALSE, {"read"}, UserTrees[i])
  /\ build_profile[Denied + 2] = Line(TRUE, {"read"}, Workdir)
  /\ \A i \in 1..GivenBack :
       build_profile[Denied + 2 + i] = Line(TRUE, {"read"}, ReadPaths[i])
  /\ build_profile[Denied + GivenBack + 3] = Line(TRUE, Operation \ {"read"}, Workdir)
  /\ build_profile[Denied + GivenBack + 4] = Line(TRUE, {"write"}, NullDevice)
<1> DEFINE A == <<Line(TRUE, {"read"}, Root)>>
           D == Lines(FALSE, UserTrees)
           W == <<Line(TRUE, {"read"}, Workdir)>>
           R == Lines(TRUE, ReadPaths)
           X == <<Line(TRUE, Operation \ {"read"}, Workdir), Line(TRUE, {"write"}, NullDevice)>>
           AD == A \o D
           ADW == AD \o W
           ADWR == ADW \o R
<1>1. /\ Denied \in Nat /\ GivenBack \in Nat
      /\ D \in Seq(LineSet) /\ Len(D) = Denied
      /\ R \in Seq(LineSet) /\ Len(R) = GivenBack
      /\ \A i \in 1..Denied : D[i] = Line(FALSE, {"read"}, UserTrees[i])
      /\ \A i \in 1..GivenBack : R[i] = Line(TRUE, {"read"}, ReadPaths[i])
  BY LineLists
<1>2. /\ A \in Seq(LineSet) /\ Len(A) = 1 /\ A[1] = Line(TRUE, {"read"}, Root)
      /\ W \in Seq(LineSet) /\ Len(W) = 1 /\ W[1] = Line(TRUE, {"read"}, Workdir)
      /\ X \in Seq(LineSet) /\ Len(X) = 2
      /\ X[1] = Line(TRUE, Operation \ {"read"}, Workdir)
      /\ X[2] = Line(TRUE, {"write"}, NullDevice)
  BY TreeAssumption DEF Line, LineSet, Operation
<1>3. build_profile = ADWR \o X
  <2>1. build_profile = A \o D \o W \o R \o X
    BY DEF build_profile
  <2>2. QED
    BY <2>1
<1> HIDE DEF A, D, W, R, X
<1>4. /\ AD \in Seq(LineSet) /\ Len(AD) = 1 + Denied
      /\ AD[1] = A[1] /\ \A i \in 1..Denied : AD[1 + i] = D[i]
  <2>1. /\ AD \in Seq(LineSet) /\ Len(AD) = Len(A) + Len(D)
        /\ \A i \in 1..Len(A) : AD[i] = A[i]
        /\ \A i \in 1..Len(D) : AD[Len(A) + i] = D[i]
    BY <1>1, <1>2, ConcatLines, Zenon
  <2> HIDE DEF AD
  <2>2. 1 \in 1..Len(A) /\ Len(A) + Len(D) = 1 + Denied
    BY <1>1, <1>2
  <2>3. \A i \in 1..Denied : AD[1 + i] = D[i]
    BY <1>1, <1>2, <2>1
  <2>4. QED
    BY <2>1, <2>2, <2>3
<1>5. /\ ADW \in Seq(LineSet) /\ Len(ADW) = Denied + 2
      /\ ADW[Denied + 2] = W[1] /\ \A i \in 1..(Denied + 1) : ADW[i] = AD[i]
  <2>1. /\ ADW \in Seq(LineSet) /\ Len(ADW) = Len(AD) + Len(W)
        /\ \A i \in 1..Len(AD) : ADW[i] = AD[i]
        /\ \A i \in 1..Len(W) : ADW[Len(AD) + i] = W[i]
    <3> HIDE DEF AD
    <3>1. QED
      BY <1>2, <1>4, ConcatLines, Zenon
  <2> HIDE DEF AD, ADW
  <2>2. 1 \in 1..Len(W) /\ Len(AD) + 1 = Denied + 2 /\ Len(AD) = Denied + 1
    BY <1>1, <1>2, <1>4
  <2>3. QED
    BY <1>2, <2>1, <2>2
<1>6. /\ ADWR \in Seq(LineSet) /\ Len(ADWR) = Denied + 2 + GivenBack
      /\ \A i \in 1..GivenBack : ADWR[Denied + 2 + i] = R[i]
      /\ \A i \in 1..(Denied + 2) : ADWR[i] = ADW[i]
  <2> HIDE DEF ADW
  <2>1. /\ ADWR \in Seq(LineSet) /\ Len(ADWR) = Len(ADW) + Len(R)
        /\ \A i \in 1..Len(ADW) : ADWR[i] = ADW[i]
        /\ \A i \in 1..Len(R) : ADWR[Len(ADW) + i] = R[i]
    BY <1>1, <1>5, ConcatLines, Zenon
  <2> HIDE DEF ADWR
  <2>2. QED
    BY <1>1, <1>5, <2>1
<1>7. LET P == ADWR \o X
      IN  /\ DOMAIN P = 1..(Denied + GivenBack + 4)
          /\ P[Denied + GivenBack + 3] = X[1] /\ P[Denied + GivenBack + 4] = X[2]
          /\ \A i \in 1..(Denied + GivenBack + 2) : P[i] = ADWR[i]
  <2> DEFINE P == ADWR \o X
  <2> HIDE DEF ADWR
  <2>1. /\ P \in Seq(LineSet) /\ Len(P) = Len(ADWR) + Len(X)
        /\ \A i \in 1..Len(ADWR) : P[i] = ADWR[i]
        /\ \A i \in 1..Len(X) : P[Len(ADWR) + i] = X[i]
    BY <1>2, <1>6, ConcatLines, Zenon
  <2> HIDE DEF P
  <2>2. /\ 1 \in 1..Len(X) /\ 2 \in 1..Len(X) /\ DOMAIN P = 1..Len(P)
        /\ Len(ADWR) = Denied + GivenBack + 2
        /\ Len(ADWR) + 1 = Denied + GivenBack + 3 /\ Len(ADWR) + 2 = Denied + GivenBack + 4
    BY <1>1, <1>2, <1>6, <2>1
  <2>3. /\ DOMAIN P = 1..(Denied + GivenBack + 4)
        /\ P[Denied + GivenBack + 3] = X[1] /\ P[Denied + GivenBack + 4] = X[2]
        /\ \A i \in 1..(Denied + GivenBack + 2) : P[i] = ADWR[i]
    BY <1>1, <1>2, <2>1, <2>2
  <2>4. QED
    BY <2>3 DEF P
<1> HIDE DEF AD, ADW, ADWR
<1> DEFINE P == ADWR \o X
<1> HIDE DEF P
<1>8. P[1] = A[1] /\ P[Denied + 2] = W[1]
  <2>1. /\ 1 \in 1..(Denied + GivenBack + 2) /\ Denied + 2 \in 1..(Denied + GivenBack + 2)
        /\ 1 \in 1..(Denied + 2) /\ Denied + 2 \in 1..(Denied + 2) /\ 1 \in 1..(Denied + 1)
    BY <1>1
  <2>2. P[1] = ADWR[1] /\ P[Denied + 2] = ADWR[Denied + 2]
    BY <2>1, <1>7, Zenon DEF P
  <2>3. ADWR[1] = ADW[1] /\ ADWR[Denied + 2] = ADW[Denied + 2] /\ ADW[1] = AD[1]
    BY <2>1, <1>5, <1>6, Zenon
  <2>4. QED
    BY <2>2, <2>3, <1>4, <1>5, Zenon
<1>9. \A i \in 1..Denied : P[1 + i] = D[i]
  <2>1. TAKE i \in 1..Denied
  <2>2. /\ 1 + i \in 1..(Denied + GivenBack + 2) /\ 1 + i \in 1..(Denied + 2)
        /\ 1 + i \in 1..(Denied + 1)
    BY <1>1
  <2>3. P[1 + i] = ADWR[1 + i]
    BY <2>2, <1>7, Zenon DEF P
  <2>4. ADWR[1 + i] = ADW[1 + i] /\ ADW[1 + i] = AD[1 + i]
    BY <2>2, <1>5, <1>6, Zenon
  <2>5. QED
    BY <2>3, <2>4, <1>4, Zenon
<1>10. \A i \in 1..GivenBack : P[Denied + 2 + i] = R[i]
  <2>1. TAKE i \in 1..GivenBack
  <2>2. Denied + 2 + i \in 1..(Denied + GivenBack + 2)
    BY <1>1
  <2>3. P[Denied + 2 + i] = ADWR[Denied + 2 + i]
    BY <2>2, <1>7, Zenon DEF P
  <2>4. QED
    BY <2>3, <1>6, Zenon
<1>11. build_profile = P
  BY <1>3 DEF P
<1>12. QED
  BY <1>1, <1>2, <1>7, <1>8, <1>9, <1>10, <1>11 DEF P

(* The profile confines: a change is allowed by no line but the last two,  *)
(* and a read in a user's tree meets a deny line after the first.          *)
LEMMA ProfileConfines ==
  ASSUME profile = build_profile, NEW p \in Places, NEW op \in Operation, SeatbeltAllows(op, p)
  PROVE  /\ op # "read" => Beneath(p, {Workdir} \cup Devices)
         /\ op = "read" /\ Beneath(p, Each(UserTrees)) => Beneath(p, Given)
<1>1. PICK k \in 1..(Denied + GivenBack + 4) :
        /\ Matches(profile[k], op, p) /\ profile[k].allow
        /\ \A j \in 1..(Denied + GivenBack + 4) : j > k => ~Matches(profile[j], op, p)
  BY ProfileLines DEF SeatbeltAllows
<1>2. Denied \in Nat /\ GivenBack \in Nat
  BY ProfileLines
<1>3. \/ k = 1 \/ k - 1 \in 1..Denied \/ k = Denied + 2
      \/ k - (Denied + 2) \in 1..GivenBack
      \/ k = Denied + GivenBack + 3 \/ k = Denied + GivenBack + 4
  BY <1>2
<1>4. CASE k = 1
  <2>1. op = "read"
    BY <1>1, <1>4, ProfileLines DEF Matches, Line
  <2>2. ASSUME NEW i \in 1..Denied, UserTrees[i] \in Above[p]
        PROVE  FALSE
    <3>1. 1 + i \in 1..(Denied + GivenBack + 4) /\ 1 + i > k
      BY <1>2, <1>4
    <3>2. profile[1 + i] = Line(FALSE, {"read"}, UserTrees[i])
      BY ProfileLines
    <3>. DEFINE line == profile[1 + i]
    <3>3. line.ops = {"read"} /\ line.path = UserTrees[i]
      BY <3>2 DEF Line
    <3>4. Matches(profile[1 + i], op, p)
      BY <2>1, <2>2, <3>3 DEF Matches
    <3>5. QED
      BY <1>1, <3>1, <3>4
  <2>3. ~Beneath(p, Each(UserTrees))
    BY <2>2, TreeAssumption DEF Beneath, Each, Denied
  <2>4. QED
    BY <2>1, <2>3
<1>5. CASE k - 1 \in 1..Denied
  <2>1. profile[1 + (k - 1)] = Line(FALSE, {"read"}, UserTrees[k - 1])
    BY <1>5, ProfileLines
  <2>2. 1 + (k - 1) = k
    BY <1>2
  <2>3. QED
    BY <1>1, <2>1, <2>2 DEF Line
<1>6. CASE k = Denied + 2
  BY <1>1, <1>6, ProfileLines DEF Matches, Line, Beneath, Given
<1>7. CASE k - (Denied + 2) \in 1..GivenBack
  <2>1. profile[Denied + 2 + (k - (Denied + 2))] = Line(TRUE, {"read"}, ReadPaths[k - (Denied + 2)])
    BY <1>7, ProfileLines
  <2>2. Denied + 2 + (k - (Denied + 2)) = k
    BY <1>2
  <2>3. op = "read" /\ ReadPaths[k - (Denied + 2)] \in Above[p]
    BY <1>1, <2>1, <2>2 DEF Matches, Line
  <2>4. QED
    BY <1>7, <2>3, TreeAssumption DEF Beneath, Given, Each, GivenBack
<1>8. CASE k = Denied + GivenBack + 3
  <2>1. profile[k].ops = Operation \ {"read"} /\ profile[k].path = Workdir
    BY <1>8, ProfileLines DEF Line
  <2>2. QED
    BY <1>1, <2>1 DEF Matches, Beneath
<1>9. CASE k = Denied + GivenBack + 4
  <2>1. profile[k].ops = {"write"} /\ profile[k].path = NullDevice
    BY <1>9, ProfileLines DEF Line
  <2>2. QED
    BY <1>1, <2>1, TreeAssumption DEF Matches, Beneath
<1>10. QED
  BY <1>3, <1>4, <1>5, <1>6, <1>7, <1>8, <1>9

(* The ruleset confines: every operation's right is handled, so a rule     *)
(* must allow it, and every rule is good.                                  *)
LEMMA RulesConfine ==
  ASSUME restricted, abi \in 4..7, \A rule \in rules : GoodRule(rule),
         NEW p \in Places, NEW op \in Operation, LandlockAllows(op, p)
  PROVE  /\ op # "read" => Beneath(p, {Workdir} \cup Devices)
         /\ op = "read" /\ Beneath(p, Each(UserTrees)) => Beneath(p, Given)
<1>1. RightOf[op] \in 0..14 /\ (op # "read" => RightOf[op] \in Changes)
  BY DEF RightOf, ReadFile, Operation, Changes
<1>2. PICK rule \in rules : rule.path \in Above[p] /\ RightOf[op] \in rule.access
  BY <1>1, Handled DEF LandlockAllows
<1>3. GoodRule(rule)
  OBVIOUS
<1>4. op # "read" => Beneath(p, {Workdir} \cup Devices)
  BY <1>1, <1>2, <1>3 DEF GoodRule, Beneath
<1>5. ASSUME Beneath(p, Each(UserTrees))
      PROVE  Beneath(p, Given)
  <2>1. PICK i \in DOMAIN UserTrees : UserTrees[i] \in Above[p]
    BY <1>5 DEF Beneath, Each
  <2>2. rule.path \notin SystemDirs \cup Devices
    BY <1>2, <2>1, TreeAssumption
  <2>3. QED
    BY <1>2, <1>3, <2>2 DEF GoodRule, Beneath
<1>6. QED
  BY <1>4, <1>5

(* base.py:33, landlock.py:248, seatbelt.py:109: whatever fails and        *)
(* whatever vanishes, on any tree, a process that runs has the environment *)
(* of base.py, and is confined if the helper's modules and the profile     *)
(* that carried out its start were mcpgap's own.                           *)
THEOREM RunningConfined == BoxSpec => []RunningIsConfined
<1>1. ASSUME BoxInv, at = "running", OwnStart
      PROVE  Confined
  <2>1. /\ available /\ ports = {ProxyPort} /\ \A rule \in rules : GoodRule(rule)
        /\ platform = "linux" => restricted
        /\ platform # "linux" => profile = build_profile
    BY <1>1 DEF BoxInv, EnvInv, HelperInv, Started
  <2>2. ASSUME NEW p \in Places, NEW op \in Operation, May(op, p)
        PROVE  /\ op # "read" => Beneath(p, {Workdir} \cup Devices)
               /\ op = "read" /\ Beneath(p, Each(UserTrees)) => Beneath(p, Given)
    <3>1. CASE platform = "linux"
      <4>1. abi \in 4..7
        BY <1>1, <2>1, <3>1 DEF available, BoxInv, HelperInv
      <4>2. LandlockAllows(op, p)
        BY <2>2, <3>1 DEF May
      <4>3. QED
        BY <2>1, <3>1, <4>1, <4>2, RulesConfine
    <3>2. CASE platform # "linux"
      BY <2>1, <2>2, <3>2, ProfileConfines DEF May
    <3>3. QED
      BY <3>1, <3>2
  <2>3. \A p \in Places : Beneath(p, Each(UserTrees)) /\ ~Beneath(p, Given) => ~May("read", p)
    BY <2>2 DEF Operation
  <2>4. QED
    BY <2>1, <2>2, <2>3 DEF Confined
<1>2. ASSUME BoxInv, at = "running"
      PROVE  (\A n \in OurNames : env[n] = "proxy") /\ DOMAIN env \cap Forbidden = {}
  <2>1. declared \cap Forbidden = {} /\ env = build_child_env(declared)
    BY <1>2 DEF BoxInv, EnvInv, Started
  <2>2. QED
    BY <2>1, NamesAssumption DEF build_child_env
<1>3. BoxInv => RunningIsConfined
  BY <1>1, <1>2 DEF RunningIsConfined
<1>4. QED
  BY <1>3, BoxInductive, PTL
-----------------------------------------------------------------------------
(* What it can do.  A rule serves a place that is given when it lets it be *)
(* read and, if it is the run directory, has every right there is.         *)
Serves(rule, p) ==
  /\ rule.path = p /\ ReadFile \in rule.access
  /\ p = Workdir => READ_WRITE \cap _handled_fs(abi) \subseteq rule.access

OnTheWay == {"create", "rules", "restrict"}

(* Until it runs, each given place that still exists has a rule that serves *)
(* it, in the ruleset or still to be added.                                *)
ServedInv ==
  at \in OnTheWay \/ (at \in {"exec", "running"} /\ platform = "linux" /\ ~shadowed) =>
    /\ \A p \in Given \cap exists : \E rule \in todo \cup rules : Serves(rule, p)
    /\ at \notin {"create", "rules"} => todo = {}

LEMMA GrantsServe ==
  ASSUME NEW p \in Given \cap exists
  PROVE  \E rule \in build_config : Serves(rule, p)
<1>1. CASE p = Workdir
  <2>1. Rule(p, READ_WRITE) \in Grant(Workdir, READ_WRITE)
    BY <1>1, WorkdirAssumption DEF Grant
  <2>2. Serves(Rule(p, READ_WRITE), p)
    BY DEF Serves, Rule, READ_WRITE, ReadFile
  <2>3. QED
    BY <2>1, <2>2 DEF build_config
<1>2. CASE p # Workdir
  <2>1. p \in Each(ReadPaths)
    BY <1>2 DEF Given
  <2>2. PICK rule \in Grant(p, READ_ONLY) : TRUE
    BY DEF Grant
  <2>3. Serves(rule, p)
    BY <1>2, <2>2 DEF Serves, Grant, Rule, READ_ONLY, ReadFile, DirectoryOnly
  <2>4. rule \in UNION {Grant(d, READ_ONLY) : d \in SystemDirs \cup Each(ReadPaths)}
    BY <2>1, <2>2, Zenon
  <2>5. QED
    BY <2>3, <2>4 DEF build_config
<1>3. QED
  BY <1>1, <1>2

LEMMA MaskedServes ==
  ASSUME NEW rule, NEW p, Serves(rule, p), abi \in 4..7
  PROVE  Serves(Masked(rule), p)
<1>1. ReadFile \in _handled_fs(abi)
  BY Handled DEF ReadFile
<1>2. Masked(rule).path = rule.path /\ Masked(rule).access = rule.access \cap _handled_fs(abi)
  BY DEF Masked, Rule
<1>3. QED
  BY <1>1, <1>2 DEF Serves

LEMMA ServedStep ==
  ASSUME BoxInv, ServedInv, BoxNext
  PROVE  ServedInv'
<1> USE DEF Go, world
<1>1. CASE Unavailable \/ EnvRefused \/ EnvBuilt \/ Fails
  BY <1>1 DEF Unavailable, EnvRefused, EnvBuilt, Fails, ServedInv, OnTheWay
<1>2. CASE ProfileWritten
  BY <1>2 DEF ProfileWritten, ServedInv, OnTheWay
<1>10. CASE ProfileReplaced \/ OtherModuleImported
  BY <1>10 DEF ProfileReplaced, OtherModuleImported, ServedInv, OnTheWay
<1>3. CASE HelperStarted
  <2>1. at' = "create" /\ todo' = build_config /\ exists' = exists /\ abi' = abi
    BY <1>3 DEF HelperStarted
  <2>2. ASSUME NEW p \in Given \cap exists' PROVE \E rule \in (todo \cup rules)' : Serves(rule, p)'
    BY <2>1, GrantsServe DEF Serves
  <2>3. QED
    BY <2>1, <2>2 DEF ServedInv
<1>4. CASE RulesetCreated \/ PortAdded
  BY <1>4 DEF RulesetCreated, PortAdded, ServedInv, OnTheWay, Serves
<1>5. CASE Restricted \/ Exec
  BY <1>5 DEF Restricted, Exec, ServedInv, OnTheWay, Serves
<1>6. ASSUME NEW rule \in todo, RuleAdded(rule)
      PROVE  ServedInv'
  <2>1. /\ at = "rules" /\ exists' = exists /\ abi' = abi /\ todo' = todo \ {rule}
        /\ abi \in 4..7
    BY <1>6 DEF RuleAdded, BoxInv, EnvInv, HelperInv, Started, available
  <2>2. Valid(Masked(rule))
    BY <2>1, MaskedIsValid DEF BoxInv, HelperInv
  <2>3. at' = at /\ rules' = rules \cup {Masked(rule)}
    BY <1>6, <2>2 DEF RuleAdded
  <2>4. ASSUME NEW p \in Given \cap exists' PROVE \E r \in (todo \cup rules)' : Serves(r, p)'
    <3>1. PICK r \in todo \cup rules : Serves(r, p)
      BY <2>1 DEF ServedInv, OnTheWay
    <3>2. Serves(r, p)'
      BY <2>1, <3>1 DEF Serves
    <3>3. CASE r = rule
      <4>1. PICK m : m = Masked(r)
        OBVIOUS
      <4>2. Serves(m, p)'
        BY <2>1, <3>1, <4>1, MaskedServes DEF Serves
      <4>3. m \in (todo \cup rules)'
        BY <2>3, <3>3, <4>1
      <4>4. QED
        BY <4>2, <4>3
    <3>4. CASE r # rule
      <4>1. r \in (todo \cup rules)'
        BY <2>1, <2>3, <3>1, <3>4
      <4>2. QED
        BY <3>2, <4>1
    <3>5. QED
      BY <3>3, <3>4
  <2>5. QED
    BY <2>1, <2>3, <2>4 DEF ServedInv
<1>7. ASSUME NEW rule \in todo, RuleSkipped(rule)
      PROVE  ServedInv'
  <2>1. /\ at = "rules" /\ at' = at /\ exists' = exists /\ abi' = abi /\ rules' = rules
        /\ todo' = todo \ {rule} /\ rule.path \notin exists
    BY <1>7 DEF RuleSkipped
  <2>2. ASSUME NEW p \in Given \cap exists' PROVE \E r \in (todo \cup rules)' : Serves(r, p)'
    <3>1. PICK r \in todo \cup rules : Serves(r, p)
      BY <2>1 DEF ServedInv, OnTheWay
    <3>2. r # rule /\ Serves(r, p)'
      BY <2>1, <3>1 DEF Serves
    <3>3. QED
      BY <2>1, <3>1, <3>2
  <2>3. QED
    BY <2>1, <2>2 DEF ServedInv
<1>8. ASSUME NEW p, Vanish(p)
      PROVE  ServedInv'
  BY <1>8 DEF Vanish, ServedInv, OnTheWay, Serves
<1>9. QED
  BY ONLY BoxNext, <1>1, <1>2, <1>3, <1>4, <1>5, <1>6, <1>7, <1>8, <1>10 DEF BoxNext

(* From the line that gives back the run directory on, every line allows,  *)
(* so what one of them matches is allowed.                                 *)
LEMMA LaterLinesAllow ==
  ASSUME profile = build_profile, NEW p \in Places, NEW op \in Operation,
         NEW k \in 1..(Denied + GivenBack + 4), k >= Denied + 2, Matches(profile[k], op, p)
  PROVE  SeatbeltAllows(op, p)
<1> DEFINE last == Denied + GivenBack + 4
           hits == {j \in 1..last : Matches(profile[j], op, p)}
<1>1. Denied \in Nat /\ GivenBack \in Nat /\ last \in Nat /\ DOMAIN profile = 1..last
  BY ProfileLines
<1>2. k \in hits /\ hits \in SUBSET (1..last)
  OBVIOUS
<1>3. PICK m \in hits : \A j \in hits : j <= m
  <2> HIDE DEF hits, last
  <2>1. QED
    BY <1>1, <1>2, GreatestPosition
<1>4. m \in 1..last /\ k <= m
  BY <1>2, <1>3
<1>5. profile[m].allow
  <2>1. \/ m = Denied + 2 \/ m - (Denied + 2) \in 1..GivenBack
        \/ m = Denied + GivenBack + 3 \/ m = Denied + GivenBack + 4
    BY <1>1, <1>4
  <2>2. CASE m - (Denied + 2) \in 1..GivenBack
    <3>1. profile[Denied + 2 + (m - (Denied + 2))] = Line(TRUE, {"read"}, ReadPaths[m - (Denied + 2)])
      BY <2>2, ProfileLines
    <3>2. Denied + 2 + (m - (Denied + 2)) = m
      BY <1>1, <1>4
    <3>3. QED
      BY <3>1, <3>2 DEF Line
  <2>3. QED
    BY <2>1, <2>2, ProfileLines DEF Line
<1>6. ASSUME NEW j \in DOMAIN profile, j > m PROVE ~Matches(profile[j], op, p)
  <2>1. j \in hits => j <= m
    BY <1>3
  <2>2. QED
    BY <1>1, <1>4, <1>6, <2>1
<1>7. QED
  BY <1>1, <1>3, <1>4, <1>5, <1>6 DEF SeatbeltAllows

LEMMA ProfileServes ==
  ASSUME profile = build_profile, NEW p \in Places
  PROVE  /\ \A op \in Operation : Workdir \in Above[p] => SeatbeltAllows(op, p)
         /\ \A d \in Each(ReadPaths) : d \in Above[p] => SeatbeltAllows("read", p)
<1>1. Denied \in Nat /\ GivenBack \in Nat /\ "read" \in Operation
  BY ProfileLines DEF Operation
<1>2. ASSUME NEW op \in Operation, Workdir \in Above[p]
      PROVE  SeatbeltAllows(op, p)
  <2>1. /\ Denied + 2 \in 1..(Denied + GivenBack + 4)
        /\ Denied + GivenBack + 3 \in 1..(Denied + GivenBack + 4)
        /\ Denied + 2 >= Denied + 2 /\ Denied + GivenBack + 3 >= Denied + 2
    BY <1>1
  <2>2. CASE op = "read"
    <3>1. Matches(profile[Denied + 2], op, p)
      BY <1>2, <2>2, ProfileLines DEF Matches, Line
    <3>2. QED
      BY <2>1, <3>1, LaterLinesAllow
  <2>3. CASE op # "read"
    <3>1. Matches(profile[Denied + GivenBack + 3], op, p)
      BY <1>2, <2>3, ProfileLines DEF Matches, Line
    <3>2. QED
      BY <2>1, <3>1, LaterLinesAllow
  <2>4. QED
    BY <2>2, <2>3
<1>3. ASSUME NEW d \in Each(ReadPaths), d \in Above[p]
      PROVE  SeatbeltAllows("read", p)
  <2>1. PICK i \in 1..GivenBack : d = ReadPaths[i]
    BY TreeAssumption DEF Each, GivenBack
  <2>2. Denied + 2 + i \in 1..(Denied + GivenBack + 4) /\ Denied + 2 + i >= Denied + 2
    BY <1>1
  <2>3. Matches(profile[Denied + 2 + i], "read", p)
    <3>1. profile[Denied + 2 + i] = Line(TRUE, {"read"}, d)
      BY <2>1, ProfileLines
    <3>2. QED
      BY <1>3, <3>1 DEF Matches, Line
  <2>4. QED
    BY <1>1, <2>2, <2>3, LaterLinesAllow
<1>4. QED
  BY <1>2, <1>3

(* The ruleset: what a kernel does not handle it allows, the rest is in    *)
(* the rule that serves the place.                                         *)
LEMMA RulesServe ==
  ASSUME abi \in 4..7, NEW d \in Given, NEW rule \in rules, Serves(rule, d),
         NEW p \in Places, d \in Above[p], NEW op \in Operation,
         d = Workdir \/ op = "read"
  PROVE  LandlockAllows(op, p)
<1>1. RightOf[op] \in 0..14 /\ (op = "read" => RightOf[op] = ReadFile)
  BY DEF RightOf, ReadFile, Operation
<1>2. RightOf[op] \in rule.access
  BY <1>1, Handled DEF Serves, READ_WRITE
<1>3. QED
  BY <1>2 DEF LandlockAllows, Serves

(* landlock.py:230, seatbelt.py:97: wherever its directories lie, whatever *)
(* vanished and whatever the kernel, a process that runs can read and      *)
(* change the run directory and read what it was given, if its start was   *)
(* mcpgap's own.                                                           *)
THEOREM RunningIsAble == BoxSpec => []RunningCanWork
<1>1. BoxInit => ServedInv
  BY DEF BoxInit, ServedInv, OnTheWay
<1>2. BoxInv /\ ServedInv /\ [BoxNext]_boxVars => ServedInv'
  <2>1. ASSUME BoxInv, ServedInv, BoxNext PROVE ServedInv'
    BY <2>1, ServedStep
  <2>2. ASSUME ServedInv, UNCHANGED boxVars PROVE ServedInv'
    BY <2>2 DEF boxVars, world, ServedInv, Serves
  <2>3. QED
    BY <2>1, <2>2
<1>3. ASSUME BoxInv, ServedInv, at = "running", OwnStart,
             NEW p \in Places, NEW op \in Operation, NEW d \in Given, d \in Above[p],
             d \in exists \/ platform # "linux", d = Workdir \/ op = "read"
      PROVE  May(op, p)
  <2>1. CASE platform = "linux"
    <3>1. abi \in 4..7
      BY <1>3, <2>1 DEF BoxInv, EnvInv, HelperInv, Started, available
    <3>2. PICK rule \in rules : Serves(rule, d)
      BY <1>3, <2>1 DEF ServedInv, OwnStart
    <3>3. QED
      BY <1>3, <2>1, <3>1, <3>2, RulesServe DEF May
  <2>2. CASE platform # "linux"
    <3>1. profile = build_profile
      BY <1>3, <2>2 DEF BoxInv, HelperInv
    <3>2. d = Workdir \/ (d \in Each(ReadPaths) /\ op = "read")
      BY <1>3 DEF Given
    <3>3. SeatbeltAllows(op, p)
      BY <1>3, <3>1, <3>2, ProfileServes
    <3>4. QED
      BY <2>2, <3>3 DEF May
  <2>3. QED
    BY <2>1, <2>2
<1>4. ASSUME BoxInv, ServedInv, at = "running", OwnStart
      PROVE  RunningCanWork
  <2>1. ASSUME Workdir \in exists, NEW p \in Places, NEW op \in Operation, Beneath(p, {Workdir})
        PROVE  May(op, p)
    <3>1. Workdir \in Given /\ Workdir \in Above[p]
      BY <2>1 DEF Given, Beneath
    <3>2. QED
      BY <1>3, <1>4, <2>1, <3>1
  <2>2. ASSUME NEW d \in Each(ReadPaths) \cap exists, NEW p \in Places, d \in Above[p]
        PROVE  May("read", p)
    <3>1. d \in Given /\ "read" \in Operation
      BY DEF Given, Operation
    <3>2. QED
      BY <1>3, <1>4, <2>2, <3>1
  <2>3. QED
    BY <2>1, <2>2 DEF RunningCanWork
<1>5. BoxInv /\ ServedInv => RunningCanWork
  BY <1>4 DEF RunningCanWork
<1>6. QED
  BY <1>1, <1>2, <1>5, BoxInductive, PTL DEF BoxSpec

-----------------------------------------------------------------------------
(* Probes: what words and leaves are, for any names, letters and keys.     *)
Literals == {"example", ".", "invalid", "@", "/", "https:", "probe", "outbound"}
TokenType == [kind : {"token"}, of : Names \X Paths]
WordType == TokenType \cup [kind : {"word"}, of : Literals]
LeafType == [place : Seq(Paths), words : Seq(WordType)]

(* How deep what is asked for nests.                                       *)
Deep(a) == Depth[a.schema]

(* value_for calls itself for schemas that nest less deep only.            *)
LEMMA DepthInduction ==
  ASSUME NEW T \in SUBSET Asked,
         \A a \in Asked : (\A b \in Asked : Deep(b) < Deep(a) => b \in T) => a \in T
  PROVE  T = Asked
<1> SUFFICES ASSUME Asked \ T # {} PROVE FALSE
  OBVIOUS
<1>1. \A a \in Asked : Deep(a) \in Nat
  BY SchemasAssumption DEF Deep, Asked
<1> DEFINE depths == {Deep(a) : a \in Asked \ T}
<1>2. PICK m \in depths : \A k \in depths : m <= k
  <2>1. depths \in SUBSET Nat /\ depths # {}
    BY <1>1
  <2> HIDE DEF depths
  <2> QED BY <2>1, LeastNatural
<1>3. PICK a \in Asked \ T : m = Deep(a)
  BY <1>2
<1>4. ASSUME NEW b \in Asked, Deep(b) < Deep(a), b \notin T PROVE FALSE
  <2>1. Deep(b) \in depths
    BY <1>4
  <2>2. Deep(a) <= Deep(b)
    BY <1>2, <1>3, <2>1
  <2> QED BY <1>1, <1>3, <1>4, <2>2
<1> QED BY <1>3, <1>4

-----------------------------------------------------------------------------
(* Which branch of value_for a schema takes.                               *)
Fixed(s) == s.enum # <<>> \/ Declared(s) \in {"integer", "number", "boolean"}
Lists(s) == s.enum = <<>> /\ Declared(s) = "array"
Nests(s) == s.enum = <<>> /\ Declared(s) = "object"

Told(a) == _string_for(a.name, a.path, IF a.key = <<>> THEN a.path ELSE a.key, a.schema)

LEMMA MakesFacts ==
  ASSUME NEW value, NEW a
  PROVE  /\ Fixed(a.schema) => Makes(value, a) = {Leaf(<<>>)}
         /\ Lists(a.schema) => Makes(value, a) = Within(Element, value[ElementOf(a)])
         /\ Nests(a.schema) => Makes(value, a) =
              UNION {Within(k, value[MemberOf(a, k)]) : k \in DOMAIN Properties(a.schema)}
         /\ ~Fixed(a.schema) /\ ~Lists(a.schema) /\ ~Nests(a.schema) =>
              Makes(value, a) = {Leaf(Told(a))}
<1>1. CASE Fixed(a.schema)
  <2>1. ~Lists(a.schema) /\ ~Nests(a.schema)
    BY <1>1 DEF Fixed, Lists, Nests
  <2> QED BY <1>1, <2>1 DEF Makes, Fixed
<1>2. CASE Lists(a.schema)
  <2>1. ~Fixed(a.schema) /\ ~Nests(a.schema)
    BY <1>2 DEF Fixed, Lists, Nests
  <2> QED BY <1>2, <2>1 DEF Makes, Fixed, Lists, Nests
<1>3. CASE Nests(a.schema)
  <2>1. ~Fixed(a.schema) /\ ~Lists(a.schema)
    BY <1>3 DEF Fixed, Lists, Nests
  <2> QED BY <1>3, <2>1 DEF Makes, Fixed, Lists, Nests
<1>4. CASE ~Fixed(a.schema) /\ ~Lists(a.schema) /\ ~Nests(a.schema)
  BY <1>4 DEF Makes, Fixed, Lists, Nests, Told
<1> QED BY <1>1, <1>2, <1>3, <1>4

LEMMA BelowFacts ==
  ASSUME NEW path \in Paths, NEW k \in Paths
  PROVE  /\ Below(path, k) \in Paths /\ Len(Below(path, k)) = Len(path) + 1 + Len(k)
         /\ \A i \in 1..Len(path) : Below(path, k)[i] = path[i]
         /\ \A i \in 1..Len(k) : Below(path, k)[Len(path) + 1 + i] = k[i]
         /\ Len(path) \in Nat /\ Len(k) \in Nat
<1>1. /\ <<".">> \in Seq(Letters) /\ Len(<<".">>) = 1
      /\ path \in Seq(Letters) /\ k \in Seq(Letters)
  BY TextAssumption DEF Paths
<1>2. Len(path) \in Nat /\ Len(k) \in Nat
  BY <1>1, LenProperties
<1>3. PICK dot : dot = <<".">>
  OBVIOUS
<1>4. PICK left : left = path \o dot
  OBVIOUS
<1>5. /\ left \in Seq(Letters) /\ Len(left) = Len(path) + 1
      /\ \A i \in 1..Len(path) : left[i] = path[i]
  <2>1. dot \in Seq(Letters) /\ Len(dot) = 1
    BY <1>1, <1>3
  <2>2. /\ path \o dot \in Seq(Letters) /\ Len(path \o dot) = Len(path) + Len(dot)
        /\ \A i \in 1..Len(path) + Len(dot) : (path \o dot)[i] =
             IF i <= Len(path) THEN path[i] ELSE dot[i - Len(path)]
    BY <1>1, <2>1, ConcatProperties
  <2> QED BY <1>2, <1>4, <2>1, <2>2
<1>6. PICK s : s = left \o k
  OBVIOUS
<1>7. /\ s \in Seq(Letters) /\ Len(s) = Len(left) + Len(k)
      /\ \A i \in 1..Len(left) + Len(k) : s[i] =
           IF i <= Len(left) THEN left[i] ELSE k[i - Len(left)]
  <2>1. /\ left \o k \in Seq(Letters) /\ Len(left \o k) = Len(left) + Len(k)
        /\ \A i \in 1..Len(left) + Len(k) : (left \o k)[i] =
             IF i <= Len(left) THEN left[i] ELSE k[i - Len(left)]
    BY <1>1, <1>5, ConcatProperties
  <2> QED BY <1>6, <2>1
<1>8. Below(path, k) = s
  BY <1>3, <1>4, <1>6 DEF Below
<1>9. ASSUME NEW i \in 1..Len(path) PROVE s[i] = path[i]
  <2>1. i \in 1..Len(left) + Len(k) /\ i <= Len(left)
    BY <1>2, <1>5
  <2> QED BY <1>5, <1>7, <2>1
<1>10. ASSUME NEW i \in 1..Len(k) PROVE s[Len(path) + 1 + i] = k[i]
  <2>1. /\ Len(path) + 1 + i \in 1..Len(left) + Len(k) /\ ~(Len(path) + 1 + i <= Len(left))
        /\ (Len(path) + 1 + i) - Len(left) = i
    BY <1>2, <1>5
  <2> QED BY <1>7, <2>1
<1> QED BY <1>2, <1>5, <1>7, <1>8, <1>9, <1>10 DEF Paths

LEMMA ElementFacts ==
  ASSUME NEW path \in Paths
  PROVE  /\ path \o Element \in Paths /\ Len(path \o Element) = Len(path) + 1
         /\ \A i \in 1..Len(path) : (path \o Element)[i] = path[i]
         /\ Element \in Paths /\ Len(path) \in Nat
<1>1. Element \in Paths /\ Len(Element) = 1 /\ Len(path) \in Nat
  BY TextAssumption, LenProperties DEF Paths, Element
<1>2. /\ path \o Element \in Paths /\ Len(path \o Element) = Len(path) + Len(Element)
      /\ \A i \in 1..(Len(path) + Len(Element)) :
           (path \o Element)[i] = IF i <= Len(path) THEN path[i] ELSE Element[i - Len(path)]
  BY <1>1, ConcatProperties DEF Paths
<1> QED BY <1>1, <1>2

(* The calls value_for makes for its parts.                                *)
LEMMA PartsFacts ==
  ASSUME NEW a \in Asked
  PROVE  /\ Lists(a.schema) =>
              /\ ElementOf(a) \in Asked /\ Deep(ElementOf(a)) < Deep(a)
              /\ ElementOf(a).name = a.name /\ ElementOf(a).path = a.path \o Element
         /\ \A k \in DOMAIN Properties(a.schema) :
              /\ k \in Paths /\ MemberOf(a, k) \in Asked /\ Deep(MemberOf(a, k)) < Deep(a)
              /\ MemberOf(a, k).name = a.name /\ MemberOf(a, k).path = Below(a.path, k)
<1>1. a.name \in Names /\ a.path \in Paths /\ a.key \in Keys /\ a.schema \in Schemas
  BY DEF Asked
<1>2. ASSUME Lists(a.schema)
      PROVE  /\ ElementOf(a) \in Asked /\ Deep(ElementOf(a)) < Deep(a)
             /\ ElementOf(a).name = a.name /\ ElementOf(a).path = a.path \o Element
  <2>1. Items(a.schema) \in Schemas /\ Depth[Items(a.schema)] < Depth[a.schema]
    BY <1>1, <1>2, SchemasAssumption DEF Lists
  <2>2. a.path \o Element \in Paths
    BY <1>1, ElementFacts
  <2> QED BY <1>1, <2>1, <2>2 DEF Asked, Deep, ElementOf
<1>3. ASSUME NEW k \in DOMAIN Properties(a.schema)
      PROVE  /\ k \in Paths /\ MemberOf(a, k) \in Asked /\ Deep(MemberOf(a, k)) < Deep(a)
             /\ MemberOf(a, k).name = a.name /\ MemberOf(a, k).path = Below(a.path, k)
  <2>1. /\ k \in Keys /\ Properties(a.schema)[k] \in Schemas
        /\ Depth[Properties(a.schema)[k]] < Depth[a.schema]
    BY <1>1, SchemasAssumption
  <2>2. k \in Paths /\ Below(a.path, k) \in Paths
    BY <1>1, <2>1, TextAssumption, BelowFacts
  <2> QED BY <1>1, <2>1, <2>2 DEF Asked, Deep, MemberOf
<1> QED BY <1>2, <1>3
-----------------------------------------------------------------------------
(* A text from which diff.py recovers a token: some word is a token with   *)
(* a separator, or the end, on either side.                                *)
Alone(words, i) ==
  /\ i \in 1..Len(words) /\ IsToken(words[i]) /\ words[i] \notin Separators
  /\ i = 1 \/ words[i - 1] \in Separators
  /\ i = Len(words) \/ words[i + 1] \in Separators
Recoverable(words) == \E i \in 1..Len(words) : Alone(words, i)
OnlyToken(words, token) == \A i \in 1..Len(words) : IsToken(words[i]) => words[i] = token

LEMMA WordFacts ==
  /\ \A text : ~IsToken(Word(text))
  /\ \A name, path : IsToken(Token(name, path)) /\ Token(name, path) \notin Separators
  /\ \A name \in Names, path \in Paths : Token(name, path) \in WordType
  /\ \A text \in Literals : Word(text) \in WordType
BY DEF IsToken, Word, Token, Separators, WordType, TokenType

LEMMA AddressFacts ==
  ASSUME NEW token, IsToken(token), token \notin Separators,
         NEW words, words = <<token, Word("@"), Word("example"), Word("."), Word("invalid")>>
  PROVE  Recoverable(words) /\ OnlyToken(words, token) /\ words # <<>>
<1>1. /\ Len(words) = 5 /\ words[1] = token /\ words[2] = Word("@") /\ words[3] = Word("example")
      /\ words[4] = Word(".") /\ words[5] = Word("invalid")
  OBVIOUS
<1>2. Word("@") \in Separators
  BY DEF Separators
<1>3. Alone(words, 1)
  BY <1>1, <1>2 DEF Alone
<1>4. OnlyToken(words, token)
  <2>1. \A i \in 1..5 : i = 1 \/ i = 2 \/ i = 3 \/ i = 4 \/ i = 5
    OBVIOUS
  <2> QED BY <1>1, <2>1, WordFacts DEF OnlyToken
<1> QED BY <1>1, <1>3, <1>4 DEF Recoverable

LEMMA LinkFacts ==
  ASSUME NEW token, IsToken(token), token \notin Separators,
         NEW words,
         words = <<Word("https:"), Word("/"), Word("/"), token, Word("."), Word("example"),
                   Word("."), Word("invalid"), Word("/"), Word("probe")>>
  PROVE  Recoverable(words) /\ OnlyToken(words, token) /\ words # <<>>
<1>1. /\ Len(words) = 10 /\ words[1] = Word("https:") /\ words[2] = Word("/")
      /\ words[3] = Word("/") /\ words[4] = token /\ words[5] = Word(".")
      /\ words[6] = Word("example") /\ words[7] = Word(".") /\ words[8] = Word("invalid")
      /\ words[9] = Word("/") /\ words[10] = Word("probe")
  OBVIOUS
<1>2. Word("/") \in Separators /\ Word(".") \in Separators
  BY DEF Separators
<1>3. Alone(words, 4)
  BY <1>1, <1>2 DEF Alone
<1>4. OnlyToken(words, token)
  <2>1. \A i \in 1..10 : \/ i = 1 \/ i = 2 \/ i = 3 \/ i = 4 \/ i = 5
                        \/ i = 6 \/ i = 7 \/ i = 8 \/ i = 9 \/ i = 10
    OBVIOUS
  <2> QED BY <1>1, <2>1, WordFacts DEF OnlyToken
<1> QED BY <1>1, <1>3, <1>4 DEF Recoverable

LEMMA TokenFacts ==
  ASSUME NEW token, IsToken(token), token \notin Separators, NEW words, words = <<token>>
  PROVE  Recoverable(words) /\ OnlyToken(words, token) /\ words # <<>>
<1>1. Len(words) = 1 /\ words[1] = token
  OBVIOUS
<1> QED BY <1>1 DEF Alone, Recoverable, OnlyToken

(* A string says whose argument it is.                                     *)
LEMMA StringFacts ==
  ASSUME NEW name \in Names, NEW path \in Paths, NEW key, NEW schema
  PROVE  LET words == _string_for(name, path, key, schema) IN
         /\ words \in Seq(WordType) /\ words # <<>>
         /\ Recoverable(words) /\ OnlyToken(words, Token(name, path))
<1>1. PICK words : words = _string_for(name, path, key, schema)
  OBVIOUS
<1>2. PICK token : token = Token(name, path)
  OBVIOUS
<1>3. IsToken(token) /\ token \notin Separators /\ token \in WordType
  BY <1>2, WordFacts
<1>4. /\ Word("@") \in WordType /\ Word(".") \in WordType /\ Word("/") \in WordType
      /\ Word("https:") \in WordType /\ Word("example") \in WordType
      /\ Word("invalid") \in WordType /\ Word("probe") \in WordType
  BY WordFacts DEF Literals
<1>5. CASE schema.format = "email" \/ key \in EmailNames
  <2>1. words = <<token, Word("@"), Word("example"), Word("."), Word("invalid")>>
    BY <1>1, <1>2, <1>5 DEF _string_for
  <2>2. words \in Seq(WordType)
    BY <1>3, <1>4, <2>1
  <2> QED BY <1>1, <1>2, <1>3, <2>1, <2>2, AddressFacts
<1>6. CASE ~(schema.format = "email" \/ key \in EmailNames)
           /\ (schema.format = "uri" \/ key \in UrlNames)
  <2>1. words = <<Word("https:"), Word("/"), Word("/"), token, Word("."), Word("example"),
                  Word("."), Word("invalid"), Word("/"), Word("probe")>>
    BY <1>1, <1>2, <1>6 DEF _string_for
  <2>2. words \in Seq(WordType)
    BY <1>3, <1>4, <2>1
  <2> QED BY <1>1, <1>2, <1>3, <2>1, <2>2, LinkFacts
<1>7. CASE ~(schema.format = "email" \/ key \in EmailNames)
           /\ ~(schema.format = "uri" \/ key \in UrlNames)
  <2>1. words = <<token>>
    BY <1>1, <1>2, <1>7 DEF _string_for
  <2>2. words \in Seq(WordType)
    BY <1>3, <2>1
  <2> QED BY <1>1, <1>2, <1>3, <2>1, <2>2, TokenFacts
<1> QED BY <1>5, <1>6, <1>7
-----------------------------------------------------------------------------
LEMMA UnderFacts ==
  ASSUME NEW key \in Paths, NEW leaf \in LeafType
  PROVE  /\ Under(key, leaf) \in LeafType /\ Under(key, leaf).words = leaf.words
         /\ SimplePlace(Under(key, leaf).place) => SimplePlace(leaf.place) /\ Len(key) = 1
<1>1. leaf.place \in Seq(Paths) /\ leaf.words \in Seq(WordType)
  BY DEF LeafType
<1>2. <<key>> \in Seq(Paths) /\ Len(<<key>>) = 1 /\ <<key>>[1] = key
  OBVIOUS
<1>3. PICK head : head = <<key>>
  OBVIOUS
<1>4. PICK place : place = head \o leaf.place
  OBVIOUS
<1>5. head \in Seq(Paths) /\ Len(head) = 1 /\ head[1] = key
  BY <1>2, <1>3
<1>6. /\ place \in Seq(Paths) /\ Len(place) = Len(head) + Len(leaf.place)
      /\ \A i \in 1..Len(head) + Len(leaf.place) : place[i] =
           IF i <= Len(head) THEN head[i] ELSE leaf.place[i - Len(head)]
  <2>1. /\ head \o leaf.place \in Seq(Paths)
        /\ Len(head \o leaf.place) = Len(head) + Len(leaf.place)
        /\ \A i \in 1..Len(head) + Len(leaf.place) : (head \o leaf.place)[i] =
             IF i <= Len(head) THEN head[i] ELSE leaf.place[i - Len(head)]
    BY <1>1, <1>5, ConcatProperties
  <2> QED BY <1>4, <2>1
<1>7. Len(leaf.place) \in Nat /\ DOMAIN leaf.place = 1..Len(leaf.place)
      /\ DOMAIN place = 1..Len(place)
  BY <1>1, <1>6, LenProperties
<1>8. place[1] = key
  <2>1. 1 \in 1..Len(head) + Len(leaf.place) /\ 1 <= Len(head)
    BY <1>5, <1>7
  <2> QED BY <1>5, <1>6, <2>1
<1>9. ASSUME NEW i \in 1..Len(leaf.place)
      PROVE  place[i + 1] = leaf.place[i] /\ i + 1 \in 1..Len(place)
  <2>1. /\ i + 1 \in 1..Len(head) + Len(leaf.place) /\ ~(i + 1 <= Len(head))
        /\ (i + 1) - Len(head) = i
    BY <1>5, <1>7
  <2> QED BY <1>6, <2>1
<1>10. SimplePlace(place) => SimplePlace(leaf.place) /\ Len(key) = 1
  <2>1. 1 \in 1..Len(place)
    BY <1>5, <1>6, <1>7
  <2> QED BY <1>7, <1>8, <1>9, <2>1 DEF SimplePlace
<1>11. Under(key, leaf) = [place |-> place, words |-> leaf.words]
  BY <1>3, <1>4 DEF Under
<1>12. Under(key, leaf).place = place
  BY <1>11
<1> QED BY <1>1, <1>6, <1>10, <1>11, <1>12 DEF LeafType

LEMMA WithinFacts ==
  ASSUME NEW key \in Paths, NEW leaves \in SUBSET LeafType
  PROVE  Within(key, leaves) \in SUBSET LeafType
BY UnderFacts DEF Within

LEMMA LeafFacts ==
  ASSUME NEW words \in Seq(WordType)
  PROVE  Leaf(words) \in LeafType /\ Leaf(words).words = words
BY DEF Leaf, LeafType

(* The parts of a value are made before the value, and nothing else is.    *)
Parts(a) ==
  IF Lists(a.schema) THEN {ElementOf(a)}
  ELSE {MemberOf(a, k) : k \in DOMAIN Properties(a.schema)}

LEMMA PartsAreLess ==
  ASSUME NEW a \in Asked, NEW b \in Parts(a)
  PROVE  b \in Asked /\ Deep(b) < Deep(a)
BY PartsFacts DEF Parts

LEMMA MakesTyped ==
  ASSUME NEW a \in Asked, NEW value, \A b \in Parts(a) : value[b] \in SUBSET LeafType
  PROVE  Makes(value, a) \in SUBSET LeafType
<1>1. CASE Fixed(a.schema)
  <2>1. Leaf(<<>>) \in LeafType
    BY LeafFacts, EmptySeq
  <2>2. Makes(value, a) = {Leaf(<<>>)}
    BY <1>1, MakesFacts
  <2> QED BY <2>1, <2>2
<1>2. CASE Lists(a.schema)
  <2>1. ElementOf(a) \in Parts(a)
    BY <1>2 DEF Parts
  <2>2. Element \in Paths
    BY ElementFacts, TextAssumption DEF Asked
  <2> QED BY <1>2, <2>1, <2>2, WithinFacts, MakesFacts
<1>3. CASE Nests(a.schema)
  <2>1. ~Lists(a.schema)
    BY <1>3 DEF Lists, Nests
  <2>2. ASSUME NEW k \in DOMAIN Properties(a.schema)
        PROVE  Within(k, value[MemberOf(a, k)]) \in SUBSET LeafType
    <3>1. MemberOf(a, k) \in Parts(a)
      BY <2>1 DEF Parts
    <3> QED BY <3>1, PartsFacts, WithinFacts
  <2> QED BY <1>3, <2>2, MakesFacts
<1>4. CASE ~Fixed(a.schema) /\ ~Lists(a.schema) /\ ~Nests(a.schema)
  <2>1. a.name \in Names /\ a.path \in Paths
    BY DEF Asked
  <2>2. Told(a) \in Seq(WordType)
    BY <2>1, StringFacts DEF Told
  <2> QED BY <1>4, <2>2, LeafFacts, MakesFacts
<1> QED BY <1>1, <1>2, <1>3, <1>4

LEMMA MakesAgree ==
  ASSUME NEW a \in Asked, NEW f, NEW g, \A b \in Parts(a) : f[b] = g[b]
  PROVE  Makes(f, a) = Makes(g, a)
<1>1. CASE Fixed(a.schema)
  BY <1>1, MakesFacts
<1>2. CASE Lists(a.schema)
  <2>1. ElementOf(a) \in Parts(a)
    BY <1>2 DEF Parts
  <2>2. f[ElementOf(a)] = g[ElementOf(a)]
    BY <2>1
  <2> QED BY <1>2, <2>2, MakesFacts
<1>3. CASE Nests(a.schema)
  <2>1. ~Lists(a.schema)
    BY <1>3 DEF Lists, Nests
  <2>2. \A k \in DOMAIN Properties(a.schema) : f[MemberOf(a, k)] = g[MemberOf(a, k)]
    BY <2>1 DEF Parts
  <2>3. UNION {Within(k, f[MemberOf(a, k)]) : k \in DOMAIN Properties(a.schema)} =
        UNION {Within(k, g[MemberOf(a, k)]) : k \in DOMAIN Properties(a.schema)}
    BY <2>2
  <2> QED BY <1>3, <2>3, MakesFacts
<1>4. CASE ~Fixed(a.schema) /\ ~Lists(a.schema) /\ ~Nests(a.schema)
  BY <1>4, MakesFacts
<1> QED BY <1>1, <1>2, <1>3, <1>4
(* The recursion of value_for ends: what is asked for n deep is settled    *)
(* after n + 1 turns that each make every value from those of the turn     *)
(* before, so there is a function that is what value_for says it is.       *)
Values == [Asked -> SUBSET LeafType]
Turn == [g \in Values |-> [n \in 1..(MaxDepth + 1) |-> [a \in Asked |-> Makes(g, a)]]]

LEMMA DeepType ==
  ASSUME NEW a \in Asked
  PROVE  Deep(a) \in 0..MaxDepth /\ Deep(a) \in Nat /\ MaxDepth \in Nat
<1>1. a.schema \in Schemas
  BY DEF Asked
<1>2. MaxDepth \in Nat /\ Depth \in [Schemas -> 0..MaxDepth]
  BY SchemasAssumption
<1> QED BY <1>1, <1>2 DEF Deep

LEMMA MakesValues ==
  ASSUME NEW g \in Values
  PROVE  [a \in Asked |-> Makes(g, a)] \in Values
<1>1. ASSUME NEW a \in Asked PROVE Makes(g, a) \in SUBSET LeafType
  <2>1. ASSUME NEW b \in Parts(a) PROVE g[b] \in SUBSET LeafType
    BY PartsAreLess DEF Values
  <2> QED BY <2>1, MakesTyped
<1> QED BY <1>1 DEF Values

LEMMA TurnsAreMade ==
  \E h : IsRunOf(h, MaxDepth + 1, Values, [a \in Asked |-> {}], Turn)
<1>1. [a \in Asked |-> {}] \in Values
  BY DEF Values
<1>2. \A g \in Values : [a \in Asked |-> Makes(g, a)] \in Values
  BY MakesValues
<1>3. \A g \in Values :
        [n \in 1..(MaxDepth + 1) |-> [a \in Asked |-> Makes(g, a)]]
          \in [1..(MaxDepth + 1) -> Values]
  BY <1>2
<1>4. Turn \in [Values -> [1..(MaxDepth + 1) -> Values]]
  BY <1>3 DEF Turn
<1>5. MaxDepth + 1 \in Nat
  BY SchemasAssumption
<1>6. IsLoop(MaxDepth + 1, Values, [a \in Asked |-> {}], Turn)
  BY <1>1, <1>4, <1>5 DEF IsLoop
<1> QED BY <1>6, LoopRuns

(* A value is made in the turn after its parts and the same ever after.    *)
Settled(h, n) ==
  \A a \in Asked : Deep(a) < n => \A m \in n..(MaxDepth + 1) : h[m][a] = h[n][a]

LEMMA TurnsSettle ==
  ASSUME NEW h, IsRunOf(h, MaxDepth + 1, Values, [a \in Asked |-> {}], Turn),
         NEW n \in 0..(MaxDepth + 1)
  PROVE  Settled(h, n)
<1>0. MaxDepth \in Nat /\ MaxDepth + 1 \in Nat
  BY SchemasAssumption
<1>1. ASSUME NEW m \in 1..(MaxDepth + 1), NEW a \in Asked
      PROVE  h[m][a] = Makes(h[m - 1], a)
  <2>1. h[m] = Turn[h[m - 1]][m] /\ h \in [0..(MaxDepth + 1) -> Values]
    BY DEF IsRunOf
  <2>2. m - 1 \in 0..(MaxDepth + 1)
    BY <1>0
  <2>3. h[m - 1] \in Values
    BY <2>1, <2>2
  <2>4. Turn[h[m - 1]][m] = [b \in Asked |-> Makes(h[m - 1], b)]
    BY <2>3 DEF Turn
  <2> QED BY <2>1, <2>4
<1> DEFINE S == {k \in 0..(MaxDepth + 1) : Settled(h, k)}
<1>2. 0 \in S
  <2>1. \A a \in Asked : ~(Deep(a) < 0)
    BY DeepType
  <2> QED BY <1>0, <2>1 DEF Settled
<1>3. ASSUME NEW k \in S, k < MaxDepth + 1 PROVE k + 1 \in S
  <2>0. k \in Nat /\ k + 1 \in 1..(MaxDepth + 1) /\ (k + 1) - 1 = k
    BY <1>0, <1>3
  <2>1. ASSUME NEW a \in Asked, Deep(a) < k + 1, NEW m \in (k + 1)..(MaxDepth + 1)
        PROVE  h[m][a] = h[k + 1][a]
    <3>1. m \in 1..(MaxDepth + 1) /\ m - 1 \in k..(MaxDepth + 1)
      BY <1>0, <2>0
    <3>2. h[m][a] = Makes(h[m - 1], a) /\ h[k + 1][a] = Makes(h[k], a)
      <4>1. h[k + 1][a] = Makes(h[(k + 1) - 1], a)
        BY <1>1, <2>0
      <4> QED BY <1>1, <2>0, <3>1, <4>1
    <3>3. ASSUME NEW b \in Parts(a) PROVE h[m - 1][b] = h[k][b]
      <4>1. b \in Asked /\ Deep(b) < Deep(a)
        BY PartsAreLess
      <4>2. Deep(b) < k
        BY <2>0, <2>1, <4>1, DeepType
      <4> QED BY <3>1, <4>1, <4>2 DEF Settled
    <3>4. Makes(h[m - 1], a) = Makes(h[k], a)
      BY <3>3, MakesAgree
    <3> QED BY <3>2, <3>4
  <2>2. Settled(h, k + 1)
    BY <2>1 DEF Settled
  <2>3. k + 1 \in 0..(MaxDepth + 1)
    BY <1>0, <2>0
  <2> QED BY <2>2, <2>3
<1>4. S = 0..(MaxDepth + 1)
  <2>1. S \in SUBSET (0..(MaxDepth + 1))
    OBVIOUS
  <2> HIDE DEF S
  <2> QED BY <1>0, <1>2, <1>3, <2>1, FromZeroInduction
<1>5. n \in S
  <2> HIDE DEF S
  <2> QED BY <1>4
<1> QED BY <1>5

IsValueFor(f) == f = [a \in Asked |-> Makes(f, a)]

LEMMA ValuesExist ==
  \E f : IsValueFor(f)
<1>0. MaxDepth \in Nat /\ MaxDepth + 1 \in Nat
  BY SchemasAssumption
<1>1. PICK h : IsRunOf(h, MaxDepth + 1, Values, [a \in Asked |-> {}], Turn)
  BY TurnsAreMade
<1>2. PICK last : last = h[MaxDepth + 1]
  OBVIOUS
<1>3. PICK before : before = h[MaxDepth]
  OBVIOUS
<1>4. last = [a \in Asked |-> Makes(before, a)] /\ last \in Values
  <2>1. /\ h \in [0..(MaxDepth + 1) -> Values]
        /\ h[MaxDepth + 1] = Turn[h[(MaxDepth + 1) - 1]][MaxDepth + 1]
    <3>1. MaxDepth + 1 \in 1..(MaxDepth + 1)
      BY <1>0
    <3> QED BY <1>1, <3>1 DEF IsRunOf
  <2>2. (MaxDepth + 1) - 1 = MaxDepth /\ MaxDepth + 1 \in 1..(MaxDepth + 1)
    BY <1>0
  <2>3. MaxDepth \in 0..(MaxDepth + 1) /\ MaxDepth + 1 \in 0..(MaxDepth + 1)
    BY <1>0
  <2>4. before \in Values /\ last \in Values
    BY <1>2, <1>3, <2>1, <2>3
  <2>5. last = Turn[before][MaxDepth + 1]
    BY <1>2, <1>3, <2>1, <2>2
  <2> QED BY <2>2, <2>4, <2>5 DEF Turn
<1>5. ASSUME NEW a \in Asked PROVE Makes(before, a) = Makes(last, a)
  <2>1. ASSUME NEW b \in Parts(a) PROVE before[b] = last[b]
    <3>1. b \in Asked /\ Deep(b) < MaxDepth
      BY PartsAreLess, DeepType
    <3>2. MaxDepth \in 0..(MaxDepth + 1) /\ MaxDepth + 1 \in MaxDepth..(MaxDepth + 1)
      BY <1>0
    <3>3. Settled(h, MaxDepth)
      BY <1>1, <3>2, TurnsSettle
    <3> QED BY <1>2, <1>3, <3>1, <3>2, <3>3 DEF Settled
  <2> QED BY <2>1, MakesAgree
<1>6. last = [a \in Asked |-> Makes(last, a)]
  BY <1>4, <1>5
<1> QED BY <1>6 DEF IsValueFor

(* probes.py:56. value_for, which calls itself, gives every schema a       *)
(* value: the one its body makes from those of the schemas inside.         *)
THEOREM ProbesAreDefined ==
  value_for = [a \in Asked |-> Makes(value_for, a)]
<1>1. value_for = CHOOSE f : IsValueFor(f)
  BY DEF value_for, IsValueFor
<1>2. IsValueFor(value_for)
  BY <1>1, ValuesExist
<1> QED BY <1>2 DEF IsValueFor
-----------------------------------------------------------------------------
(* What a value says: each token is the tool's and of a path that begins   *)
(* with that of the value, a text can be recovered, and two texts in       *)
(* places without keys that look like paths do not share a token.          *)
Begins(path, other) ==
  Len(path) <= Len(other) /\ \A i \in 1..Len(path) : path[i] = other[i]
Tells(leaf, name, path) ==
  \A i \in 1..Len(leaf.words) : IsToken(leaf.words[i]) =>
     /\ leaf.words[i].of[1] = name
     /\ leaf.words[i].of[2] \in Paths /\ Begins(path, leaf.words[i].of[2])
Share(s, t) ==
  \E i \in 1..Len(s.words), j \in 1..Len(t.words) :
     IsToken(s.words[i]) /\ s.words[i] = t.words[j]
Apart(s, t) == SimplePlace(s.place) /\ SimplePlace(t.place) /\ Share(s, t) => s = t

Speaks(leaves, name, path) ==
  /\ leaves \in SUBSET LeafType
  /\ \A leaf \in leaves : Tells(leaf, name, path) /\ (leaf.words # <<>> => Recoverable(leaf.words))
  /\ \A s, t \in leaves : Apart(s, t)

LEMMA BeginsBelow ==
  ASSUME NEW path \in Paths, NEW k \in Paths, NEW other \in Paths, Begins(Below(path, k), other)
  PROVE  Begins(path, other) /\ (Len(k) = 1 => k = <<other[Len(path) + 2]>>)
<1>1. /\ Len(Below(path, k)) = Len(path) + 1 + Len(k)
      /\ \A i \in 1..Len(path) : Below(path, k)[i] = path[i]
      /\ \A i \in 1..Len(k) : Below(path, k)[Len(path) + 1 + i] = k[i]
      /\ Len(path) \in Nat /\ Len(k) \in Nat
  BY BelowFacts
<1>2. Len(other) \in Nat
  BY LenProperties DEF Paths
<1>3. Begins(path, other)
  <2>1. Len(path) <= Len(other)
    BY <1>1, <1>2 DEF Begins
  <2>2. ASSUME NEW i \in 1..Len(path) PROVE path[i] = other[i]
    <3>1. i \in 1..Len(Below(path, k))
      BY <1>1
    <3> QED BY <1>1, <3>1 DEF Begins
  <2> QED BY <2>1, <2>2 DEF Begins
<1>4. ASSUME Len(k) = 1 PROVE k = <<other[Len(path) + 2]>>
  <2>1. 1 \in 1..Len(k) /\ Len(path) + 1 + 1 = Len(path) + 2
        /\ Len(path) + 2 \in 1..Len(Below(path, k))
    BY <1>1, <1>4
  <2>2. Below(path, k)[Len(path) + 2] = k[1]
    BY <1>1, <2>1
  <2>3. Below(path, k)[Len(path) + 2] = other[Len(path) + 2]
    BY <2>1 DEF Begins
  <2>4. k = <<k[1]>>
    BY <1>4 DEF Paths
  <2> QED BY <2>2, <2>3, <2>4
<1> QED BY <1>3, <1>4

LEMMA BeginsElement ==
  ASSUME NEW path \in Paths, NEW other \in Paths, Begins(path \o Element, other)
  PROVE  Begins(path, other)
<1>1. /\ Len(path \o Element) = Len(path) + 1
      /\ \A i \in 1..Len(path) : (path \o Element)[i] = path[i]
      /\ Len(path) \in Nat
  BY ElementFacts
<1>2. Len(other) \in Nat
  BY LenProperties DEF Paths
<1>3. PICK longer : longer = path \o Element
  OBVIOUS
<1>4. Len(longer) <= Len(other) /\ \A i \in 1..Len(longer) : longer[i] = other[i]
  BY <1>3 DEF Begins
<1>5. Len(longer) = Len(path) + 1 /\ \A i \in 1..Len(path) : longer[i] = path[i]
  BY <1>1, <1>3
<1>6. \A i \in 1..Len(path) : i \in 1..Len(longer)
  BY <1>1, <1>5
<1>7. Len(path) <= Len(other)
  BY <1>1, <1>2, <1>4, <1>5
<1>8. \A i \in 1..Len(path) : path[i] = other[i]
  BY <1>4, <1>5, <1>6
<1> QED BY <1>7, <1>8 DEF Begins

(* What holds of a value holds of it one key further down.                 *)
LEMMA UnderSpeaks ==
  ASSUME NEW key \in Paths, NEW leaves, NEW name, NEW path,
         Speaks(leaves, name, path)
  PROVE  /\ Within(key, leaves) \in SUBSET LeafType
         /\ \A leaf \in Within(key, leaves) :
              Tells(leaf, name, path) /\ (leaf.words # <<>> => Recoverable(leaf.words))
         /\ \A s, t \in Within(key, leaves) : Apart(s, t)
<1>1. leaves \in SUBSET LeafType
  BY DEF Speaks
<1>2. Within(key, leaves) \in SUBSET LeafType
  BY <1>1, WithinFacts
<1>3. ASSUME NEW leaf \in Within(key, leaves)
      PROVE  \E under \in leaves : leaf = Under(key, under) /\ leaf.words = under.words
  BY <1>1, UnderFacts DEF Within
<1>4. ASSUME NEW leaf \in Within(key, leaves)
      PROVE  Tells(leaf, name, path) /\ (leaf.words # <<>> => Recoverable(leaf.words))
  BY <1>3 DEF Speaks, Tells
<1>5. ASSUME NEW s \in Within(key, leaves), NEW t \in Within(key, leaves) PROVE Apart(s, t)
  <2>1. PICK s0 \in leaves : s = Under(key, s0) /\ s.words = s0.words
    BY <1>3
  <2>2. PICK t0 \in leaves : t = Under(key, t0) /\ t.words = t0.words
    BY <1>3
  <2>3. /\ SimplePlace(s.place) => SimplePlace(s0.place)
        /\ SimplePlace(t.place) => SimplePlace(t0.place)
    BY <1>1, <2>1, <2>2, UnderFacts
  <2>4. Share(s, t) => Share(s0, t0)
    BY <2>1, <2>2 DEF Share
  <2>5. Apart(s0, t0)
    BY DEF Speaks
  <2> QED BY <2>1, <2>2, <2>3, <2>4, <2>5 DEF Apart
<1> QED BY <1>2, <1>4, <1>5

(* Two parts of an object under different keys.                            *)
LEMMA PartsApart ==
  ASSUME NEW k \in Paths, NEW m \in Paths, NEW u, NEW v, NEW name, NEW pk, NEW pm,
         Speaks(u, name, pk), Speaks(v, name, pm),
         NEW s \in Within(k, u), NEW t \in Within(m, v),
         SimplePlace(s.place), SimplePlace(t.place), Share(s, t)
  PROVE  /\ Len(k) = 1 /\ Len(m) = 1
         /\ \E other \in Paths : Begins(pk, other) /\ Begins(pm, other)
<1>1. u \in SUBSET LeafType /\ v \in SUBSET LeafType
  BY DEF Speaks
<1>2. PICK s0 \in u : s = Under(k, s0)
  BY DEF Within
<1>3. PICK t0 \in v : t = Under(m, t0)
  BY DEF Within
<1>4. Len(k) = 1 /\ Len(m) = 1
  BY <1>1, <1>2, <1>3, UnderFacts
<1>5. s.words = s0.words /\ t.words = t0.words
  BY <1>1, <1>2, <1>3, UnderFacts
<1>6. PICK i \in 1..Len(s0.words), j \in 1..Len(t0.words) :
        IsToken(s0.words[i]) /\ s0.words[i] = t0.words[j]
  BY <1>5 DEF Share
<1>7. Tells(s0, name, pk) /\ Tells(t0, name, pm)
  BY DEF Speaks
<1>8. /\ s0.words[i].of[2] \in Paths /\ Begins(pk, s0.words[i].of[2])
      /\ Begins(pm, t0.words[j].of[2])
  BY <1>6, <1>7 DEF Tells
<1> QED BY <1>4, <1>6, <1>8
LEMMA SingleSpeaks ==
  ASSUME NEW name, NEW path, NEW leaf \in LeafType, Tells(leaf, name, path),
         leaf.words # <<>> => Recoverable(leaf.words)
  PROVE  Speaks({leaf}, name, path)
BY DEF Speaks, Apart

LEMMA ValuesSpeak ==
  \A a \in Asked : Speaks(value_for[a], a.name, a.path)
<1> DEFINE T == {a \in Asked : Speaks(value_for[a], a.name, a.path)}
<1>1. ASSUME NEW a \in Asked, \A b \in Parts(a) : b \in T PROVE Speaks(value_for[a], a.name, a.path)
  <2>0. PICK value : value = value_for
    OBVIOUS
  <2>1. value_for[a] = Makes(value, a)
    BY <2>0, ProbesAreDefined
  <2>2. \A b \in Parts(a) : Speaks(value[b], b.name, b.path)
    BY <1>1, <2>0
  <2>3. a.name \in Names /\ a.path \in Paths
    BY DEF Asked
  <2>4. CASE Fixed(a.schema)
    <3>1. Leaf(<<>>) \in LeafType /\ Leaf(<<>>).words = <<>>
      BY LeafFacts, EmptySeq
    <3>2. Tells(Leaf(<<>>), a.name, a.path)
      BY <3>1 DEF Tells
    <3>3. Speaks({Leaf(<<>>)}, a.name, a.path)
      BY <3>1, <3>2, SingleSpeaks
    <3> QED BY <2>1, <2>4, <3>3, MakesFacts
  <2>5. CASE Lists(a.schema)
    <3>1. ElementOf(a) \in Parts(a)
      BY <2>5 DEF Parts
    <3>2. Element \in Paths
      BY <2>3, ElementFacts
    <3>3. Speaks(value[ElementOf(a)], a.name, a.path \o Element)
      <4>1. ElementOf(a).name = a.name /\ ElementOf(a).path = a.path \o Element
        BY <2>5, PartsFacts
      <4> QED BY <2>2, <3>1, <4>1
    <3>4. PICK leaves : leaves = Within(Element, value[ElementOf(a)])
      OBVIOUS
    <3>5. /\ leaves \in SUBSET LeafType
          /\ \A leaf \in leaves : /\ Tells(leaf, a.name, a.path \o Element)
                                  /\ leaf.words # <<>> => Recoverable(leaf.words)
          /\ \A s, t \in leaves : Apart(s, t)
      BY <3>2, <3>3, <3>4, UnderSpeaks
    <3>6. \A leaf \in leaves : Tells(leaf, a.name, a.path)
      BY <2>3, <3>5, BeginsElement DEF Tells
    <3>7. value_for[a] = leaves
      BY <2>1, <2>5, <3>4, MakesFacts
    <3> QED BY <3>5, <3>6, <3>7 DEF Speaks
  <2>6. CASE Nests(a.schema)
    <3> DEFINE part(k) == Within(k, value[MemberOf(a, k)])
    <3>1. ~Lists(a.schema)
      BY <2>6 DEF Lists, Nests
    <3>2. ASSUME NEW k \in DOMAIN Properties(a.schema)
          PROVE  /\ k \in Paths
                 /\ Speaks(value[MemberOf(a, k)], a.name, Below(a.path, k))
      <4>1. MemberOf(a, k) \in Parts(a)
        BY <3>1 DEF Parts
      <4>2. k \in Paths /\ MemberOf(a, k).name = a.name /\ MemberOf(a, k).path = Below(a.path, k)
        BY PartsFacts
      <4> QED BY <2>2, <4>1, <4>2
    <3>3. ASSUME NEW k \in DOMAIN Properties(a.schema)
          PROVE  /\ part(k) \in SUBSET LeafType
                 /\ \A leaf \in part(k) : /\ Tells(leaf, a.name, Below(a.path, k))
                                          /\ leaf.words # <<>> => Recoverable(leaf.words)
                 /\ \A s, t \in part(k) : Apart(s, t)
      BY <3>2, UnderSpeaks
    <3>4. value_for[a] = UNION {part(k) : k \in DOMAIN Properties(a.schema)}
      BY <2>1, <2>6, MakesFacts
    <3>5. ASSUME NEW k \in DOMAIN Properties(a.schema), NEW leaf \in part(k)
          PROVE  Tells(leaf, a.name, a.path)
      BY <2>3, <3>2, <3>3, BeginsBelow DEF Tells
    <3>6. ASSUME NEW k \in DOMAIN Properties(a.schema), NEW m \in DOMAIN Properties(a.schema),
                 NEW s \in part(k), NEW t \in part(m)
          PROVE  Apart(s, t)
      <4>1. SUFFICES ASSUME SimplePlace(s.place), SimplePlace(t.place), Share(s, t) PROVE s = t
        BY DEF Apart
      <4>2. PICK other \in Paths :
              Begins(Below(a.path, k), other) /\ Begins(Below(a.path, m), other)
        BY <3>2, <4>1, PartsApart
      <4>3. Len(k) = 1 /\ Len(m) = 1
        BY <3>2, <4>1, PartsApart
      <4>4. k = m
        BY <2>3, <3>2, <4>2, <4>3, BeginsBelow
      <4>5. Apart(s, t)
        BY <3>3, <4>4
      <4> QED BY <4>1, <4>5 DEF Apart
    <3> HIDE DEF part
    <3> QED BY <3>3, <3>4, <3>5, <3>6 DEF Speaks
  <2>7. CASE ~Fixed(a.schema) /\ ~Lists(a.schema) /\ ~Nests(a.schema)
    <3>1. /\ Told(a) \in Seq(WordType) /\ Recoverable(Told(a))
          /\ OnlyToken(Told(a), Token(a.name, a.path))
      BY <2>3, StringFacts DEF Told
    <3>2. Leaf(Told(a)) \in LeafType /\ Leaf(Told(a)).words = Told(a)
      BY <3>1, LeafFacts
    <3>3. /\ Token(a.name, a.path).of[1] = a.name /\ Token(a.name, a.path).of[2] = a.path
          /\ Begins(a.path, a.path)
      <4>1. Len(a.path) \in Nat
        BY <2>3, LenProperties DEF Paths
      <4> QED BY <4>1 DEF Token, Begins
    <3>4. Tells(Leaf(Told(a)), a.name, a.path)
      BY <2>3, <3>1, <3>2, <3>3 DEF Tells, OnlyToken
    <3>5. Speaks({Leaf(Told(a))}, a.name, a.path)
      BY <3>1, <3>2, <3>4, SingleSpeaks
    <3> QED BY <2>1, <2>7, <3>5, MakesFacts
  <2> QED BY <2>4, <2>5, <2>6, <2>7
<1>2. ASSUME NEW a \in Asked, \A b \in Asked : Deep(b) < Deep(a) => b \in T PROVE a \in T
  <2>1. \A b \in Parts(a) : b \in T
    BY <1>2, PartsAreLess
  <2> QED BY <1>1, <2>1
<1>3. T = Asked
  <2>1. T \in SUBSET Asked
    OBVIOUS
  <2> HIDE DEF T
  <2> QED BY <1>2, <2>1, DepthInduction
<1> QED BY <1>3

-----------------------------------------------------------------------------
(* What a call says: each token is the tool's, and the rest as above.      *)
OnlyTokensOf(leaf, name) ==
  \A i \in 1..Len(leaf.words) : IsToken(leaf.words[i]) => leaf.words[i].of[1] = name
CallSpeaks(leaves, name) ==
  /\ leaves \in SUBSET LeafType
  /\ \A leaf \in leaves : /\ OnlyTokensOf(leaf, name)
                          /\ leaf.words # <<>> => Recoverable(leaf.words)
  /\ \A s, t \in leaves : Apart(s, t)

LEMMA BeginsKey ==
  ASSUME NEW k \in Paths, NEW other \in Paths, Begins(k, other), Len(k) = 1
  PROVE  k = <<other[1]>>
<1>1. k[1] = other[1]
  BY DEF Begins
<1>2. k = <<k[1]>>
  BY DEF Paths
<1> QED BY <1>1, <1>2

LEMMA ArgumentsSpeak ==
  ASSUME NEW t \in Tools, NEW required_only
  PROVE  CallSpeaks(arguments_for(t, required_only), t.name)
<1> DEFINE part(k) == Within(k, value_for[Argument(t, k)])
<1>1. PICK chosen \in SUBSET (DOMAIN t.properties) :
        arguments_for(t, required_only) = UNION {part(k) : k \in chosen}
  <2>1. CASE required_only
    BY <2>1 DEF arguments_for
  <2>2. CASE ~required_only
    BY <2>2 DEF arguments_for
  <2> QED BY <2>1, <2>2
<1>2. ASSUME NEW k \in chosen
      PROVE  k \in Paths /\ Speaks(value_for[Argument(t, k)], t.name, k)
  <2>1. t.name \in Names /\ k \in Keys /\ t.properties[k] \in Schemas
    BY ToolsAssumption
  <2>2. k \in Paths
    BY <2>1, TextAssumption
  <2>3. Argument(t, k) \in Asked /\ Argument(t, k).name = t.name /\ Argument(t, k).path = k
    BY <2>1, <2>2 DEF Argument, Asked
  <2> QED BY <2>2, <2>3, ValuesSpeak
<1>3. ASSUME NEW k \in chosen
      PROVE  /\ part(k) \in SUBSET LeafType
             /\ \A leaf \in part(k) : /\ Tells(leaf, t.name, k)
                                      /\ leaf.words # <<>> => Recoverable(leaf.words)
             /\ \A s, u \in part(k) : Apart(s, u)
  BY <1>2, UnderSpeaks
<1>4. ASSUME NEW k \in chosen, NEW m \in chosen, NEW s \in part(k), NEW u \in part(m)
      PROVE  Apart(s, u)
  <2>1. SUFFICES ASSUME SimplePlace(s.place), SimplePlace(u.place), Share(s, u) PROVE s = u
    BY DEF Apart
  <2>2. PICK other \in Paths : Begins(k, other) /\ Begins(m, other)
    BY <1>2, <2>1, PartsApart
  <2>3. Len(k) = 1 /\ Len(m) = 1
    BY <1>2, <2>1, PartsApart
  <2>4. k = m
    BY <1>2, <2>2, <2>3, BeginsKey
  <2>5. Apart(s, u)
    BY <1>3, <2>4
  <2> QED BY <2>1, <2>5 DEF Apart
<1>5. \A k \in chosen : \A leaf \in part(k) : OnlyTokensOf(leaf, t.name)
  BY <1>3 DEF Tells, OnlyTokensOf
<1> HIDE DEF part
<1> QED BY <1>1, <1>3, <1>4, <1>5 DEF CallSpeaks
-----------------------------------------------------------------------------
(* The tokens diff.py takes from texts: those on their own, and only words *)
(* of the texts.                                                           *)
LEMMA ChunkFacts ==
  ASSUME NEW S, NEW words \in Seq(S), NEW i \in 1..Len(words), NEW j \in 1..Len(words), i <= j
  PROVE  /\ Len(SubSeq(words, i, j)) = (j - i) + 1
         /\ SubSeq(words, i, j)[1] = words[i]
<1>1. Len(words) \in Nat /\ \A n \in 1..Len(words) : words[n] \in S
  BY LenProperties, ElementOfSeq
<1>2. /\ i \in Int /\ j \in Int /\ (\A n \in i..j : words[n] \in S)
  BY <1>1
<1>3. /\ Len(SubSeq(words, i, j)) = IF i <= j THEN j - i + 1 ELSE 0
      /\ \A n \in 1..j - i + 1 : SubSeq(words, i, j)[n] = words[i + n - 1]
  BY <1>2, SubSeqProperties
<1>4. 1 \in 1..j - i + 1 /\ i + 1 - 1 = i
  BY <1>2
<1> QED BY <1>3, <1>4

LEMMA TokensAreTaken ==
  ASSUME NEW S, NEW leaves, NEW leaf \in leaves, leaf.words \in Seq(S), Recoverable(leaf.words)
  PROVE  Holds(leaf.words, _tokens_from(leaves))
<1>1. PICK words \in Seq(S) : words = leaf.words
  OBVIOUS
<1>2. PICK i \in 1..Len(words) : Alone(words, i)
  BY <1>1 DEF Recoverable
<1>3. DOMAIN words = 1..Len(words) /\ Len(words) \in Nat
  BY LenProperties
<1>4. SubSeq(words, i, i) \in Chunks(words)
  <2>1. PICK b : b = <<i, i>>
    OBVIOUS
  <2>2. \A n \in b[1]..b[2] : words[n] \notin Separators
    <3>1. \A n \in i..i : n = i
      OBVIOUS
    <3> QED BY <1>2, <2>1, <3>1 DEF Alone
  <2>3. b \in (DOMAIN words) \X (DOMAIN words) /\ b[1] <= b[2] /\ b[1] = i /\ b[2] = i
    BY <1>3, <2>1
  <2> QED BY <1>2, <2>2, <2>3 DEF Chunks, Alone
<1>5. Len(SubSeq(words, i, i)) = 1 /\ SubSeq(words, i, i)[1] = words[i]
  BY <1>3, ChunkFacts
<1>6. IsToken(words[i])
  BY <1>2 DEF Alone
<1>7. words[i] \in _tokens_from(leaves)
  BY <1>1, <1>4, <1>5, <1>6 DEF _tokens_from
<1>8. words[i] \in ToSet(words)
  BY <1>3 DEF ToSet
<1> QED BY <1>1, <1>7, <1>8 DEF Holds

LEMMA TakenTokens ==
  ASSUME NEW S, NEW leaves, \A leaf \in leaves : leaf.words \in Seq(S),
         NEW token \in _tokens_from(leaves)
  PROVE  IsToken(token) /\ \E leaf \in leaves : \E i \in 1..Len(leaf.words) : token = leaf.words[i]
<1>0. PICK leaf \in leaves : \E chunk \in Chunks(leaf.words) :
        Len(chunk) = 1 /\ IsToken(chunk[1]) /\ token = chunk[1]
  BY DEF _tokens_from
<1>1. PICK chunk \in Chunks(leaf.words) : Len(chunk) = 1 /\ IsToken(chunk[1]) /\ token = chunk[1]
  BY <1>0
<1>2. leaf.words \in Seq(S) /\ DOMAIN leaf.words = 1..Len(leaf.words)
  BY LenProperties
<1>3. PICK b \in (DOMAIN leaf.words) \X (DOMAIN leaf.words) :
        b[1] <= b[2] /\ chunk = SubSeq(leaf.words, b[1], b[2])
  BY DEF Chunks
<1>4. b[1] \in 1..Len(leaf.words) /\ b[2] \in 1..Len(leaf.words)
  BY <1>2, <1>3
<1>5. chunk[1] = leaf.words[b[1]]
  BY <1>2, <1>3, <1>4, ChunkFacts
<1> QED BY <1>1, <1>4, <1>5

ConfigTokenType == [kind : {"token"}, of : {"__config__"} \X ConfigNames]
ConfigWordType == ConfigTokenType \cup [kind : {"word"}, of : Literals]
ConfigTexts == {Leaf(declared_config[n]) : n \in ConfigNames}

LEMMA ConfigFacts ==
  ASSUME NEW n \in ConfigNames
  PROVE  LET words == declared_config[n] IN
         /\ words \in Seq(ConfigWordType) /\ words # <<>>
         /\ OnlyToken(words, Token("__config__", n))
         /\ n \notin StreamConfig \ EmailConfig => Recoverable(words)
         /\ n \in StreamConfig \ EmailConfig => words = <<Word("outbound")>>
<1>1. PICK words : words = declared_config[n]
  OBVIOUS
<1>2. PICK token : token = Token("__config__", n)
  OBVIOUS
<1>3. IsToken(token) /\ token \notin Separators
  BY <1>2, WordFacts
<1>4. /\ token \in ConfigWordType /\ Word("@") \in ConfigWordType /\ Word(".") \in ConfigWordType
      /\ Word("example") \in ConfigWordType /\ Word("invalid") \in ConfigWordType
      /\ Word("outbound") \in ConfigWordType
  BY <1>2 DEF Token, Word, ConfigWordType, ConfigTokenType, Literals
<1>5. CASE n \in EmailConfig
  <2>1. words = <<token, Word("@"), Word("example"), Word("."), Word("invalid")>>
    BY <1>1, <1>2, <1>5 DEF declared_config
  <2>2. words \in Seq(ConfigWordType)
    BY <1>4, <2>1
  <2>3. Recoverable(words) /\ OnlyToken(words, token) /\ words # <<>>
    BY <1>3, <2>1, AddressFacts
  <2> QED BY <1>1, <1>2, <1>5, <2>2, <2>3
<1>6. CASE n \in StreamConfig \ EmailConfig
  <2>1. words = <<Word("outbound")>>
    BY <1>1, <1>6 DEF declared_config
  <2>2. words \in Seq(ConfigWordType) /\ words # <<>>
    BY <1>4, <2>1
  <2>3. OnlyToken(words, token)
    <3>1. Len(words) = 1 /\ words[1] = Word("outbound")
      BY <2>1
    <3> QED BY <3>1, WordFacts DEF OnlyToken
  <2> QED BY <1>1, <1>2, <1>6, <2>1, <2>2, <2>3
<1>7. CASE n \notin EmailConfig /\ n \notin StreamConfig \ EmailConfig
  <2>1. words = <<token>>
    BY <1>1, <1>2, <1>7 DEF declared_config
  <2>2. words \in Seq(ConfigWordType)
    BY <1>4, <2>1
  <2>3. Recoverable(words) /\ OnlyToken(words, token) /\ words # <<>>
    BY <1>3, <2>1, TokenFacts
  <2> QED BY <1>1, <1>2, <1>7, <2>2, <2>3
<1> QED BY <1>5, <1>6, <1>7

LEMMA ConfigTokensAreTaken ==
  ASSUME NEW n \in ConfigNames, n \notin StreamConfig \ EmailConfig
  PROVE  Holds(declared_config[n], ConfigTokens)
<1>1. PICK leaf : leaf = Leaf(declared_config[n])
  OBVIOUS
<1>2. leaf \in ConfigTexts /\ leaf.words = declared_config[n]
  BY <1>1 DEF ConfigTexts, Leaf
<1>3. leaf.words \in Seq(ConfigWordType) /\ Recoverable(leaf.words)
  BY <1>2, ConfigFacts
<1>4. Holds(leaf.words, _tokens_from(ConfigTexts))
  BY <1>2, <1>3, TokensAreTaken
<1> QED BY <1>2, <1>4 DEF ConfigTokens, ConfigTexts

(* No word of a configuration value is among the tokens of a call.         *)
LEMMA ConfigIsNotCaller ==
  ASSUME NEW leaves, NEW name, CallSpeaks(leaves, name), name # "__config__", NEW n \in ConfigNames
  PROVE  ~Holds(declared_config[n], _tokens_from(leaves))
<1> SUFFICES ASSUME Holds(declared_config[n], _tokens_from(leaves)) PROVE FALSE
  OBVIOUS
<1>1. PICK words : words = declared_config[n]
  OBVIOUS
<1>2. words \in Seq(ConfigWordType) /\ OnlyToken(words, Token("__config__", n))
  BY <1>1, ConfigFacts
<1>3. PICK token \in _tokens_from(leaves) : token \in ToSet(words)
  BY <1>1 DEF Holds
<1>4. PICK i \in 1..Len(words) : token = words[i]
  <2>1. DOMAIN words = 1..Len(words)
    BY <1>2, LenProperties
  <2> QED BY <1>3, <2>1 DEF ToSet
<1>5. \A leaf \in leaves : leaf.words \in Seq(WordType)
  BY DEF CallSpeaks, LeafType
<1>6. PICK leaf \in leaves : \E j \in 1..Len(leaf.words) : token = leaf.words[j] /\ IsToken(token)
  BY <1>5, TakenTokens
<1>7. token.of[1] = name
  BY <1>6 DEF CallSpeaks, OnlyTokensOf
<1>8. token = Token("__config__", n)
  BY <1>2, <1>4, <1>6 DEF OnlyToken
<1>9. token.of[1] = "__config__"
  BY <1>8 DEF Token
<1> QED BY <1>7, <1>9

(* A value that says nothing is not attributed to anything.                *)
LEMMA StreamIsNobodys ==
  ASSUME NEW n \in ConfigNames, n \in StreamConfig \ EmailConfig
  PROVE  ~Holds(declared_config[n], ConfigTokens)
<1> SUFFICES ASSUME Holds(declared_config[n], ConfigTokens) PROVE FALSE
  OBVIOUS
<1>1. declared_config[n] = <<Word("outbound")>>
  BY ConfigFacts
<1>2. PICK token \in _tokens_from(ConfigTexts) : token \in ToSet(declared_config[n])
  BY DEF Holds, ConfigTokens, ConfigTexts
<1>3. token = Word("outbound")
  <2>1. PICK words : words = <<Word("outbound")>>
    OBVIOUS
  <2>2. DOMAIN words = {1} /\ words[1] = Word("outbound")
    BY <2>1
  <2> QED BY <1>1, <1>2, <2>1, <2>2 DEF ToSet
<1>4. \A leaf \in ConfigTexts : leaf.words \in Seq(ConfigWordType)
  <2>1. \A m \in ConfigNames : Leaf(declared_config[m]).words = declared_config[m]
    BY DEF Leaf
  <2> QED BY <2>1, ConfigFacts DEF ConfigTexts
<1>5. IsToken(token)
  BY <1>4, TakenTokens
<1> QED BY <1>3, <1>5, WordFacts

-----------------------------------------------------------------------------
ProbeInv ==
  /\ tool \in Tools /\ calls \in Seq(SUBSET LeafType)
  /\ \A i \in 1..Len(calls) : CallSpeaks(calls[i], tool.name)

LEMMA ProbeInitially ==
  ASSUME ProbeInit PROVE ProbeInv
BY DEF ProbeInit, ProbeInv

LEMMA ProbeStep ==
  ASSUME ProbeInv, [Call]_probeVars PROVE ProbeInv'
<1>1. CASE Call
  <2>1. PICK value : value = arguments_for(tool, Len(calls) = 1)
    OBVIOUS
  <2>2. CallSpeaks(value, tool.name)
    BY <2>1, ArgumentsSpeak DEF ProbeInv
  <2>3. value \in SUBSET LeafType
    BY <2>2 DEF CallSpeaks
  <2>4. calls' = Append(calls, value) /\ tool' = tool
    BY <1>1, <2>1 DEF Call
  <2>5. /\ calls \in Seq(SUBSET LeafType) /\ Len(calls) \in Nat
    BY LenProperties DEF ProbeInv
  <2>6. /\ calls' \in Seq(SUBSET LeafType) /\ Len(calls') = Len(calls) + 1
        /\ \A i \in 1..Len(calls) : calls'[i] = calls[i]
        /\ calls'[Len(calls) + 1] = value
    BY <2>3, <2>4, <2>5, AppendProperties
  <2>7. ASSUME NEW i \in 1..Len(calls') PROVE CallSpeaks(calls'[i], tool.name)
    <3>1. i \in 1..Len(calls) \/ i = Len(calls) + 1
      BY <2>5, <2>6
    <3>2. CASE i \in 1..Len(calls)
      BY <2>6, <3>2 DEF ProbeInv
    <3>3. CASE i = Len(calls) + 1
      BY <2>2, <2>6, <3>3
    <3> QED BY <3>1, <3>2, <3>3
  <2>8. tool' \in Tools
    BY <2>4 DEF ProbeInv
  <2> QED BY <2>4, <2>6, <2>7, <2>8 DEF ProbeInv
<1>2. CASE UNCHANGED probeVars
  BY <1>2 DEF probeVars, ProbeInv
<1> QED BY <1>1, <1>2

LEMMA ProbesSpeak ==
  ProbeSpec => []ProbeInv
<1> QED BY ProbeInitially, ProbeStep, PTL DEF ProbeSpec

LEMMA NamesOfInv ==
  ASSUME ProbeInv PROVE TokensNameArguments
<1>1. DOMAIN calls = 1..Len(calls)
  BY LenProperties DEF ProbeInv
<1> SUFFICES ASSUME NEW i \in 1..Len(calls), NEW s \in calls[i], NEW t \in calls[i],
                    SimplePlace(s.place), SimplePlace(t.place),
                    NEW w \in ToSet(s.words) \cap ToSet(t.words), IsToken(w)
             PROVE  s = t
  BY <1>1 DEF TokensNameArguments
<1>2. CallSpeaks(calls[i], tool.name)
  BY DEF ProbeInv
<1>3. s \in LeafType /\ t \in LeafType /\ Apart(s, t)
  BY <1>2 DEF CallSpeaks
<1>4. s.words \in Seq(WordType) /\ t.words \in Seq(WordType)
  BY <1>3 DEF LeafType
<1>5. DOMAIN s.words = 1..Len(s.words) /\ DOMAIN t.words = 1..Len(t.words)
  BY <1>4, LenProperties
<1>6. Share(s, t)
  BY <1>5 DEF Share, ToSet
<1> QED BY <1>3, <1>6 DEF Apart

(* The words of a stream are no token, those of any other value hold one.  *)
LEMMA ConfigCarries ==
  ASSUME NEW n \in ConfigNames
  PROVE  CarriesToken(declared_config[n]) <=> n \notin StreamConfig \ EmailConfig
<1>1. CASE n \in StreamConfig \ EmailConfig
  <2>1. declared_config[n] = <<Word("outbound")>>
    BY <1>1 DEF declared_config
  <2>2. ToSet(declared_config[n]) = {Word("outbound")}
    BY <2>1 DEF ToSet
  <2>3. ~IsToken(Word("outbound"))
    BY DEF IsToken, Word
  <2> QED BY <1>1, <2>2, <2>3 DEF CarriesToken
<1>2. CASE n \notin StreamConfig \ EmailConfig
  <2>1. declared_config[n] \in
          {<<Token("__config__", n), Word("@"), Word("example"), Word("."), Word("invalid")>>,
           <<Token("__config__", n)>>}
    BY <1>2 DEF declared_config
  <2>2. 1 \in DOMAIN declared_config[n] /\ declared_config[n][1] = Token("__config__", n)
    BY <2>1
  <2>3. IsToken(Token("__config__", n))
    BY DEF IsToken, Token
  <2> QED BY <1>2, <2>2, <2>3 DEF CarriesToken, ToSet
<1> QED BY <1>1, <1>2

LEMMA EchoesOfInv ==
  ASSUME ProbeInv PROVE EchoesAreAttributed
<1> SUFFICES ASSUME calls # <<>>
             PROVE  /\ \A t \in calls[Len(calls)] :
                         attribute(t.words, CallerTokens, ConfigTokens) =
                           IF CarriesToken(t.words) THEN "caller_input" ELSE "unattributed"
                    /\ tool.name # "__config__" => \A n \in ConfigNames :
                         attribute(declared_config[n], CallerTokens, ConfigTokens) =
                           IF CarriesToken(declared_config[n]) THEN "declared_config"
                           ELSE "unattributed"
  BY DEF EchoesAreAttributed
<1>1. PICK leaves : leaves = calls[Len(calls)]
  OBVIOUS
<1>2. CallerTokens = _tokens_from(leaves)
  BY <1>1 DEF CallerTokens
<1>3. CallSpeaks(leaves, tool.name)
  <2>1. calls \in Seq(SUBSET LeafType)
    BY DEF ProbeInv
  <2>2. Len(calls) \in 1..Len(calls)
    BY <2>1
  <2> QED BY <1>1, <2>2 DEF ProbeInv
<1>4. ASSUME NEW t \in leaves, CarriesToken(t.words)
      PROVE  attribute(t.words, CallerTokens, ConfigTokens) = "caller_input"
  <2>1. t.words # <<>>
    BY <1>4 DEF CarriesToken, ToSet
  <2>2. t.words \in Seq(WordType) /\ Recoverable(t.words)
    BY <1>3, <1>4, <2>1 DEF CallSpeaks, LeafType
  <2>3. Holds(t.words, CallerTokens)
    BY <1>2, <2>2, TokensAreTaken
  <2> QED BY <2>3 DEF attribute
<1>5. ASSUME NEW t \in leaves, ~CarriesToken(t.words)
      PROVE  attribute(t.words, CallerTokens, ConfigTokens) = "unattributed"
  <2>1. \A w \in CallerTokens \cup ConfigTokens : IsToken(w)
    BY DEF CallerTokens, ConfigTokens, _tokens_from
  <2>2. ~Holds(t.words, CallerTokens) /\ ~Holds(t.words, ConfigTokens)
    BY <1>5, <2>1 DEF Holds, CarriesToken
  <2> QED BY <2>2 DEF attribute
<1>6. ASSUME tool.name # "__config__", NEW n \in ConfigNames
      PROVE  attribute(declared_config[n], CallerTokens, ConfigTokens) =
               IF CarriesToken(declared_config[n]) THEN "declared_config" ELSE "unattributed"
  <2>1. ~Holds(declared_config[n], CallerTokens)
    BY <1>2, <1>3, <1>6, ConfigIsNotCaller
  <2>2. CASE n \in StreamConfig \ EmailConfig
    <3>1. ~Holds(declared_config[n], ConfigTokens)
      BY <2>2, StreamIsNobodys
    <3> QED BY <2>1, <2>2, <3>1, ConfigCarries DEF attribute
  <2>3. CASE n \notin StreamConfig \ EmailConfig
    <3>1. Holds(declared_config[n], ConfigTokens)
      BY <2>3, ConfigTokensAreTaken
    <3> QED BY <2>1, <2>3, <3>1, ConfigCarries DEF attribute
  <2> QED BY <2>2, <2>3
<1> QED BY <1>1, <1>4, <1>5, <1>6

(* probes.py:34: two texts in different places of one call never share a   *)
(* token, whatever the schemas, unless a key on the way to one of them     *)
(* looks like a path of its own.                                           *)
THEOREM TokensAreNamed ==
  ProbeSpec => []TokensNameArguments
<1> QED BY ProbesSpeak, NamesOfInv, PTL

(* diff.py:65: what a tool sends on unchanged, of its arguments or of its  *)
(* configuration, is attributed to where it came from if it carries a      *)
(* token, and to nobody if it is a number, a boolean, an enum's value or   *)
(* a stream, which carry none.                                             *)
THEOREM EchoesAreSettled ==
  ProbeSpec => []EchoesAreAttributed
<1> QED BY ProbesSpeak, EchoesOfInv, PTL
=============================================================================
