--------------------------- MODULE ScanDirsProofs ---------------------------
(***************************************************************************)
(* First what the operators of InstallScripts compute, for any tree; then  *)
(* the invariants of ScanDirs.                                             *)
(***************************************************************************)
EXTENDS ScanDirs, SequenceFacts

Scripts == [package : Nat, hook : Hook, command : Commands]

LEMMA HookNames ==
  /\ Hook = {"preinstall", "install", "postinstall", "prepare"}
  /\ ToSet(DEPENDENCY_HOOKS) = Hook \ {"prepare"}
  /\ ROOT_HOOKS \in Seq(Hook) /\ Len(ROOT_HOOKS) = 4
  /\ DEPENDENCY_HOOKS \in Seq(Hook) /\ Len(DEPENDENCY_HOOKS) = 3
<1>1. /\ DOMAIN ROOT_HOOKS = 1..4 /\ DOMAIN DEPENDENCY_HOOKS = 1..3
      /\ 1..4 = {1, 2, 3, 4} /\ 1..3 = {1, 2, 3}
      /\ Len(ROOT_HOOKS) = 4 /\ Len(DEPENDENCY_HOOKS) = 3
  BY DEF ROOT_HOOKS, DEPENDENCY_HOOKS
<1>2. /\ ROOT_HOOKS[1] = "preinstall" /\ ROOT_HOOKS[2] = "install"
      /\ ROOT_HOOKS[3] = "postinstall" /\ ROOT_HOOKS[4] = "prepare"
      /\ DEPENDENCY_HOOKS[1] = "preinstall" /\ DEPENDENCY_HOOKS[2] = "install"
      /\ DEPENDENCY_HOOKS[3] = "postinstall"
  BY DEF ROOT_HOOKS, DEPENDENCY_HOOKS
<1>3. Hook = {"preinstall", "install", "postinstall", "prepare"}
  BY <1>1, <1>2 DEF Hook, ToSet
<1>4. ToSet(DEPENDENCY_HOOKS) = Hook \ {"prepare"}
  BY <1>1, <1>2, <1>3 DEF ToSet
<1>5. ROOT_HOOKS \in Seq(Hook) /\ DEPENDENCY_HOOKS \in Seq(Hook)
  BY <1>3 DEF ROOT_HOOKS, DEPENDENCY_HOOKS
<1> QED BY <1>1, <1>3, <1>4, <1>5

LEMMA HookListsAreDistinct ==
  /\ \A i, j \in 1..4 : ROOT_HOOKS[i] = ROOT_HOOKS[j] => i = j
  /\ \A i, j \in 1..3 : DEPENDENCY_HOOKS[i] = DEPENDENCY_HOOKS[j] => i = j
<1>1. 1..4 = {1, 2, 3, 4} /\ 1..3 = {1, 2, 3}
  OBVIOUS
<1>2. /\ ROOT_HOOKS[1] = "preinstall" /\ ROOT_HOOKS[2] = "install"
      /\ ROOT_HOOKS[3] = "postinstall" /\ ROOT_HOOKS[4] = "prepare"
      /\ DEPENDENCY_HOOKS[1] = "preinstall" /\ DEPENDENCY_HOOKS[2] = "install"
      /\ DEPENDENCY_HOOKS[3] = "postinstall"
  BY DEF ROOT_HOOKS, DEPENDENCY_HOOKS
<1> QED BY <1>1, <1>2

-----------------------------------------------------------------------------
(* One manifest. *)

(* What a list of hooks turns a table of scripts into.                     *)
Declares(p, scripts, declared) ==
  {Script(p, h, scripts[h]) : h \in {g \in declared : Runs(scripts, g)}}

ScriptKey == [s \in Scripts |-> KeyOf(s)]
Keys == Nat \X Hook

LEMMA ScriptKeyType == ScriptKey \in [Scripts -> Keys]
  BY DEF ScriptKey, Keys, Scripts, KeyOf

LEMMA DeclaredFacts ==
  ASSUME NEW p \in Nat, NEW scripts \in ScriptTable, NEW declared \in Seq(Hook),
         \A i, j \in 1..Len(declared) : declared[i] = declared[j] => i = j
  PROVE  /\ Declared(p, scripts, declared) \in Seq(Scripts)
         /\ ToSet(Declared(p, scripts, declared)) = Declares(p, scripts, ToSet(declared))
         /\ DistinctKeys(ScriptKey, Declared(p, scripts, declared))
<1> DEFINE One(i) == IF Runs(scripts, declared[i])
                     THEN << Script(p, declared[i], scripts[declared[i]]) >> ELSE <<>>
           parts == [i \in DOMAIN declared |-> One(i)]
<1>1. Len(declared) \in Nat /\ DOMAIN declared = 1..Len(declared)
      /\ \A i \in 1..Len(declared) : declared[i] \in Hook
  BY LenProperties, ElementOfSeq
<1>2. \A h \in Hook : Script(p, h, scripts[h]) \in Scripts
  BY DEF Script, Scripts, ScriptTable
<1>3. \A i \in 1..Len(declared) :
        /\ One(i) \in Seq(Scripts)
        /\ ToSet(One(i)) = IF Runs(scripts, declared[i])
                           THEN {Script(p, declared[i], scripts[declared[i]])} ELSE {}
        /\ Runs(scripts, declared[i]) => DOMAIN One(i) = {1}
        /\ ~Runs(scripts, declared[i]) => DOMAIN One(i) = {}
  BY <1>1, <1>2 DEF ToSet
<1>4. parts \in Seq(Seq(Scripts)) /\ Len(parts) = Len(declared)
      /\ \A i \in 1..Len(declared) : parts[i] = One(i)
  <2> HIDE DEF One
  <2>1. parts \in [1..Len(declared) -> Seq(Scripts)]
    BY <1>1, <1>3
  <2> QED BY <2>1, <1>1
<1>5. Declared(p, scripts, declared) = FlattenSeq(parts)
  BY DEF Declared
<1> HIDE DEF One, parts
<1>6. /\ FlattenSeq(parts) \in Seq(Scripts)
      /\ ToSet(FlattenSeq(parts)) = UNION {ToSet(parts[k]) : k \in 1..Len(parts)}
  BY <1>4, FlattenRange
<1>7. ToSet(FlattenSeq(parts)) = Declares(p, scripts, ToSet(declared))
  <2>1. ASSUME NEW x
        PROVE  x \in ToSet(FlattenSeq(parts)) <=> \E k \in 1..Len(declared) : x \in ToSet(One(k))
    <3>1. \A k \in 1..Len(declared) : ToSet(parts[k]) = ToSet(One(k))
      BY <1>4
    <3>2. x \in ToSet(FlattenSeq(parts)) <=> \E k \in 1..Len(declared) : x \in ToSet(parts[k])
      BY <1>4, <1>6
    <3> QED BY <3>1, <3>2
  <2>2. ASSUME NEW x, NEW k \in 1..Len(declared), x \in ToSet(One(k))
        PROVE  x \in Declares(p, scripts, ToSet(declared))
    <3>1. declared[k] \in ToSet(declared)
      BY <1>1 DEF ToSet
    <3>2. Runs(scripts, declared[k]) /\ x = Script(p, declared[k], scripts[declared[k]])
      BY <1>3, <2>2
    <3> QED BY <3>1, <3>2 DEF Declares
  <2>3. ASSUME NEW x \in Declares(p, scripts, ToSet(declared))
        PROVE  \E k \in 1..Len(declared) : x \in ToSet(One(k))
    <3>1. PICK h \in ToSet(declared) : Runs(scripts, h) /\ x = Script(p, h, scripts[h])
      BY DEF Declares
    <3>2. PICK k \in 1..Len(declared) : h = declared[k]
      BY <1>1 DEF ToSet
    <3> QED BY <3>1, <3>2, <1>3
  <2> QED BY <2>1, <2>2, <2>3
<1>8. \A k \in 1..Len(parts) : DistinctKeys(ScriptKey, parts[k])
  BY <1>3, <1>4 DEF DistinctKeys
<1>9. ASSUME NEW k \in 1..Len(parts), NEW l \in 1..Len(parts), k # l,
             NEW a \in ToSet(parts[k]), NEW b \in ToSet(parts[l])
      PROVE  ScriptKey[a] # ScriptKey[b]
  <2>1. a = Script(p, declared[k], scripts[declared[k]]) /\ b = Script(p, declared[l], scripts[declared[l]])
    BY <1>3, <1>4
  <2>2. declared[k] # declared[l] /\ a \in Scripts /\ b \in Scripts
    BY <1>1, <1>2, <1>4, <1>9, <2>1
  <2> QED BY <2>1, <2>2 DEF ScriptKey, KeyOf, Script
<1>10. DistinctKeys(ScriptKey, FlattenSeq(parts))
  BY <1>4, <1>8, <1>9, ScriptKeyType, FlattenDistinct
<1> QED BY <1>5, <1>6, <1>7, <1>10

(* A manifest that is read contributes its own scripts, any other nothing. *)
DependencySet(m) ==
  IF Read(m) THEN Declares(Name(m), m.scripts, Hook \ {"prepare"}) ELSE {}

LEMMA NameType ==
  ASSUME NEW m \in Manifests
  PROVE  Name(m) \in Nat \ {ROOT_LABEL} /\ m.scripts \in ScriptTable
  BY DEF Manifests, Name, ROOT_LABEL

LEMMA DependencyFacts ==
  ASSUME NEW m \in Manifests
  PROVE  /\ DependencyScripts(m) \in Seq(Scripts)
         /\ ToSet(DependencyScripts(m)) = DependencySet(m)
         /\ DistinctKeys(ScriptKey, DependencyScripts(m))
<1>1. CASE Read(m)
  <2>1. DependencyScripts(m) = Declared(Name(m), m.scripts, DEPENDENCY_HOOKS)
    BY <1>1 DEF DependencyScripts
  <2>2. Name(m) \in Nat /\ m.scripts \in ScriptTable
    BY NameType
  <2>3. DependencySet(m) = Declares(Name(m), m.scripts, ToSet(DEPENDENCY_HOOKS))
    BY <1>1, HookNames DEF DependencySet
  <2>4. \A i, j \in 1..Len(DEPENDENCY_HOOKS) :
          DEPENDENCY_HOOKS[i] = DEPENDENCY_HOOKS[j] => i = j
    BY HookNames, HookListsAreDistinct
  <2>5. DEPENDENCY_HOOKS \in Seq(Hook)
    BY HookNames
  <2>6. LET d == Declared(Name(m), m.scripts, DEPENDENCY_HOOKS) IN
        /\ d \in Seq(Scripts)
        /\ ToSet(d) = Declares(Name(m), m.scripts, ToSet(DEPENDENCY_HOOKS))
        /\ DistinctKeys(ScriptKey, d)
    BY <2>2, <2>4, <2>5, DeclaredFacts
  <2> QED BY <2>1, <2>3, <2>6
<1>2. CASE ~Read(m)
  <2>1. DependencyScripts(m) = <<>>
    BY <1>2 DEF DependencyScripts
  <2>2. <<>> \in Seq(Scripts) /\ DOMAIN <<>> = {}
    OBVIOUS
  <2> QED BY <1>2, <2>1, <2>2 DEF DependencySet, ToSet, DistinctKeys
<1> QED BY <1>1, <1>2

-----------------------------------------------------------------------------
(* Sorting.  Position(s, i) counts the predecessors of i in a strict total *)
(* order, so it takes every value below Len(s) exactly once.               *)
Precedes(s, j, i) ==
  \/ Before(s[j], s[i])
  \/ ~Before(s[i], s[j]) /\ j < i
Predecessors(s, i) == {j \in DOMAIN s : Precedes(s, j, i)}

LEMMA BeforeIsAnOrder ==
  /\ \A a \in Scripts : ~Before(a, a)
  /\ \A a, b \in Scripts : Before(a, b) => ~Before(b, a)
  /\ \A a, b, c \in Scripts : Before(a, b) /\ ~Before(c, b) => Before(a, c)
  /\ \A a, b, c \in Scripts : ~Before(b, a) /\ Before(b, c) => Before(a, c)
  /\ \A a, b, c \in Scripts : ~Before(b, a) /\ ~Before(c, b) => ~Before(c, a)
<1>1. \A h \in Hook : Alphabetical[h] \in Int
  BY HookNames DEF Alphabetical
<1>2. \A a \in Scripts : a.package \in Int /\ Alphabetical[a.hook] \in Int
  BY <1>1 DEF Scripts
<1> QED BY <1>2 DEF Before

LEMMA KeysDecideOrder ==
  ASSUME NEW a \in Scripts, NEW b \in Scripts, ScriptKey[a] # ScriptKey[b]
  PROVE  Before(a, b) \/ Before(b, a)
<1>1. \A h \in Hook : Alphabetical[h] \in Int
  BY HookNames DEF Alphabetical
<1>2. \A g, h \in Hook : Alphabetical[g] = Alphabetical[h] => g = h
  BY HookNames DEF Alphabetical
<1>3. a.package # b.package \/ a.hook # b.hook
  BY DEF ScriptKey, KeyOf
<1>4. a.package \in Int /\ b.package \in Int /\ a.hook \in Hook /\ b.hook \in Hook
  BY DEF Scripts
<1> QED BY <1>1, <1>2, <1>3, <1>4 DEF Before

LEMMA PrecedesIsTotal ==
  ASSUME NEW s \in Seq(Scripts)
  PROVE  /\ \A i \in DOMAIN s : ~Precedes(s, i, i)
         /\ \A i, j \in DOMAIN s : i # j => Precedes(s, i, j) \/ Precedes(s, j, i)
         /\ \A i, j, k \in DOMAIN s : Precedes(s, i, j) /\ Precedes(s, j, k) => Precedes(s, i, k)
<1>1. DOMAIN s \subseteq Int /\ \A i \in DOMAIN s : s[i] \in Scripts
  BY LenProperties, ElementOfSeq
<1> QED BY <1>1, BeforeIsAnOrder DEF Precedes

LEMMA PositionFacts ==
  ASSUME NEW s \in Seq(Scripts)
  PROVE  /\ \A i \in DOMAIN s : Position(s, i) \in 0..(Len(s) - 1)
         /\ \A i, j \in DOMAIN s : Position(s, i) = Position(s, j) => i = j
         /\ \A k \in DOMAIN s : \E i \in DOMAIN s : Position(s, i) = k - 1
<1>1. Len(s) \in Nat /\ DOMAIN s = 1..Len(s)
  BY LenProperties
<1>2. IsFiniteSet(DOMAIN s) /\ Cardinality(DOMAIN s) = Len(s)
  BY PositionsAreFinite
<1>3. \A i \in DOMAIN s : Position(s, i) = Cardinality(Predecessors(s, i))
  BY DEF Position, Predecessors, Precedes
<1>4. ASSUME NEW i \in DOMAIN s
      PROVE  IsFiniteSet(Predecessors(s, i)) /\ Position(s, i) \in 0..(Len(s) - 1)
  <2>1. Predecessors(s, i) \in SUBSET (DOMAIN s) /\ i \notin Predecessors(s, i)
    BY PrecedesIsTotal DEF Predecessors
  <2>2. /\ IsFiniteSet(Predecessors(s, i))
        /\ Cardinality(Predecessors(s, i)) <= Cardinality(DOMAIN s)
        /\ Cardinality(DOMAIN s) = Cardinality(Predecessors(s, i)) => DOMAIN s = Predecessors(s, i)
    BY <2>1, <1>2, FS_Subset
  <2>3. Cardinality(Predecessors(s, i)) \in Nat
    BY <2>2, FS_CardinalityType
  <2> QED BY <2>1, <2>2, <2>3, <1>1, <1>2, <1>3
<1>5. ASSUME NEW i \in DOMAIN s, NEW j \in DOMAIN s, Precedes(s, i, j)
      PROVE  Position(s, i) # Position(s, j)
  <2>1. Predecessors(s, i) \in SUBSET Predecessors(s, j)
    BY <1>5, PrecedesIsTotal DEF Predecessors
  <2>2. i \in Predecessors(s, j) /\ i \notin Predecessors(s, i)
    BY <1>5, PrecedesIsTotal DEF Predecessors
  <2>3. Cardinality(Predecessors(s, j)) = Cardinality(Predecessors(s, i))
          => Predecessors(s, j) = Predecessors(s, i)
    BY <2>1, <1>4, FS_Subset
  <2> QED BY <2>2, <2>3, <1>3
<1>6. \A i, j \in DOMAIN s : Position(s, i) = Position(s, j) => i = j
  BY <1>5, PrecedesIsTotal
<1>7. ASSUME NEW k \in DOMAIN s PROVE \E i \in DOMAIN s : Position(s, i) = k - 1
  <2> DEFINE P == 0..(Len(s) - 1)
             f == [i \in DOMAIN s |-> Position(s, i)]
  <2>1. f \in Injection(DOMAIN s, P)
    BY <1>4, <1>6 DEF Injection, IsInjective
  <2>2. IsFiniteSet(P) /\ Cardinality(P) = Len(s)
    <3>1. /\ IsFiniteSet(0..(Len(s) - 1))
          /\ Cardinality(0..(Len(s) - 1)) =
               IF 0 > Len(s) - 1 THEN 0 ELSE (Len(s) - 1) - 0 + 1
      <4>1. 0 \in Int /\ Len(s) - 1 \in Int
        BY <1>1
      <4> QED BY <4>1, FS_Interval
    <3> QED BY <3>1, <1>1
  <2>3. f \in Surjection(DOMAIN s, P)
    <3> HIDE DEF f, P
    <3> QED BY <2>1, <2>2, <1>2, FS_Injection
  <2>4. k - 1 \in P
    BY <1>1
  <2>5. PICK i \in DOMAIN s : f[i] = k - 1
    <3> HIDE DEF f, P
    <3> QED BY <2>3, <2>4 DEF Surjection
  <2> QED BY <2>5
<1> QED BY <1>4, <1>6, <1>7

(* Sorting moves scripts about and does nothing else.                      *)
LEMMA SortedFacts ==
  ASSUME NEW s \in Seq(Scripts)
  PROVE  /\ SortedScripts(s) \in Seq(Scripts)
         /\ Len(SortedScripts(s)) = Len(s)
         /\ ToSet(SortedScripts(s)) = ToSet(s)
         /\ DistinctKeys(ScriptKey, s) => DistinctKeys(ScriptKey, SortedScripts(s))
         /\ \A i \in DOMAIN s, k \in DOMAIN s :
              Position(s, i) = k - 1 => SortedScripts(s)[k] = s[i]
<1> DEFINE from(k) == CHOOSE i \in DOMAIN s : Position(s, i) = k - 1
<1>1. Len(s) \in Nat /\ DOMAIN s = 1..Len(s) /\ \A i \in DOMAIN s : s[i] \in Scripts
  BY LenProperties, ElementOfSeq
<1>2. \A k \in DOMAIN s : from(k) \in DOMAIN s /\ Position(s, from(k)) = k - 1
  BY PositionFacts
<1>3. SortedScripts(s) = [k \in DOMAIN s |-> s[from(k)]]
  BY DEF SortedScripts
<1> HIDE DEF from
<1>4. \A i \in DOMAIN s : \E k \in DOMAIN s : from(k) = i
  <2>1. ASSUME NEW i \in DOMAIN s
        PROVE  Position(s, i) + 1 \in DOMAIN s /\ from(Position(s, i) + 1) = i
    <3>1. Position(s, i) \in 0..(Len(s) - 1)
      BY PositionFacts
    <3>2. Position(s, i) + 1 \in DOMAIN s /\ (Position(s, i) + 1) - 1 = Position(s, i)
      BY <3>1, <1>1
    <3> QED BY <3>2, <1>2, PositionFacts
  <2> QED BY <2>1
<1>5. SortedScripts(s) \in [1..Len(s) -> Scripts]
  BY <1>1, <1>2, <1>3
<1>6. SortedScripts(s) \in Seq(Scripts) /\ Len(SortedScripts(s)) = Len(s)
  BY <1>1, <1>5
<1>7. \A k \in DOMAIN s : SortedScripts(s)[k] = s[from(k)]
  BY <1>3
<1>8. DOMAIN SortedScripts(s) = DOMAIN s
  BY <1>3
<1>9. ToSet(SortedScripts(s)) = ToSet(s)
  BY <1>2, <1>4, <1>7, <1>8 DEF ToSet
<1>10. \A k, l \in DOMAIN s : from(k) = from(l) => k = l
  BY <1>1, <1>2
<1>11. DistinctKeys(ScriptKey, s) => DistinctKeys(ScriptKey, SortedScripts(s))
  BY <1>2, <1>7, <1>8, <1>10 DEF DistinctKeys
<1>12. ASSUME NEW i \in DOMAIN s, NEW k \in DOMAIN s, Position(s, i) = k - 1
       PROVE  SortedScripts(s)[k] = s[i]
  BY <1>2, <1>7, <1>12, PositionFacts
<1> QED BY <1>6, <1>9, <1>11, <1>12

(* With distinct keys the sort does not depend on the order it is given.   *)
LEMMA SortIsStable ==
  ASSUME NEW s \in Seq(Scripts), NEW t \in Seq(Scripts),
         DistinctKeys(ScriptKey, s), DistinctKeys(ScriptKey, t), ToSet(s) = ToSet(t)
  PROVE  SortedScripts(s) = SortedScripts(t)
<1>1. /\ Len(s) \in Nat /\ DOMAIN s = 1..Len(s) /\ \A i \in DOMAIN s : s[i] \in Scripts
      /\ Len(t) \in Nat /\ DOMAIN t = 1..Len(t) /\ \A i \in DOMAIN t : t[i] \in Scripts
  BY LenProperties, ElementOfSeq
<1>2. \A i \in DOMAIN s : \E j \in DOMAIN t : t[j] = s[i]
  BY DEF ToSet
<1>3. \A j \in DOMAIN t : \E i \in DOMAIN s : t[j] = s[i]
  BY DEF ToSet
<1> DEFINE b == [i \in DOMAIN s |-> CHOOSE j \in DOMAIN t : t[j] = s[i]]
<1>4. \A i \in DOMAIN s : b[i] \in DOMAIN t /\ t[b[i]] = s[i]
  BY <1>2
<1>5. \A i, j \in DOMAIN s : s[i] = s[j] => i = j
  BY DEF DistinctKeys
<1>6. \A i, j \in DOMAIN t : t[i] = t[j] => i = j
  BY DEF DistinctKeys
<1>7. b \in [DOMAIN s -> DOMAIN t]
  BY <1>4
<1> HIDE DEF b
<1>8. \A i, j \in DOMAIN s : b[i] = b[j] => i = j
  BY <1>4, <1>5
<1>9. \A j \in DOMAIN t : \E i \in DOMAIN s : b[i] = j
  <2>1. SUFFICES ASSUME NEW j \in DOMAIN t PROVE \E i \in DOMAIN s : b[i] = j
    OBVIOUS
  <2>2. PICK i \in DOMAIN s : t[j] = s[i]
    BY <1>3
  <2>3. b[i] \in DOMAIN t /\ t[b[i]] = t[j]
    BY <1>4, <2>2
  <2> QED BY <1>6, <2>3
<1>10. Len(s) = Len(t)
  <2>1. b \in Bijection(DOMAIN s, DOMAIN t)
    BY <1>7, <1>8, <1>9 DEF Bijection, Injection, Surjection, IsInjective
  <2>2. IsFiniteSet(DOMAIN s) /\ Cardinality(DOMAIN s) = Len(s)
    BY PositionsAreFinite
  <2>3. Cardinality(DOMAIN t) = Len(t)
    BY PositionsAreFinite
  <2>4. Cardinality(DOMAIN t) = Cardinality(DOMAIN s)
    BY <2>1, <2>2, FS_Bijection DEF ExistsBijection
  <2> QED BY <2>2, <2>3, <2>4
<1>11. \A i, j \in DOMAIN s : Precedes(s, j, i) <=> Before(s[j], s[i])
  BY <1>1, KeysDecideOrder, BeforeIsAnOrder DEF Precedes, DistinctKeys
<1>12. \A i, j \in DOMAIN t : Precedes(t, j, i) <=> Before(t[j], t[i])
  BY <1>1, KeysDecideOrder, BeforeIsAnOrder DEF Precedes, DistinctKeys
<1>13. ASSUME NEW i \in DOMAIN s PROVE Position(s, i) = Position(t, b[i])
  <2> DEFINE P == Predecessors(s, i)
             Q == Predecessors(t, b[i])
             f == [j \in P |-> b[j]]
  <2>1. P = {j \in DOMAIN s : Before(s[j], s[i])} /\ Q = {j \in DOMAIN t : Before(t[j], s[i])}
    BY <1>4, <1>11, <1>12 DEF Predecessors
  <2>2. f \in [P -> Q]
    BY <2>1, <1>4
  <2>3. \A j, k \in P : f[j] = f[k] => j = k
    BY <2>1, <1>8
  <2>4. \A k \in Q : \E j \in P : f[j] = k
    <3>1. SUFFICES ASSUME NEW k \in Q PROVE \E j \in P : f[j] = k
      OBVIOUS
    <3>2. PICK j \in DOMAIN s : b[j] = k
      BY <2>1, <1>9
    <3>3. j \in P
      BY <2>1, <3>2, <1>4
    <3> QED BY <3>2, <3>3
  <2>5. f \in Bijection(P, Q)
    <3> HIDE DEF f, P, Q
    <3> QED BY <2>2, <2>3, <2>4 DEF Bijection, Injection, Surjection, IsInjective
  <2>6. IsFiniteSet(P)
    <3>1. IsFiniteSet(DOMAIN s) /\ P \in SUBSET (DOMAIN s)
      BY PositionsAreFinite DEF Predecessors
    <3> HIDE DEF P
    <3> QED BY <3>1, FS_Subset
  <2>7. Cardinality(P) = Cardinality(Q)
    <3> HIDE DEF f, P, Q
    <3> QED BY <2>5, <2>6, FS_Bijection DEF ExistsBijection
  <2> QED BY <2>7, <1>4 DEF Position, Predecessors, Precedes
<1>14. ASSUME NEW k \in 1..Len(s) PROVE SortedScripts(s)[k] = SortedScripts(t)[k]
  <2>1. PICK i \in DOMAIN s : Position(s, i) = k - 1
    BY <1>1, PositionFacts
  <2>2. SortedScripts(s)[k] = s[i]
    BY <2>1, <1>1, SortedFacts
  <2>3. SortedScripts(t)[k] = t[b[i]]
    <3>1. b[i] \in DOMAIN t /\ k \in DOMAIN t /\ Position(t, b[i]) = k - 1
      BY <2>1, <1>1, <1>4, <1>10, <1>13
    <3> QED BY <3>1, SortedFacts
  <2> QED BY <2>2, <2>3, <1>4
<1>15. /\ SortedScripts(s) \in Seq(Scripts) /\ SortedScripts(t) \in Seq(Scripts)
       /\ Len(SortedScripts(s)) = Len(s) /\ Len(SortedScripts(t)) = Len(s)
  BY <1>10, SortedFacts
<1> QED BY <1>14, <1>15, SeqEqual

-----------------------------------------------------------------------------
(* A package tree. *)
Dependencies(found) == FlattenSeq([i \in DOMAIN found |-> DependencyScripts(found[i])])

DistinctNames(found) ==
  \A i, j \in DOMAIN found :
    Read(found[i]) /\ Read(found[j]) /\ Name(found[i]) = Name(found[j]) => i = j

LEMMA FoundFacts ==
  ASSUME NEW found \in Seq(Manifests)
  PROVE  /\ Dependencies(found) \in Seq(Scripts)
         /\ ToSet(Dependencies(found)) = UNION {DependencySet(m) : m \in ToSet(found)}
         /\ \A s \in ToSet(Dependencies(found)) : s.package # ROOT_LABEL
         /\ DistinctNames(found) => DistinctKeys(ScriptKey, Dependencies(found))
<1> DEFINE parts == [i \in DOMAIN found |-> DependencyScripts(found[i])]
<1>1. /\ Len(found) \in Nat /\ DOMAIN found = 1..Len(found)
      /\ \A i \in DOMAIN found : found[i] \in Manifests
  BY LenProperties, ElementOfSeq
<1>2. /\ parts \in Seq(Seq(Scripts)) /\ Len(parts) = Len(found)
      /\ \A i \in 1..Len(found) : parts[i] = DependencyScripts(found[i])
  <2>1. parts \in [1..Len(found) -> Seq(Scripts)]
    BY <1>1, DependencyFacts
  <2> QED BY <2>1, <1>1
<1>3. Dependencies(found) = FlattenSeq(parts)
  BY DEF Dependencies
<1> HIDE DEF parts
<1>4. \A i \in 1..Len(found) :
        /\ ToSet(parts[i]) = DependencySet(found[i])
        /\ DistinctKeys(ScriptKey, parts[i])
  BY <1>1, <1>2, DependencyFacts
<1>5. /\ FlattenSeq(parts) \in Seq(Scripts)
      /\ ToSet(FlattenSeq(parts)) = UNION {ToSet(parts[k]) : k \in 1..Len(parts)}
  BY <1>2, FlattenRange
<1>6. ToSet(FlattenSeq(parts)) = UNION {DependencySet(m) : m \in ToSet(found)}
  <2>1. \A x : x \in ToSet(FlattenSeq(parts))
                 <=> \E k \in 1..Len(found) : x \in DependencySet(found[k])
    BY <1>2, <1>4, <1>5
  <2>2. ToSet(found) = {found[k] : k \in 1..Len(found)}
    BY <1>1 DEF ToSet
  <2> QED BY <2>1, <2>2
<1>7. ASSUME NEW m \in Manifests, NEW s \in DependencySet(m)
      PROVE  s \in Scripts /\ s.package = Name(m) /\ s.package # ROOT_LABEL /\ Read(m)
  <2>1. Read(m)
    BY DEF DependencySet
  <2>2. PICK h \in Hook : s = Script(Name(m), h, m.scripts[h])
    BY <2>1 DEF DependencySet, Declares
  <2> QED BY <2>1, <2>2, NameType DEF Script, Scripts, ScriptTable
<1>8. \A s \in ToSet(FlattenSeq(parts)) : s.package # ROOT_LABEL
  <2>1. \A m \in ToSet(found) : m \in Manifests
    BY <1>1 DEF ToSet
  <2> QED BY <2>1, <1>6, <1>7
<1>9. ASSUME DistinctNames(found) PROVE DistinctKeys(ScriptKey, FlattenSeq(parts))
  <2>1. ASSUME NEW k \in 1..Len(parts), NEW l \in 1..Len(parts), k # l,
               NEW a \in ToSet(parts[k]), NEW b \in ToSet(parts[l])
        PROVE  ScriptKey[a] # ScriptKey[b]
    <3>1. k \in DOMAIN found /\ l \in DOMAIN found
          /\ a \in DependencySet(found[k]) /\ b \in DependencySet(found[l])
      BY <1>1, <1>2, <1>4
    <3>2. /\ a \in Scripts /\ a.package = Name(found[k]) /\ Read(found[k])
          /\ b \in Scripts /\ b.package = Name(found[l]) /\ Read(found[l])
      BY <3>1, <1>1, <1>7
    <3>3. Name(found[k]) # Name(found[l])
      BY <1>9, <2>1, <3>1, <3>2 DEF DistinctNames
    <3> QED BY <3>2, <3>3 DEF ScriptKey, KeyOf
  <2> QED BY <1>2, <1>4, <2>1, ScriptKeyType, FlattenDistinct
<1> QED BY <1>3, <1>5, <1>6, <1>8, <1>9

IsTree(tree) == tree.scripts \in ScriptTable /\ tree.found \in Seq(Manifests)

(* The hooks that are enumerated are those npm runs, for any tree.         *)
LEMMA EnumerateFacts ==
  ASSUME NEW tree, IsTree(tree)
  PROVE  /\ enumerate_install_scripts(tree) \in Seq(Scripts)
         /\ ToSet(enumerate_install_scripts(tree)) = NpmRuns(tree)
         /\ UniqueNames(tree) => DistinctKeys(ScriptKey, enumerate_install_scripts(tree))
<1> DEFINE own == Declared(ROOT_LABEL, tree.scripts, ROOT_HOOKS)
           others == SortedScripts(Dependencies(tree.found))
<1>1. enumerate_install_scripts(tree) = own \o others
  BY DEF enumerate_install_scripts, Dependencies
<1>2. /\ own \in Seq(Scripts)
      /\ ToSet(own) = Declares(ROOT_LABEL, tree.scripts, Hook)
      /\ DistinctKeys(ScriptKey, own)
  <2>1. /\ ROOT_HOOKS \in Seq(Hook) /\ ToSet(ROOT_HOOKS) = Hook /\ ROOT_LABEL \in Nat
        /\ \A i, j \in 1..Len(ROOT_HOOKS) : ROOT_HOOKS[i] = ROOT_HOOKS[j] => i = j
    <3>1. ToSet(ROOT_HOOKS) = Hook
      BY DEF Hook
    <3> QED BY <3>1, HookNames, HookListsAreDistinct DEF ROOT_LABEL
  <2> QED BY <2>1, DeclaredFacts DEF IsTree
<1>3. /\ others \in Seq(Scripts)
      /\ ToSet(others) = UNION {DependencySet(m) : m \in ToSet(tree.found)}
      /\ \A s \in ToSet(others) : s.package # ROOT_LABEL
      /\ DistinctNames(tree.found) => DistinctKeys(ScriptKey, others)
  BY FoundFacts, SortedFacts DEF IsTree
<1> HIDE DEF own, others
<1>4. own \o others \in Seq(Scripts) /\ ToSet(own \o others) = ToSet(own) \cup ToSet(others)
  BY <1>2, <1>3, ToSetConcat
<1>5. NpmRuns(tree) = Declares(ROOT_LABEL, tree.scripts, Hook)
                        \cup UNION {DependencySet(m) : m \in ToSet(tree.found)}
  <2> DEFINE Of(m) == {Script(Name(m), h, m.scripts[h]) :
                         h \in {g \in Hook \ {"prepare"} : Runs(m.scripts, g)}}
  <2>1. \A m \in ToSet(tree.found) : DependencySet(m) = IF Read(m) THEN Of(m) ELSE {}
    BY DEF DependencySet, Declares
  <2>2. NpmRuns(tree) = Declares(ROOT_LABEL, tree.scripts, Hook)
                          \cup UNION {Of(m) : m \in {n \in ToSet(tree.found) : Read(n)}}
    BY DEF NpmRuns, Declares
  <2> HIDE DEF Of
  <2> QED BY <2>1, <2>2
<1>6. ASSUME UniqueNames(tree) PROVE DistinctKeys(ScriptKey, own \o others)
  <2>1. DistinctKeys(ScriptKey, others)
    BY <1>3, <1>6 DEF UniqueNames, DistinctNames
  <2>2. ASSUME NEW a \in ToSet(own), NEW b \in ToSet(others)
        PROVE  ScriptKey[a] # ScriptKey[b]
    <3>1. a.package = ROOT_LABEL
      BY <1>2 DEF Declares, Script
    <3>2. b.package # ROOT_LABEL
      BY <1>3
    <3>3. a \in Scripts /\ b \in Scripts
      BY <1>2, <1>3, ElementOfSeq DEF ToSet
    <3> QED BY <3>1, <3>2, <3>3 DEF ScriptKey, KeyOf
  <2> QED BY <1>2, <1>3, <2>1, <2>2, ScriptKeyType, ConcatDistinct
<1> QED BY <1>1, <1>2, <1>3, <1>4, <1>5, <1>6

(* Any two listings of the same manifests are enumerated alike.            *)
LEMMA ListedFacts ==
  ASSUME NEW found \in Seq(Manifests), NEW order \in Orders(found)
  PROVE  /\ Listed(found, order) \in Seq(Manifests)
         /\ ToSet(Listed(found, order)) = ToSet(found)
         /\ DistinctNames(found) => DistinctNames(Listed(found, order))
<1> DEFINE n == Len(found)
<1>1. /\ n \in Nat /\ DOMAIN found = 1..n
      /\ \A i \in 1..n : found[i] \in Manifests
  BY LenProperties, ElementOfSeq
<1>2. /\ order \in [1..n -> 1..n]
      /\ \A i, j \in 1..n : order[i] = order[j] => i = j
      /\ \A i \in 1..n : \E j \in 1..n : order[j] = i
  BY <1>1 DEF Orders, Bijection, Injection, Surjection, IsInjective
<1>3. /\ DOMAIN Listed(found, order) = 1..n
      /\ \A i \in 1..n : Listed(found, order)[i] = found[order[i]] /\ order[i] \in 1..n
  BY <1>1, <1>2 DEF Listed
<1>4. Listed(found, order) \in Seq(Manifests)
  <2>1. Listed(found, order) \in [1..n -> Manifests]
    BY <1>1, <1>2 DEF Listed
  <2> HIDE DEF n
  <2> QED BY <2>1, <1>1
<1> HIDE DEF n
<1>5. ToSet(Listed(found, order)) = ToSet(found)
  BY <1>1, <1>2, <1>3 DEF ToSet
<1>6. ASSUME DistinctNames(found) PROVE DistinctNames(Listed(found, order))
  <2>1. SUFFICES ASSUME NEW i \in 1..n, NEW j \in 1..n,
                        Read(Listed(found, order)[i]), Read(Listed(found, order)[j]),
                        Name(Listed(found, order)[i]) = Name(Listed(found, order)[j])
                 PROVE  i = j
    BY <1>3 DEF DistinctNames
  <2>2. order[i] = order[j]
    BY <1>1, <1>3, <1>6, <2>1 DEF DistinctNames
  <2> QED BY <1>2, <2>2
<1> QED BY <1>4, <1>5, <1>6

LEMMA ListingOrderIsIrrelevant ==
  ASSUME NEW tree, NEW other, IsTree(tree), IsTree(other), other.scripts = tree.scripts,
         ToSet(other.found) = ToSet(tree.found),
         DistinctNames(tree.found), DistinctNames(other.found)
  PROVE  enumerate_install_scripts(tree) = enumerate_install_scripts(other)
<1>1. SortedScripts(Dependencies(tree.found)) = SortedScripts(Dependencies(other.found))
  <2>1. /\ Dependencies(tree.found) \in Seq(Scripts)
        /\ Dependencies(other.found) \in Seq(Scripts)
        /\ DistinctKeys(ScriptKey, Dependencies(tree.found))
        /\ DistinctKeys(ScriptKey, Dependencies(other.found))
    BY FoundFacts DEF IsTree
  <2>2. ToSet(Dependencies(tree.found)) = ToSet(Dependencies(other.found))
    <3>1. ToSet(Dependencies(tree.found)) = UNION {DependencySet(m) : m \in ToSet(tree.found)}
      BY FoundFacts DEF IsTree
    <3>2. ToSet(Dependencies(other.found)) = UNION {DependencySet(m) : m \in ToSet(other.found)}
      BY FoundFacts DEF IsTree
    <3> QED BY <3>1, <3>2
  <2> QED BY <2>1, <2>2, SortIsStable
<1> QED BY <1>1 DEF enumerate_install_scripts, Dependencies

(* With distinct names, no entry of the dict is overwritten.               *)
LEMMA DeclaredScriptsFacts ==
  ASSUME NEW tree, IsTree(tree), UniqueNames(tree)
  PROVE  LET declared == declared_scripts(tree) IN
         {<<KeyOf(s), s.command>> : s \in NpmRuns(tree)}
           = {<<k, declared[k]>> : k \in DOMAIN declared}
<1> DEFINE all == enumerate_install_scripts(tree)
           Of(key) == {i \in DOMAIN all : KeyOf(all[i]) = key}
           D == declared_scripts(tree)
<1>1. all \in Seq(Scripts) /\ ToSet(all) = NpmRuns(tree) /\ DistinctKeys(ScriptKey, all)
  BY EnumerateFacts
<1>2. D = [key \in {KeyOf(all[i]) : i \in DOMAIN all} |-> all[Max(Of(key))].command]
  BY DEF declared_scripts
<1> HIDE DEF all, D
<1>3. DOMAIN all \subseteq Nat /\ \A i \in DOMAIN all : all[i] \in Scripts
  BY <1>1, LenProperties, ElementOfSeq
<1>4. ASSUME NEW i \in DOMAIN all PROVE Max(Of(KeyOf(all[i]))) = i
  <2>1. Of(KeyOf(all[i])) = {i}
    BY <1>1, <1>3 DEF DistinctKeys, ScriptKey
  <2>2. \A n \in Nat : Max({n}) = n
    BY DEF Max
  <2> HIDE DEF Of
  <2> QED BY <2>1, <2>2, <1>3
<1>5. DOMAIN D = {KeyOf(all[i]) : i \in DOMAIN all}
  <2> HIDE DEF Of
  <2> QED BY <1>2
<1>6. \A i \in DOMAIN all : D[KeyOf(all[i])] = all[i].command
  <2> HIDE DEF Of
  <2> QED BY <1>2, <1>4
<1>7. NpmRuns(tree) = {all[i] : i \in DOMAIN all}
  BY <1>1 DEF ToSet
<1>8. {<<KeyOf(s), s.command>> : s \in NpmRuns(tree)}
        = {<<KeyOf(all[i]), all[i].command>> : i \in DOMAIN all}
  BY <1>7
<1>9. {<<k, D[k]>> : k \in DOMAIN D} = {<<KeyOf(all[i]), all[i].command>> : i \in DOMAIN all}
  BY <1>5, <1>6
<1> QED BY <1>8, <1>9 DEF D

-----------------------------------------------------------------------------
(* The inductive invariant. *)

Entries == {Absent} \cup {Entry(kind, of) : kind \in Kinds, of \in Roots \cup {Written}}

ScanTypeOK ==
  /\ package \in [Roots -> Packages]
  /\ modules \in SUBSET Roots
  /\ staged \in [FileNames -> Entries]
  /\ link \in Roots \cup {NoRoot, Written}
  /\ log \in Seq(Nat)
  /\ scan \in Nat
  /\ at \in {"idle", "stage", "hooks", "tools"}
  /\ hooks \in Seq(Scripts)
  /\ cursor \in Nat
  /\ fresh \in BOOLEAN

(* What a scan that is under way knows of its package root.                *)
RootInv ==
  at # "idle" =>
    /\ root \in Roots
    /\ todo \subseteq DOMAIN package[root].entries
    /\ at # "stage" => todo = {}

(* Files that have been copied are the root's own, or rewritten since.     *)
CopiedInv ==
  at # "idle" =>
    \A f \in DOMAIN package[root].entries \ todo :
      staged[f].kind = "file" => staged[f].of \in {root, Written}

(* From the baseline on, every line that is still unread is of this scan.  *)
LinesInv ==
  /\ at \in {"stage", "hooks"} => toolLines = {}
  /\ at = "tools" =>
       /\ hooks = <<>>
       /\ toolLines \subseteq {scan}
       /\ \A i \in (cursor + 1)..Len(log) : log[i] = scan

(* While a new directory is staged nobody else is at work in it; then the  *)
(* hooks are those of the root's own tree, whatever the package does.      *)
StageInv ==
  /\ \A f \in FileNames : staged[f] =
       IF f \in DOMAIN package[root].entries \ todo THEN Own(f) ELSE Absent
  /\ link = NoRoot /\ ran = {}

HooksInv ==
  /\ \A f \in FileNames :
       \/ staged[f] = Absent \/ staged[f].of = Written
       \/ f \in DOMAIN package[root].entries /\ staged[f] = Own(f)
  /\ link \in {IF root \in modules THEN root ELSE NoRoot, NoRoot, Written}
  /\ ran \cup ToSet(hooks) \subseteq NpmRuns(OwnTree)
  /\ Untouched => ran \cup ToSet(hooks) = NpmRuns(OwnTree)

FreshInv ==
  /\ scan = 0 => fresh
  /\ fresh =>
       /\ scan \in {0, 1}
       /\ scan = 0 => /\ at = "idle"
                      /\ \A f \in FileNames : staged[f] = Absent
                      /\ link = NoRoot
                      /\ log = <<>>
       /\ at # "idle" =>
            /\ \A i \in 1..Len(log) : log[i] = scan
            /\ hookLines \cup toolLines \subseteq {scan}
       /\ at = "stage" => StageInv
       /\ at \in {"hooks", "tools"} => HooksInv

ScanInv == ScanTypeOK /\ RootInv /\ CopiedInv /\ LinesInv /\ FreshInv

LEMMA OwnTreeIsATree ==
  ASSUME ScanTypeOK, root \in Roots
  PROVE  IsTree(OwnTree)
<1>1. package[root] \in Packages
  BY DEF ScanTypeOK
<1>2. package[root].scripts \in ScriptTable /\ package[root].found \in Seq(Manifests)
  BY <1>1, PackageType
<1>3. OwnTree.scripts = package[root].scripts
      /\ OwnTree.found = IF root \in modules THEN package[root].found ELSE <<>>
  BY DEF OwnTree
<1>4. <<>> \in Seq(Manifests)
  OBVIOUS
<1> QED BY <1>2, <1>3, <1>4 DEF IsTree

(* The entries of a root are names of files.                               *)
LEMMA EntriesHaveNames ==
  ASSUME ScanTypeOK, NEW r \in Roots
  PROVE  /\ package[r] \in Packages
         /\ DOMAIN package[r].entries \subseteq FileNames
         /\ \A f \in DOMAIN package[r].entries : package[r].entries[f] \in Kinds
         /\ MANIFEST \in DOMAIN package[r].entries /\ package[r].entries[MANIFEST] = "file"
<1>1. package[r] \in Packages
  BY DEF ScanTypeOK
<1>2. DOMAIN package[r].entries \subseteq FileNames
  BY <1>1 DEF FileNames
<1> QED BY <1>1, <1>2, PackageType

LEMMA EntryFacts ==
  ASSUME NEW kind, NEW of
  PROVE  Entry(kind, of).kind = kind /\ Entry(kind, of).of = of
  BY DEF Entry

LEMMA AbsentFacts == Absent.kind = "absent" /\ Absent.of = NoRoot /\ "absent" \notin Kinds
  BY DEF Absent, Kinds

LEMMA OwnFacts ==
  ASSUME ScanTypeOK, root \in Roots, NEW f \in DOMAIN package[root].entries
  PROVE  /\ Own(f) \in Entries /\ Own(f).of = root
         /\ Own(f).kind = package[root].entries[f] /\ Own(f) # Absent
         /\ f \in FileNames
<1>1. package[root].entries[f] \in Kinds /\ f \in FileNames
  BY EntriesHaveNames
<1>2. Own(f) = Entry(package[root].entries[f], root)
  BY DEF Own
<1>3. Own(f) \in Entries
  BY <1>1, <1>2 DEF Entries
<1>4. Own(f).of = root /\ Own(f).kind = package[root].entries[f]
  BY <1>2, EntryFacts
<1>5. Own(f) # Absent
  BY <1>1, <1>4, AbsentFacts
<1> QED BY <1>1, <1>3, <1>4, <1>5

LEMMA ScanStarts == ScanInit => ScanInv
<1> SUFFICES ASSUME ScanInit PROVE ScanInv
  OBVIOUS
<1>1. ScanTypeOK
  BY DEF ScanInit, ScanTypeOK, Entries
<1>2. RootInv /\ CopiedInv /\ LinesInv
  BY DEF ScanInit, RootInv, CopiedInv, LinesInv
<1>3. FreshInv
  BY DEF ScanInit, FreshInv
<1> QED BY <1>1, <1>2, <1>3 DEF ScanInv

LEMMA BeginScanKeeps ==
  ASSUME ScanInv, NEW r \in Roots, BeginScan(r)
  PROVE  ScanInv'
<1>1. ScanTypeOK'
  BY DEF ScanInv, ScanTypeOK, BeginScan, Go
<1>2. RootInv' /\ CopiedInv' /\ LinesInv'
  BY DEF ScanInv, ScanTypeOK, BeginScan, Go, RootInv, CopiedInv, LinesInv
<1>3. FreshInv'
  <2>1. ASSUME fresh' PROVE scan = 0 /\ fresh
    BY <2>1 DEF BeginScan, ScanInv, FreshInv
  <2>2. /\ UNCHANGED <<package, staged, link, log>> /\ scan' = scan + 1 /\ scan \in Nat
        /\ hookLines' = {} /\ toolLines' = {} /\ ran' = {} /\ at' = "stage" /\ root' = r
        /\ todo' = DOMAIN package[r].entries
    BY DEF BeginScan, Go, ScanInv, ScanTypeOK
  <2>3. ASSUME fresh'
        PROVE  /\ \A f \in FileNames : staged[f] = Absent
               /\ link = NoRoot /\ Len(log) = 0
    BY <2>1, <2>3 DEF ScanInv, FreshInv
  <2>4. ASSUME fresh' PROVE StageInv'
    BY <2>2, <2>3, <2>4 DEF StageInv
  <2> QED BY <2>1, <2>2, <2>3, <2>4 DEF FreshInv
<1> QED BY <1>1, <1>2, <1>3 DEF ScanInv

LEMMA CopyEntryKeeps ==
  ASSUME ScanInv, NEW f \in FileNames, CopyEntry(f)
  PROVE  ScanInv'
<1> DEFINE kind == package[root].entries[f]
           there == staged[f].kind
<1>1. /\ at = "stage" /\ at' = at /\ f \in todo /\ todo' = todo \ {f}
      /\ UNCHANGED <<package, modules, link, log, scan, root, hooks, cursor, ran,
                     hookLines, toolLines, fresh>>
      /\ \/ there \in {"absent", kind} /\ staged' = [staged EXCEPT ![f] = Own(f)]
         \/ there \notin {"absent", kind} /\ staged' = staged
         \/ /\ there = "link" /\ kind = "file"
            /\ \E g \in FileNames : staged' = [staged EXCEPT ![g] = Entry("file", Written)]
      /\ ~(kind = "dir" /\ there = "file") /\ ~(kind = "link" /\ there # "absent")
  BY DEF CopyEntry, InTheWay
<1>2. /\ ScanTypeOK /\ root \in Roots /\ f \in DOMAIN package[root].entries
      /\ staged \in [FileNames -> Entries]
  BY <1>1 DEF ScanInv, RootInv, ScanTypeOK
<1>3. /\ Own(f) \in Entries /\ Own(f).of = root /\ Own(f).kind = kind /\ kind \in Kinds
  BY <1>2, OwnFacts, EntriesHaveNames
<1>4. /\ Entry("file", Written) \in Entries /\ Entry("file", Written).of = Written
  BY EntryFacts DEF Entries, Kinds
<1> HIDE DEF kind, there
<1>5. ScanTypeOK'
  <2>1. staged' \in [FileNames -> Entries]
    BY <1>1, <1>2, <1>3, <1>4
  <2> QED BY <1>1, <1>2, <2>1 DEF ScanTypeOK
<1>6. RootInv' /\ LinesInv'
  BY <1>1 DEF ScanInv, RootInv, LinesInv
<1>7. CopiedInv'
  <2>1. SUFFICES ASSUME NEW h \in DOMAIN package[root].entries \ todo', staged'[h].kind = "file"
                 PROVE  staged'[h].of \in {root, Written}
    BY <1>1 DEF CopiedInv
  <2>2. h \in FileNames
    BY <1>2, EntriesHaveNames
  <2>3. CASE staged'[h] # staged[h]
    BY <1>1, <1>2, <1>3, <1>4, <2>2, <2>3
  <2>4. CASE staged'[h] = staged[h] /\ h # f
    BY <1>1, <2>1, <2>4 DEF ScanInv, CopiedInv
  <2>5. CASE staged'[h] = staged[h] /\ h = f
    <3>1. there = "file"
      BY <2>1, <2>5 DEF there
    <3>2. kind = "file"
      BY <1>1, <1>3, <3>1 DEF Kinds
    <3>3. staged' = [staged EXCEPT ![f] = Own(f)]
      BY <1>1, <3>1, <3>2
    <3> QED BY <1>2, <1>3, <2>5, <3>3
  <2> QED BY <2>3, <2>4, <2>5
<1>8. FreshInv'
  <2>1. ASSUME fresh PROVE StageInv'
    <3>1. StageInv
      BY <1>1, <2>1 DEF ScanInv, FreshInv
    <3>2. staged[f] = Absent /\ there = "absent"
      BY <1>1, <3>1, AbsentFacts DEF StageInv, there
    <3>3. kind # "absent"
      BY <1>3, AbsentFacts
    <3>4. staged' = [staged EXCEPT ![f] = Own(f)]
      BY <1>1, <3>2, <3>3
    <3>5. \A h : Own(h)' = Own(h)
      BY <1>1 DEF Own
    <3>6. \A h \in FileNames : staged'[h] = IF h = f THEN Own(f) ELSE staged[h]
      BY <1>2, <3>4
    <3>7. ASSUME NEW h \in FileNames
          PROVE  staged'[h] = IF h \in DOMAIN package[root].entries \ todo' THEN Own(h) ELSE Absent
      BY <1>1, <1>2, <3>1, <3>6 DEF StageInv
    <3> QED BY <1>1, <3>1, <3>5, <3>7 DEF StageInv
  <2> QED BY <1>1, <2>1 DEF ScanInv, FreshInv
<1> QED BY <1>5, <1>6, <1>7, <1>8 DEF ScanInv

(* Whatever the package made of the copy, hooks come from some tree.       *)
LEMMA StagedTreesAreTrees ==
  ASSUME ScanTypeOK, NEW target \in Roots \cup {NoRoot, Written}, NEW tree \in StagedTrees(target)
  PROVE  IsTree(tree)
<1>1. PICK table \in ScriptsIn(staged[MANIFEST]), found \in FoundIn(target) :
        tree = [scripts |-> table, found |-> found]
  BY DEF StagedTrees
<1>2. \A r \in Roots : package[r] \in Packages
  BY DEF ScanTypeOK
<1>3. \A p \in Packages : p.scripts \in ScriptTable /\ p.found \in Seq(Manifests)
  BY PackageType
<1>4. [h \in Hook |-> NoCommand] \in ScriptTable
  BY DEF ScriptTable, Commands
<1>5. table \in ScriptTable
  BY <1>2, <1>3, <1>4 DEF ScriptsIn
<1>6. found \in Seq(Manifests)
  <2> DEFINE MS == Seq(Manifests)
  <2>0. <<>> \in MS /\ \A p \in Packages : p.found \in MS
    BY <1>3
  <2> HIDE DEF MS
  <2>1. ASSUME target = Written PROVE found \in MS
    BY <2>0, <2>1 DEF FoundIn
  <2>2. ASSUME target # Written PROVE found \in MS
    <3>1. modules \subseteq Roots
      BY DEF ScanTypeOK
    <3> QED BY <1>2, <2>0, <2>2, <3>1 DEF FoundIn
  <2>3. found \in MS
    BY <2>1, <2>2
  <2> QED BY <2>3 DEF MS
<1> QED BY <1>1, <1>5, <1>6 DEF IsTree

(* The hooks that are put on the list are those of the tree the run will   *)
(* see, which is the root's own when the directory was new.                *)
LEMMA LinkModulesKeeps ==
  ASSUME ScanInv, LinkModules
  PROVE  ScanInv'
<1>1. PICK exists \in LinkExists :
        LET wanted == root \in modules /\ ~exists
            target == IF wanted THEN root ELSE link
        IN  /\ at = "stage" /\ at' = "hooks" /\ todo = {}
            /\ link' = target /\ cursor' = 0
            /\ \E tree \in StagedTrees(target) : hooks' = enumerate_install_scripts(tree)
            /\ UNCHANGED <<package, modules, staged, log, scan, root, todo, ran, hookLines,
                           toolLines, fresh>>
  BY DEF LinkModules, Go
<1> DEFINE target == IF root \in modules /\ ~exists THEN root ELSE link
<1>2. /\ at = "stage" /\ at' = "hooks" /\ todo = {} /\ link' = target /\ cursor' = 0
      /\ UNCHANGED <<package, modules, staged, log, scan, root, todo, ran, hookLines,
                     toolLines, fresh>>
  BY <1>1
<1>3. PICK tree \in StagedTrees(target) : hooks' = enumerate_install_scripts(tree)
  BY <1>1
<1>4. root \in Roots /\ ScanTypeOK
  BY <1>2 DEF ScanInv, RootInv
<1>5. target \in Roots \cup {NoRoot, Written}
  BY <1>4 DEF ScanTypeOK
<1>6. /\ hooks' \in Seq(Scripts)
      /\ ToSet(hooks') = NpmRuns(tree)
  <2>1. IsTree(tree)
    <3> HIDE DEF target
    <3> QED BY <1>4, <1>5, StagedTreesAreTrees
  <2> QED BY <1>3, <2>1, EnumerateFacts
<1>7. ScanTypeOK'
  <2> HIDE DEF target
  <2> QED BY <1>2, <1>4, <1>5, <1>6 DEF ScanTypeOK
<1>8. RootInv' /\ CopiedInv' /\ LinesInv'
  <2> HIDE DEF target
  <2> QED BY <1>2 DEF ScanInv, RootInv, CopiedInv, LinesInv
<1>9. ASSUME fresh PROVE HooksInv'
  <2>1. StageInv
    BY <1>2, <1>9 DEF ScanInv, FreshInv
  <2>2. exists = FALSE
    <3>1. link = NoRoot /\ modules \subseteq Roots
      BY <1>4, <2>1 DEF StageInv, ScanTypeOK
    <3>2. link # Written /\ link \notin modules
      BY <3>1, ScanConstants
    <3> QED BY <3>2 DEF LinkExists
  <2>3. target = IF root \in modules THEN root ELSE NoRoot
    BY <2>1, <2>2 DEF StageInv
  <2>4. staged[MANIFEST] = Own(MANIFEST)
    BY <1>2, <1>4, <2>1, EntriesHaveNames DEF StageInv
  <2>5. ScriptsIn(staged[MANIFEST]) = {package[root].scripts}
    BY <1>4, <2>4, OwnFacts, EntriesHaveNames DEF ScriptsIn
  <2>6. FoundIn(target) = {IF root \in modules THEN package[root].found ELSE <<>>}
    <3>1. target # Written
      BY <1>4, <2>3, ScanConstants
    <3>2. modules \subseteq Roots
      BY <1>4 DEF ScanTypeOK
    <3> QED BY <2>3, <3>1, <3>2, ScanConstants DEF FoundIn
  <2>7. tree = OwnTree
    BY <1>3, <2>5, <2>6 DEF StagedTrees, OwnTree
  <2>8. ToSet(hooks') = NpmRuns(OwnTree) /\ ran' = {}
    BY <1>2, <1>6, <2>1, <2>7 DEF StageInv
  <2>9. NpmRuns(OwnTree)' = NpmRuns(OwnTree)
    BY <1>2 DEF OwnTree
  <2>10. \A f \in FileNames : Own(f)' = Own(f)
    BY <1>2 DEF Own
  <2> HIDE DEF target
  <2> QED BY <1>2, <2>1, <2>3, <2>8, <2>9, <2>10 DEF HooksInv, StageInv
<1>10. FreshInv'
  <2> HIDE DEF target
  <2> QED BY <1>2, <1>9 DEF ScanInv, FreshInv
<1> QED BY <1>7, <1>8, <1>10 DEF ScanInv

LEMMA ToSetHeadTail ==
  ASSUME NEW s \in Seq(Scripts), s # <<>>
  PROVE  ToSet(s) = {Head(s)} \cup ToSet(Tail(s)) /\ Tail(s) \in Seq(Scripts)
<1>1. /\ Len(s) \in Nat \ {0} /\ DOMAIN s = 1..Len(s) /\ Head(s) = s[1]
      /\ Tail(s) \in Seq(Scripts) /\ DOMAIN Tail(s) = 1..(Len(s) - 1)
      /\ \A i \in 1..(Len(s) - 1) : Tail(s)[i] = s[i + 1]
  BY LenProperties, EmptySeq, HeadTailProperties
<1>2. ASSUME NEW i \in 1..Len(s)
      PROVE  i = 1 \/ (i - 1 \in DOMAIN Tail(s) /\ Tail(s)[i - 1] = s[i])
  BY <1>1
<1>3. \A i \in 1..(Len(s) - 1) : i + 1 \in DOMAIN s /\ 1 \in DOMAIN s
  BY <1>1
<1>4. Head(s) = s[1] /\ 1 \in DOMAIN s
  BY <1>1
<1>5. \A x : x \in ToSet(Tail(s)) => x \in ToSet(s)
  BY <1>1, <1>3 DEF ToSet
<1>6. \A x : x \in ToSet(s) => x = s[1] \/ x \in ToSet(Tail(s))
  <2>1. SUFFICES ASSUME NEW i \in 1..Len(s) PROVE s[i] = s[1] \/ s[i] \in ToSet(Tail(s))
    BY <1>1 DEF ToSet
  <2>2. CASE i - 1 \in DOMAIN Tail(s) /\ Tail(s)[i - 1] = s[i]
    <3>1. Tail(s)[i - 1] \in ToSet(Tail(s))
      BY <2>2 DEF ToSet
    <3> QED BY <2>2, <3>1
  <2> QED BY <1>2, <2>2
<1>7. s[1] \in ToSet(s)
  BY <1>4 DEF ToSet
<1> QED BY <1>1, <1>4, <1>5, <1>6, <1>7

(* What is left of the hooks is still what the root's tree gives, as long  *)
(* as every hook is run and the directory is what it was.                  *)
LEMMA HooksInvStays ==
  ASSUME HooksInv, UNCHANGED <<package, modules, staged, link, root>>,
         ran' \cup ToSet(hooks') = ran \cup ToSet(hooks)
  PROVE  HooksInv'
<1>1. NpmRuns(OwnTree)' = NpmRuns(OwnTree)
  BY DEF OwnTree
<1>2. \A f : Own(f)' = Own(f)
  BY DEF Own
<1>3. Untouched' <=> Untouched
  BY <1>2 DEF Untouched
<1> QED BY <1>1, <1>2, <1>3 DEF HooksInv

LEMMA HookObservedKeeps ==
  ASSUME ScanInv, HookObserved
  PROVE  ScanInv'
<1>1. /\ at = "hooks" /\ hooks # <<>> /\ at' = at /\ hooks' = Tail(hooks)
      /\ ran' = ran \cup {Head(hooks)} /\ hookLines' = hookLines \cup NewLines
      /\ cursor' = Len(log)
      /\ UNCHANGED <<package, modules, staged, link, log, scan, root, todo, toolLines, fresh>>
  BY DEF HookObserved, dirVars
<1>2. /\ ToSet(hooks) = {Head(hooks)} \cup ToSet(hooks') /\ hooks' \in Seq(Scripts)
  BY <1>1, ToSetHeadTail DEF ScanInv, ScanTypeOK
<1>3. ScanTypeOK'
  BY <1>1, <1>2, LenProperties DEF ScanInv, ScanTypeOK
<1>4. RootInv' /\ CopiedInv' /\ LinesInv'
  BY <1>1 DEF ScanInv, RootInv, CopiedInv, LinesInv
<1>5. FreshInv'
  <2>1. ASSUME fresh PROVE NewLines \subseteq {scan}
    BY <1>1, <2>1 DEF NewLines, ScanInv, ScanTypeOK, FreshInv
  <2>2. ran' \cup ToSet(hooks') = ran \cup ToSet(hooks)
    BY <1>1, <1>2
  <2>3. ASSUME fresh PROVE HooksInv'
    BY <1>1, <2>2, <2>3, HooksInvStays DEF ScanInv, FreshInv
  <2> QED BY <1>1, <2>1, <2>3 DEF ScanInv, FreshInv
<1> QED BY <1>3, <1>4, <1>5 DEF ScanInv

(* A hook is only passed over once the package has touched what it needs.  *)
LEMMA HookSkippedKeeps ==
  ASSUME ScanInv, HookSkipped
  PROVE  ScanInv'
<1>1. /\ at = "hooks" /\ hooks # <<>> /\ at' = at /\ hooks' = Tail(hooks)
      /\ DirMayBeGone(Head(hooks))
      /\ UNCHANGED <<package, modules, staged, link, log, scan, root, todo, cursor, ran,
                     hookLines, toolLines, fresh>>
  BY DEF HookSkipped, dirVars
<1>2. /\ ToSet(hooks) = {Head(hooks)} \cup ToSet(hooks') /\ hooks' \in Seq(Scripts)
  BY <1>1, ToSetHeadTail DEF ScanInv, ScanTypeOK
<1>3. ScanTypeOK'
  BY <1>1, <1>2 DEF ScanInv, ScanTypeOK
<1>4. RootInv' /\ CopiedInv' /\ LinesInv'
  BY <1>1 DEF ScanInv, RootInv, CopiedInv, LinesInv
<1>5. ScanTypeOK /\ root \in Roots
  BY <1>1 DEF ScanInv, RootInv
<1>6. ASSUME fresh PROVE HooksInv'
  <2>1. HooksInv
    BY <1>1, <1>6 DEF ScanInv, FreshInv
  <2>2. ~Untouched
    <3>1. SUFFICES ASSUME Untouched PROVE FALSE
      OBVIOUS
    <3>2. MANIFEST \in DOMAIN package[root].entries
      BY <1>5, EntriesHaveNames
    <3>3. staged[MANIFEST] # Absent /\ MANIFEST \in FileNames
      BY <1>5, <3>1, <3>2, OwnFacts DEF Untouched
    <3>4. Head(hooks).package # ROOT_LABEL /\ link \notin Roots
      BY <1>1, <3>3 DEF DirMayBeGone, FromDependency
    <3>5. root \notin modules
      BY <1>5, <3>1, <3>4 DEF Untouched
    <3>6. ToSet(OwnTree.found) = {}
      BY <3>5 DEF OwnTree, ToSet
    <3>7. \A x \in NpmRuns(OwnTree) : x.package = ROOT_LABEL
      BY <3>6 DEF NpmRuns, Script
    <3>8. Head(hooks) \in NpmRuns(OwnTree)
      BY <1>2, <2>1 DEF HooksInv
    <3> QED BY <3>4, <3>7, <3>8
  <2>3. NpmRuns(OwnTree)' = NpmRuns(OwnTree)
    BY <1>1 DEF OwnTree
  <2>4. \A f : Own(f)' = Own(f)
    BY <1>1 DEF Own
  <2>5. Untouched' <=> Untouched
    BY <1>1, <2>4 DEF Untouched
  <2> QED BY <1>1, <1>2, <2>1, <2>2, <2>3, <2>4, <2>5 DEF HooksInv
<1>7. FreshInv'
  BY <1>1, <1>6 DEF ScanInv, FreshInv
<1> QED BY <1>3, <1>4, <1>7 DEF ScanInv

LEMMA BaselineKeeps ==
  ASSUME ScanInv, Baseline
  PROVE  ScanInv'
<1>1. /\ at = "hooks" /\ hooks = <<>> /\ at' = "tools" /\ cursor' = Len(log)
      /\ UNCHANGED <<package, modules, staged, link, log, scan, root, todo, hooks, ran,
                     hookLines, toolLines, fresh>>
  BY DEF Baseline, Go, dirVars
<1>2. ScanTypeOK'
  BY <1>1, LenProperties DEF ScanInv, ScanTypeOK
<1>3. RootInv' /\ CopiedInv' /\ LinesInv'
  <2>1. Len(log) \in Nat
    BY LenProperties DEF ScanInv, ScanTypeOK
  <2> QED BY <1>1, <2>1 DEF ScanInv, RootInv, CopiedInv, LinesInv
<1>4. FreshInv'
  <2>1. HooksInv => HooksInv'
    BY <1>1, HooksInvStays
  <2> QED BY <1>1, <2>1 DEF ScanInv, FreshInv
<1> QED BY <1>2, <1>3, <1>4 DEF ScanInv

LEMMA ToolObservedKeeps ==
  ASSUME ScanInv, ToolObserved
  PROVE  ScanInv'
<1>1. /\ at = "tools" /\ at' = at /\ toolLines' = toolLines \cup NewLines /\ cursor' = Len(log)
      /\ UNCHANGED <<package, modules, staged, link, log, scan, root, todo, hooks, ran,
                     hookLines, fresh>>
  BY DEF ToolObserved, dirVars
<1>2. NewLines \subseteq {scan} /\ Len(log) \in Nat
  BY <1>1, LenProperties DEF NewLines, ScanInv, ScanTypeOK, LinesInv
<1>3. ScanTypeOK'
  BY <1>1, <1>2 DEF ScanInv, ScanTypeOK
<1>4. RootInv' /\ CopiedInv' /\ LinesInv'
  BY <1>1, <1>2 DEF ScanInv, RootInv, CopiedInv, LinesInv
<1>5. FreshInv'
  <2>1. HooksInv => HooksInv'
    BY <1>1, HooksInvStays
  <2> QED BY <1>1, <1>2, <2>1 DEF ScanInv, FreshInv
<1> QED BY <1>3, <1>4, <1>5 DEF ScanInv

(* Becoming idle keeps what holds of the directory.                        *)
LEMMA ScanStopsKeeps ==
  ASSUME ScanInv, StagingFails \/ EndScan \/ ScanDies
  PROVE  ScanInv'
<1>1. at' = "idle" /\ at # "idle" /\ UNCHANGED <<dirVars, ownVars>>
  BY DEF StagingFails, EndScan, ScanDies, Go
<1>2. ScanTypeOK'
  BY <1>1 DEF ScanInv, ScanTypeOK, dirVars, ownVars
<1>3. RootInv' /\ CopiedInv' /\ LinesInv'
  BY <1>1 DEF ScanInv, RootInv, CopiedInv, LinesInv, dirVars, ownVars
<1>4. FreshInv'
  BY <1>1 DEF ScanInv, FreshInv, dirVars, ownVars
<1> QED BY <1>2, <1>3, <1>4 DEF ScanInv

LEMMA PackageLogsKeeps ==
  ASSUME ScanInv, PackageLogs
  PROVE  ScanInv'
<1>1. /\ at \in {"hooks", "tools"} \/ scan > 1
      /\ log' = Append(log, scan) /\ at' = at
      /\ UNCHANGED <<package, modules, staged, link, scan, root, todo, hooks, cursor, ran,
                     hookLines, toolLines, fresh>>
  BY DEF PackageLogs, ownVars
<1>2. /\ scan \in Nat /\ log \in Seq(Nat) /\ Len(log) \in Nat
      /\ log' \in Seq(Nat) /\ Len(log') = Len(log) + 1
      /\ \A i \in 1..Len(log) : log'[i] = log[i]
      /\ log'[Len(log) + 1] = scan
  BY <1>1, LenProperties, AppendProperties DEF ScanInv, ScanTypeOK
<1>3. \A i \in 1..Len(log') : i \in 1..Len(log) \/ i = Len(log) + 1
  BY <1>2
<1>4. ScanTypeOK'
  BY <1>1, <1>2 DEF ScanInv, ScanTypeOK
<1>5. RootInv' /\ CopiedInv'
  BY <1>1 DEF ScanInv, RootInv, CopiedInv
<1>6. LinesInv'
  <2>1. cursor \in Nat
    BY DEF ScanInv, ScanTypeOK
  <2>2. \A i \in (cursor + 1)..Len(log') : i \in (cursor + 1)..Len(log) \/ i = Len(log) + 1
    BY <1>2, <2>1
  <2>3. \A i \in (cursor + 1)..Len(log) : log'[i] = log[i]
    BY <1>2, <2>1
  <2> QED BY <1>1, <1>2, <2>2, <2>3 DEF ScanInv, LinesInv
<1>7. FreshInv'
  <2>1. HooksInv => HooksInv'
    BY <1>1, HooksInvStays
  <2>2. fresh => at \in {"hooks", "tools"}
    BY <1>1, <1>2 DEF ScanInv, FreshInv
  <2>3. ASSUME fresh PROVE \A i \in 1..Len(log') : log'[i] = scan
    BY <1>2, <1>3, <2>2, <2>3 DEF ScanInv, FreshInv
  <2>4. ASSUME fresh PROVE scan = 1
    BY <2>2, <2>4 DEF ScanInv, FreshInv
  <2> QED BY <1>1, <2>1, <2>2, <2>3, <2>4 DEF ScanInv, FreshInv
<1> QED BY <1>4, <1>5, <1>6, <1>7 DEF ScanInv

(* The package cannot put back what was staged, it can only take it away.  *)
LEMMA PackageWritesKeeps ==
  ASSUME ScanInv, NEW f \in FileNames, PackageWrites(f)
  PROVE  ScanInv'
<1>1. /\ at \in {"hooks", "tools"} \/ scan > 1
      /\ at' = at
      /\ UNCHANGED <<package, modules, link, log, scan, root, todo, hooks, cursor, ran,
                     hookLines, toolLines, fresh>>
  BY DEF PackageWrites, ownVars
<1>2. PICK x \in {Absent} \cup {Entry(kind, Written) : kind \in Kinds} :
        staged' = [staged EXCEPT ![f] = x]
  BY DEF PackageWrites
<1>3. x = Absent \/ x.of = Written
  BY EntryFacts
<1>4. x \in Entries
  BY DEF Entries
<1>5. staged \in [FileNames -> Entries]
  BY DEF ScanInv, ScanTypeOK
<1>6. ScanTypeOK'
  BY <1>1, <1>2, <1>4 DEF ScanInv, ScanTypeOK
<1>7. \A g \in FileNames : staged'[g] = staged[g] \/ (g = f /\ staged'[g] = x)
  BY <1>2, <1>5
<1>8. RootInv' /\ LinesInv'
  BY <1>1 DEF ScanInv, RootInv, LinesInv
<1>9. CopiedInv'
  <2>1. SUFFICES ASSUME at # "idle", NEW h \in DOMAIN package[root].entries \ todo,
                        staged'[h].kind = "file"
                 PROVE  staged'[h].of \in {root, Written}
    BY <1>1 DEF CopiedInv
  <2>2. h \in FileNames
    BY <2>1, EntriesHaveNames DEF ScanInv, RootInv
  <2>3. x = Absent => x.kind # "file"
    BY AbsentFacts
  <2> QED BY <1>3, <1>7, <2>1, <2>2, <2>3 DEF ScanInv, CopiedInv
<1>10. FreshInv'
  <2>1. ASSUME fresh PROVE at \in {"hooks", "tools"} /\ scan = 1
    BY <1>1, <2>1 DEF ScanInv, FreshInv
  <2>2. ASSUME fresh PROVE HooksInv'
    <3>1. HooksInv /\ ScanTypeOK /\ root \in Roots
      BY <2>1, <2>2 DEF ScanInv, FreshInv, RootInv
    <3>2. NpmRuns(OwnTree)' = NpmRuns(OwnTree)
      BY <1>1 DEF OwnTree
    <3>3. \A g : Own(g)' = Own(g)
      BY <1>1 DEF Own
    <3>4. \A g \in DOMAIN package[root].entries : x # Own(g) /\ g \in FileNames
      BY <1>3, <3>1, OwnFacts, ScanConstants
    <3>5. Untouched' => Untouched
      <4>1. SUFFICES ASSUME Untouched', NEW g \in DOMAIN package[root].entries
                     PROVE  staged[g] = Own(g)
        BY <1>1 DEF Untouched
      <4>2. staged'[g] = Own(g)
        BY <1>1, <3>3, <4>1 DEF Untouched
      <4> QED BY <1>7, <3>4, <4>2
    <3>6. ASSUME NEW g \in FileNames
          PROVE  \/ staged'[g] = Absent \/ staged'[g].of = Written
                 \/ g \in DOMAIN package[root].entries /\ staged'[g] = Own(g)
      BY <1>3, <1>7, <3>1 DEF HooksInv
    <3> QED BY <1>1, <3>1, <3>2, <3>3, <3>5, <3>6 DEF HooksInv
  <2> QED BY <1>1, <2>1, <2>2 DEF ScanInv, FreshInv
<1> QED BY <1>6, <1>8, <1>9, <1>10 DEF ScanInv

LEMMA PackageRelinksKeeps ==
  ASSUME ScanInv, PackageRelinks
  PROVE  ScanInv'
<1>1. /\ at \in {"hooks", "tools"} \/ scan > 1
      /\ at' = at /\ link' \in {Written, NoRoot}
      /\ UNCHANGED <<package, modules, staged, log, scan, root, todo, hooks, cursor, ran,
                     hookLines, toolLines, fresh>>
  BY DEF PackageRelinks, ownVars
<1>2. ScanTypeOK' /\ RootInv' /\ LinesInv' /\ CopiedInv'
  BY <1>1 DEF ScanInv, ScanTypeOK, RootInv, LinesInv, CopiedInv
<1>3. FreshInv'
  <2>1. ASSUME fresh PROVE at \in {"hooks", "tools"} /\ scan = 1
    BY <1>1, <2>1 DEF ScanInv, FreshInv
  <2>2. ASSUME fresh PROVE HooksInv'
    <3>1. HooksInv /\ root \in Roots
      BY <2>1, <2>2 DEF ScanInv, FreshInv, RootInv
    <3>2. NpmRuns(OwnTree)' = NpmRuns(OwnTree)
      BY <1>1 DEF OwnTree
    <3>3. \A g : Own(g)' = Own(g)
      BY <1>1 DEF Own
    <3>4. Untouched' => Untouched
      BY <1>1, <3>1, <3>3, ScanConstants DEF Untouched
    <3> QED BY <1>1, <3>1, <3>2, <3>3, <3>4 DEF HooksInv
  <2> QED BY <1>1, <2>1, <2>2 DEF ScanInv, FreshInv
<1> QED BY <1>2, <1>3 DEF ScanInv

LEMMA ModulesRemovedKeeps ==
  ASSUME ScanInv, NEW r \in Roots, ModulesRemoved(r)
  PROVE  ScanInv'
<1>1. /\ at = "idle" /\ at' = at /\ modules' = modules \ {r}
      /\ UNCHANGED <<package, staged, link, log, scan, root, todo, hooks, cursor, ran,
                     hookLines, toolLines, fresh>>
  BY DEF ModulesRemoved, ownVars
<1>2. ScanTypeOK'
  BY <1>1 DEF ScanInv, ScanTypeOK
<1>3. RootInv' /\ CopiedInv' /\ LinesInv'
  BY <1>1 DEF ScanInv, RootInv, CopiedInv, LinesInv
<1>4. FreshInv'
  BY <1>1 DEF ScanInv, FreshInv
<1> QED BY <1>2, <1>3, <1>4 DEF ScanInv

THEOREM ScanInductive ==
  /\ ScanInit => ScanInv
  /\ ScanInv /\ [ScanNext]_scanVars => ScanInv'
<1>1. ASSUME ScanInv, UNCHANGED scanVars PROVE ScanInv'
  <2>1. UNCHANGED <<package, modules, staged, link, log, at, scan, root, todo, hooks, cursor,
                    ran, hookLines, toolLines, fresh>>
    BY <1>1 DEF scanVars, dirVars, ownVars
  <2>2. ScanTypeOK' /\ RootInv' /\ CopiedInv' /\ LinesInv'
    BY <1>1, <2>1 DEF ScanInv, ScanTypeOK, RootInv, CopiedInv, LinesInv
  <2>3. HooksInv => HooksInv'
    BY <2>1, HooksInvStays
  <2>4. StageInv => StageInv'
    BY <2>1 DEF StageInv, Own
  <2>5. FreshInv'
    BY <1>1, <2>1, <2>3, <2>4 DEF ScanInv, FreshInv
  <2> QED BY <2>2, <2>5 DEF ScanInv
<1>2. ASSUME ScanInv, ScanNext PROVE ScanInv'
  BY <1>2, BeginScanKeeps, ModulesRemovedKeeps, CopyEntryKeeps, PackageWritesKeeps,
     LinkModulesKeeps, ScanStopsKeeps, HookObservedKeeps, HookSkippedKeeps, BaselineKeeps,
     ToolObservedKeeps, PackageLogsKeeps, PackageRelinksKeeps DEF ScanNext
<1> QED BY <1>1, <1>2, ScanStarts

(* observe.py:380: no line that an earlier scan left in the log is charged *)
(* to a tool, whatever the log held and wherever earlier scans died.       *)
THEOREM ToolsOnlySeeTheirScan == ScanSpec => []ToolsSeeThisScan
<1>1. ScanInv => ToolsSeeThisScan
  BY DEF ScanInv, LinesInv, ToolsSeeThisScan
<1> QED BY <1>1, ScanInductive, PTL DEF ScanSpec

(* observe.py:163: whatever stood in the directory, in whatever order the  *)
(* entries are copied and wherever scans die, a file under a name that the *)
(* version has is the version's or the package's work; directories and     *)
(* links of another version may stay, which copy2 does not replace.        *)
THEOREM StagedFilesAreOwn == ScanSpec => []NoStaleOwnFile
<1>1. ScanInv => NoStaleOwnFile
  BY DEF ScanInv, CopiedInv, NoStaleOwnFile
<1> QED BY <1>1, ScanInductive, PTL DEF ScanSpec

(* A run in a new directory is the version's own, whatever the package     *)
(* does to its copy and to the link: it runs no hook but those npm runs    *)
(* for the package root, and misses one only if the package took away the  *)
(* directory it runs in.                                                   *)
THEOREM FreshRunsAreOwn == ScanSpec => []FreshRunIsOwn
<1>1. ASSUME ScanInv PROVE FreshRunIsOwn
  <2>1. SUFFICES ASSUME fresh, Observing PROVE FreshRunIsOwn
    BY DEF FreshRunIsOwn
  <2>2. HooksInv /\ hookLines \cup toolLines \subseteq {scan}
    BY <1>1, <2>1 DEF ScanInv, FreshInv, Observing
  <2>3. ASSUME at = "tools", Untouched PROVE ran = NpmRuns(OwnTree)
    <3>1. ran \cup ToSet(hooks) = NpmRuns(OwnTree) /\ hooks = <<>>
      BY <1>1, <2>2, <2>3 DEF ScanInv, HooksInv, LinesInv
    <3>2. ToSet(hooks) = {}
      BY <3>1 DEF ToSet
    <3> QED BY <3>1, <3>2
  <2>4. IsTree(OwnTree)
    BY <1>1, <2>1, OwnTreeIsATree DEF ScanInv, RootInv, Observing
  <2>5. ASSUME at = "tools", Untouched, UniqueNames(OwnTree)
        PROVE  LET declared == declared_scripts(OwnTree) IN
               {<<KeyOf(s), s.command>> : s \in ran} = {<<k, declared[k]>> : k \in DOMAIN declared}
    BY <2>3, <2>4, <2>5, DeclaredScriptsFacts
  <2>6. /\ \A f \in FileNames :
             \/ staged[f] = Absent \/ staged[f].of = Written
             \/ f \in DOMAIN package[root].entries /\ staged[f] = Own(f)
        /\ link \in {IF root \in modules THEN root ELSE NoRoot, NoRoot, Written}
        /\ ran \subseteq NpmRuns(OwnTree)
    BY <2>2 DEF HooksInv
  <2> QED BY <2>2, <2>3, <2>5, <2>6 DEF FreshRunIsOwn
<1> QED BY <1>1, ScanInductive, PTL DEF ScanSpec

(* installscripts.py:76: the order in which the file system lists packages *)
(* of different names decides nothing.                                     *)
THEOREM OrderNeverMatters == ScanSpec => []OrderIsStable
<1>1. ASSUME ScanInv PROVE OrderIsStable
  <2>1. SUFFICES ASSUME at = "hooks", UniqueNames(OwnTree), NEW order \in Orders(OwnTree.found)
                 PROVE  enumerate_install_scripts(OwnTree) =
                          enumerate_install_scripts([OwnTree EXCEPT !.found = Listed(@, order)])
    BY DEF OrderIsStable
  <2> DEFINE other == [OwnTree EXCEPT !.found = Listed(@, order)]
  <2>2. IsTree(OwnTree)
    BY <1>1, <2>1, OwnTreeIsATree DEF ScanInv, RootInv
  <2>3. other.scripts = OwnTree.scripts /\ other.found = Listed(OwnTree.found, order)
    BY DEF OwnTree
  <2>4. DistinctNames(OwnTree.found)
    BY <2>1 DEF UniqueNames, DistinctNames
  <2> HIDE DEF other
  <2>5. /\ IsTree(other) /\ ToSet(other.found) = ToSet(OwnTree.found)
        /\ DistinctNames(other.found)
    BY <2>1, <2>2, <2>3, <2>4, ListedFacts DEF IsTree
  <2>6. enumerate_install_scripts(OwnTree) = enumerate_install_scripts(other)
    BY <2>2, <2>3, <2>4, <2>5, ListingOrderIsIrrelevant
  <2> QED BY <2>6 DEF other
<1> QED BY <1>1, ScanInductive, PTL DEF ScanSpec
=============================================================================
