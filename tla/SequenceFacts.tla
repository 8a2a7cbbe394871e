--------------------------- MODULE SequenceFacts ---------------------------
(***************************************************************************)
(* Induction.  The library states induction for an operator, which no      *)
(* prover here can instantiate; stated for a set of numbers it can be used.*)
(* The operators of the community modules that are defined by recursion    *)
(* are then characterised once, for the proofs that cite them.             *)
(***************************************************************************)
EXTENDS Integers, Sequences, SequencesExt, SequenceTheorems, FiniteSetTheorems, TLAPS

(* A set of naturals that is not empty has a least element: the initial    *)
(* segments of Nat are finite, and finite sets are well-founded.           *)
LEMMA LeastNatural ==
  ASSUME NEW T \in SUBSET Nat, T # {}
  PROVE  \E m \in T : \A k \in T : m <= k
<1> DEFINE F == {0..k : k \in T}
<1>1. F \subseteq FiniteSubsetsOf(Nat) /\ F # {}
  <2>1. ASSUME NEW k \in T PROVE 0..k \in FiniteSubsetsOf(Nat)
    <3>1. IsFiniteSet(0..k)
      BY FS_Interval
    <3> QED BY <3>1 DEF FiniteSubsetsOf
  <2> QED BY <2>1
<1>2. PICK x \in F : \A y \in F : <<y, x>> \notin StrictSubsetOrdering(Nat)
  <2> HIDE DEF F
  <2> QED BY <1>1, FS_StrictSubsetOrderingWellFounded, WFMin
<1>3. PICK m \in T : x = 0..m
  OBVIOUS
<1>4. ASSUME NEW k \in T, ~(m <= k) PROVE FALSE
  <2>1. 0..k \in F /\ 0..k \subseteq 0..m /\ m \in 0..m /\ m \notin 0..k
    BY <1>4
  <2>2. <<0..k, x>> \in StrictSubsetOrdering(Nat)
    <3>1. 0..k \in SUBSET Nat /\ x \in SUBSET Nat /\ 0..k \subseteq x /\ 0..k # x
      BY <2>1, <1>3
    <3> QED BY <3>1 DEF StrictSubsetOrdering
  <2> QED BY <2>1, <2>2, <1>2
<1>5. QED
  BY <1>4

(* Induction on the naturals.                                              *)
LEMMA SetInduction ==
  ASSUME NEW T \in SUBSET Nat, 0 \in T, \A n \in T : n + 1 \in T
  PROVE  T = Nat
<1> SUFFICES ASSUME Nat \ T # {} PROVE FALSE
  OBVIOUS
<1>1. PICK m \in Nat \ T : \A k \in Nat \ T : m <= k
  <2>1. Nat \ T \in SUBSET Nat OBVIOUS
  <2> QED BY <2>1, LeastNatural
<1>2. m # 0 /\ m - 1 \in Nat
  OBVIOUS
<1>3. m - 1 \in T
  BY <1>1, <1>2
<1>4. QED
  BY <1>3, <1>2

(* Induction over the positions of a sequence.                             *)
LEMMA UpToInduction ==
  ASSUME NEW N \in Nat, NEW T \in SUBSET (1..N),
         N > 0 => 1 \in T,
         \A n \in T : n < N => n + 1 \in T
  PROVE  T = 1..N
<1> DEFINE U == {n \in Nat : n + 1 \in 1..N => n + 1 \in T}
<1>1. U \in SUBSET Nat /\ 0 \in U
  OBVIOUS
<1>2. ASSUME NEW n \in U PROVE n + 1 \in U
  <2>1. SUFFICES ASSUME n + 2 \in 1..N PROVE n + 2 \in T
    OBVIOUS
  <2>2. n + 1 \in T /\ n + 1 < N
    BY <2>1
  <2>3. (n + 1) + 1 \in T
    BY <2>2
  <2> QED BY <2>3
<1>3. U = Nat
  <2> HIDE DEF U
  <2> QED BY <1>1, <1>2, SetInduction
<1>4. ASSUME NEW i \in 1..N PROVE i \in T
  <2>1. i - 1 \in Nat /\ (i - 1) + 1 = i
    OBVIOUS
  <2>2. i - 1 \in U
    <3> HIDE DEF U
    <3> QED BY <1>3, <2>1
  <2> QED BY <2>1, <2>2
<1> QED BY <1>4

(* Induction from zero up to a bound.                                      *)
LEMMA FromZeroInduction ==
  ASSUME NEW N \in Nat, NEW T \in SUBSET (0..N),
         0 \in T,
         \A n \in T : n < N => n + 1 \in T
  PROVE  T = 0..N
<1> DEFINE U == {n \in Nat : n \in 0..N => n \in T}
<1>1. U \in SUBSET Nat /\ 0 \in U
  OBVIOUS
<1>2. ASSUME NEW n \in U PROVE n + 1 \in U
  <2>1. SUFFICES ASSUME n + 1 \in 0..N PROVE n + 1 \in T
    OBVIOUS
  <2>2. n \in T /\ n < N
    BY <2>1
  <2> QED BY <2>2
<1>3. U = Nat
  <2> HIDE DEF U
  <2> QED BY <1>1, <1>2, SetInduction
<1>4. ASSUME NEW i \in 0..N PROVE i \in T
  <2>1. i \in U
    <3> HIDE DEF U
    <3> QED BY <1>3
  <2> QED BY <2>1
<1> QED BY <1>4

(* A loop with a state in A that starts in a and makes N turns has a run.  *)
IsLoop(N, A, a, turn) == N \in Nat /\ a \in A /\ turn \in [A -> [1..N -> A]]
IsRunOf(f, N, A, a, turn) ==
  f \in [0..N -> A] /\ f[0] = a /\ \A k \in 1..N : f[k] = turn[f[k - 1]][k]

LEMMA LoopRuns ==
  ASSUME NEW N, NEW A, NEW a, NEW turn, IsLoop(N, A, a, turn)
  PROVE  \E f : IsRunOf(f, N, A, a, turn)
<1>0. N \in Nat /\ a \in A /\ turn \in [A -> [1..N -> A]]
  BY DEF IsLoop
<1> DEFINE Up(n, g) == /\ g \in [0..n -> A] /\ g[0] = a
                       /\ \A k \in 1..n : g[k] = turn[g[k - 1]][k]
           T == {n \in 0..N : \E g : Up(n, g)}
<1>1. 0 \in T
  <2>1. Up(0, [k \in 0..0 |-> a])
    BY <1>0
  <2>2. 0 \in 0..N
    BY <1>0
  <2> HIDE DEF Up
  <2> QED BY <2>1, <2>2
<1>2. ASSUME NEW n \in T, n < N PROVE n + 1 \in T
  <2>1. PICK g : Up(n, g)
    OBVIOUS
  <2>2. n \in Nat /\ n + 1 \in 1..N /\ n \in 0..n
    BY <1>0, <1>2
  <2> DEFINE h == [k \in 0..(n + 1) |-> IF k = n + 1 THEN turn[g[n]][n + 1] ELSE g[k]]
  <2>3. g \in [0..n -> A] /\ g[0] = a /\ \A k \in 1..n : g[k] = turn[g[k - 1]][k]
    BY <2>1
  <2>4. turn[g[n]][n + 1] \in A
    BY <1>0, <2>2, <2>3
  <2>5. (\A k \in 0..n : h[k] = g[k]) /\ h[n + 1] = turn[g[n]][n + 1]
    BY <2>2
  <2>6. h \in [0..(n + 1) -> A]
    BY <2>2, <2>3, <2>4
  <2>7. ASSUME NEW k \in 1..(n + 1) PROVE h[k] = turn[h[k - 1]][k]
    <3>1. CASE k = n + 1
      <4>1. k - 1 = n
        BY <2>2, <3>1
      <4> HIDE DEF h
      <4> QED BY <2>2, <2>5, <3>1, <4>1
    <3>2. CASE k # n + 1
      <4>1. k \in 1..n /\ k \in 0..n /\ k - 1 \in 0..n
        BY <2>2, <3>2
      <4> HIDE DEF h
      <4> QED BY <2>3, <2>5, <4>1
    <3> QED BY <3>1, <3>2
  <2>8. h[0] = a
    BY <2>2, <2>3, <2>5
  <2>9. Up(n + 1, h)
    <3> HIDE DEF h
    <3> QED BY <2>6, <2>7, <2>8
  <2>10. n + 1 \in 0..N
    BY <2>2
  <2> HIDE DEF h, Up
  <2> QED BY <2>9, <2>10
<1>3. T = 0..N
  <2>1. T \in SUBSET (0..N)
    OBVIOUS
  <2> HIDE DEF T
  <2> QED BY <1>0, <1>1, <1>2, <2>1, FromZeroInduction
<1>4. N \in T
  <2> HIDE DEF T
  <2> QED BY <1>0, <1>3
<1>5. PICK f : Up(N, f)
  <2> HIDE DEF Up
  <2> QED BY <1>4
<1>6. IsRunOf(f, N, A, a, turn)
  BY <1>5 DEF IsRunOf
<1> QED BY <1>6

(* A set of positions that is not empty has a last one.                    *)
LEMMA GreatestPosition ==
  ASSUME NEW n \in Nat, NEW T \in SUBSET (1..n), T # {}
  PROVE  \E m \in T : \A k \in T : k <= m
<1> DEFINE D == {n - k : k \in T}
<1>1. D \in SUBSET Nat /\ D # {}
  <2>1. \A k \in T : n - k \in Nat
    OBVIOUS
  <2>2. \E k \in T : TRUE
    OBVIOUS
  <2> QED BY <2>1, <2>2
<1>2. PICK d \in D : \A e \in D : d <= e
  <2> HIDE DEF D
  <2> QED BY <1>1, LeastNatural
<1>3. PICK m \in T : d = n - m
  OBVIOUS
<1>4. ASSUME NEW k \in T PROVE k <= m
  <2>1. n - k \in D
    OBVIOUS
  <2>2. d <= n - k
    <3> HIDE DEF D
    <3> QED BY <1>2, <2>1
  <2> QED BY <1>3, <2>2
<1> QED BY <1>4

LEMMA RemoveAtFacts ==
  ASSUME NEW S, NEW s \in Seq(S), NEW i \in 1..Len(s)
  PROVE  /\ RemoveAt(s, i) \in Seq(S)
         /\ Len(RemoveAt(s, i)) = Len(s) - 1
         /\ \A k \in 1..(Len(s) - 1) : RemoveAt(s, i)[k] = IF k < i THEN s[k] ELSE s[k + 1]
<1> DEFINE b == SubSeq(s, 1, i - 1)
           e == SubSeq(s, i + 1, Len(s))
<1>1. Len(s) \in Nat /\ i \in Nat
  BY LenProperties
<1>2. b \in Seq(S) /\ Len(b) = i - 1 /\ \A k \in 1..(i - 1) : b[k] = s[k]
  BY <1>1, SubSeqProperties
<1>3. e \in Seq(S) /\ Len(e) = Len(s) - i /\ \A k \in 1..(Len(s) - i) : e[k] = s[i + k]
  BY <1>1, SubSeqProperties
<1>4. RemoveAt(s, i) = b \o e
  BY DEF RemoveAt
<1> HIDE DEF b, e
<1>5. /\ b \o e \in Seq(S) /\ Len(b \o e) = Len(b) + Len(e)
      /\ \A k \in 1..(Len(b) + Len(e)) : (b \o e)[k] = IF k <= Len(b) THEN b[k] ELSE e[k - Len(b)]
  BY <1>2, <1>3, ConcatProperties
<1>6. ASSUME NEW k \in 1..(Len(s) - 1)
      PROVE  (b \o e)[k] = IF k < i THEN s[k] ELSE s[k + 1]
  <2>1. Len(b) + Len(e) = Len(s) - 1
    BY <1>1, <1>2, <1>3
  <2>2. (b \o e)[k] = IF k <= i - 1 THEN b[k] ELSE e[k - (i - 1)]
    BY <1>2, <1>5, <2>1
  <2>3. CASE k < i
    BY <1>1, <1>2, <2>2, <2>3
  <2>4. CASE ~(k < i)
    <3>1. k - (i - 1) \in 1..(Len(s) - i) /\ i + (k - (i - 1)) = k + 1 /\ ~(k <= i - 1)
      BY <1>1, <2>4
    <3> QED BY <1>3, <2>2, <2>4, <3>1
  <2> QED BY <2>3, <2>4
<1> QED BY <1>1, <1>2, <1>3, <1>4, <1>5, <1>6

LEMMA PositionsAreFinite ==
  ASSUME NEW S, NEW s \in Seq(S)
  PROVE  IsFiniteSet(DOMAIN s) /\ Cardinality(DOMAIN s) = Len(s)
<1>1. Len(s) \in Nat /\ DOMAIN s = 1..Len(s)
  BY LenProperties
<1>2. IsFiniteSet(1..Len(s)) /\ Cardinality(1..Len(s)) = IF 1 > Len(s) THEN 0 ELSE Len(s) - 1 + 1
  BY <1>1, FS_Interval
<1> QED BY <1>1, <1>2

-----------------------------------------------------------------------------
(* FlattenSeq: the recursion has a solution, so each prefix is the one     *)
(* before it with the next sequence appended.                              *)
FlattensTo(seqs, f, S) ==
  /\ f \in [1..Len(seqs) -> Seq(S)]
  /\ \A i \in 1..Len(seqs) : f[i] = IF i = 1 THEN seqs[i] ELSE f[i - 1] \o seqs[i]

LEMMA FlattenIsDefined ==
  ASSUME NEW S, NEW seqs \in Seq(Seq(S)), Len(seqs) # 0
  PROVE  \E f : FlattensTo(seqs, f, S) /\ FlattenSeq(seqs) = f[Len(seqs)]
<1> DEFINE N == Len(seqs)
           Up(n, g) == /\ g \in [1..n -> Seq(S)]
                       /\ \A i \in 1..n : g[i] = IF i = 1 THEN seqs[i] ELSE g[i - 1] \o seqs[i]
           T == {n \in 1..N : \E g : Up(n, g)}
<1>0. N \in Nat /\ N > 0 /\ \A i \in 1..N : seqs[i] \in Seq(S)
  BY LenProperties, ElementOfSeq
<1>1. 1 \in T
  <2>1. Up(1, [i \in 1..1 |-> seqs[1]])
    BY <1>0
  <2>2. 1 \in 1..N
    BY <1>0
  <2> HIDE DEF Up, N
  <2> QED BY <2>1, <2>2
<1>2. ASSUME NEW n \in T, n < N PROVE n + 1 \in T
  <2>1. PICK g : Up(n, g)
    OBVIOUS
  <2>2. g[n] \o seqs[n + 1] \in Seq(S)
    <3>1. g[n] \in Seq(S) /\ seqs[n + 1] \in Seq(S)
      BY <2>1, <1>0, <1>2
    <3> QED BY <3>1, ConcatProperties
  <2> DEFINE h == [i \in 1..(n + 1) |-> IF i <= n THEN g[i] ELSE g[n] \o seqs[n + 1]]
  <2>3. h \in [1..(n + 1) -> Seq(S)]
    BY <2>1, <2>2, <1>0
  <2>4. ASSUME NEW i \in 1..(n + 1)
        PROVE  h[i] = IF i = 1 THEN seqs[i] ELSE h[i - 1] \o seqs[i]
    <3>1. n \in Nat /\ n >= 1 /\ n + 1 \in 1..(n + 1) /\ \A j \in 1..n : j \in 1..(n + 1) /\ j <= n
      BY <1>0
    <3>2. (\A j \in 1..n : h[j] = g[j]) /\ h[n + 1] = g[n] \o seqs[n + 1]
      <4>1. ~(n + 1 <= n)
        BY <3>1
      <4> HIDE DEF Up, T, N
      <4> QED BY <3>1, <4>1
    <3>3. \A j \in 1..n : g[j] = IF j = 1 THEN seqs[j] ELSE g[j - 1] \o seqs[j]
      BY <2>1
    <3> HIDE DEF h, Up
    <3>4. CASE i \in 1..n
      <4>1. i # 1 => i - 1 \in 1..n
        BY <3>1, <3>4
      <4> QED BY <4>1, <3>2, <3>3, <3>4
    <3>5. CASE i = n + 1
      <4>1. i # 1 /\ i - 1 = n /\ n \in 1..n
        BY <3>1, <3>5
      <4>2. h[n] = g[n]
        BY <3>2, <4>1
      <4> QED BY <4>1, <4>2, <3>2, <3>5
    <3> QED BY <3>1, <3>4, <3>5
  <2>5. Up(n + 1, h)
    BY <2>3, <2>4
  <2>6. n + 1 \in 1..N
    BY <1>0, <1>2
  <2> HIDE DEF h, Up
  <2> QED BY <2>5, <2>6
<1>3. T = 1..N
  <2>1. T \in SUBSET (1..N)
    OBVIOUS
  <2> HIDE DEF T, N
  <2> QED BY <2>1, <1>0, <1>1, <1>2, UpToInduction
<1>4. PICK g : Up(N, g)
  <2>1. N \in T
    <3> HIDE DEF T, N
    <3> QED BY <1>3, <1>0
  <2> HIDE DEF Up, N
  <2> QED BY <2>1
<1>5. g = [i \in 1..N |-> IF i = 1 THEN seqs[i] ELSE g[i - 1] \o seqs[i]]
  BY <1>4
<1> DEFINE c == CHOOSE f : f = [i \in 1..N |-> IF i = 1 THEN seqs[i] ELSE f[i - 1] \o seqs[i]]
<1>6. c = [i \in 1..N |-> IF i = 1 THEN seqs[i] ELSE c[i - 1] \o seqs[i]]
  BY <1>5
<1>7. FlattenSeq(seqs) = c[N]
  BY <1>0 DEF FlattenSeq
<1>8. \A i \in 1..N : c[i] = IF i = 1 THEN seqs[i] ELSE c[i - 1] \o seqs[i]
  <2> HIDE DEF c
  <2> QED BY <1>6
<1>9. \A i \in 1..N : c[i] \in Seq(S)
  <2> DEFINE V == {i \in 1..N : c[i] \in Seq(S)}
  <2> HIDE DEF c
  <2>1. 1 \in V
    BY <1>8, <1>0
  <2>2. ASSUME NEW n \in V, n < N PROVE n + 1 \in V
    <3>1. n + 1 \in 1..N /\ c[n + 1] = c[n] \o seqs[n + 1] /\ c[n] \in Seq(S)
      <4>1. n + 1 \in 1..N /\ n + 1 # 1 /\ (n + 1) - 1 = n
        BY <2>2, <1>0
      <4> QED BY <4>1, <1>8
    <3>2. c[n] \o seqs[n + 1] \in Seq(S)
      BY <3>1, <1>0, ConcatProperties
    <3> QED BY <3>1, <3>2
  <2>3. V \in SUBSET (1..N)
    OBVIOUS
  <2>4. V = 1..N
    <3> HIDE DEF V, N
    <3> QED BY <2>1, <2>2, <2>3, <1>0, UpToInduction
  <2> QED BY <2>4
<1>10. c \in [1..N -> Seq(S)]
  <2> HIDE DEF c
  <2> QED BY <1>6, <1>9
<1>11. FlattensTo(seqs, c, S)
  <2> HIDE DEF c
  <2> QED BY <1>8, <1>10 DEF FlattensTo
<1> QED BY <1>7, <1>11

LEMMA ToSetConcat ==
  ASSUME NEW S, NEW s \in Seq(S), NEW t \in Seq(S)
  PROVE  s \o t \in Seq(S) /\ ToSet(s \o t) = ToSet(s) \cup ToSet(t)
<1>1. ToSet(s) = Range(s) /\ ToSet(t) = Range(t) /\ ToSet(s \o t) = Range(s \o t)
  BY DEF Range, ToSet
<1>2. Range(s \o t) = Range(s) \cup Range(t)
  BY RangeConcatenation
<1>3. s \o t \in Seq(S)
  BY ConcatProperties
<1> QED BY <1>1, <1>2, <1>3

HeldUpTo(seqs, n) == UNION {ToSet(seqs[k]) : k \in 1..n}

(* What the n-th prefix holds: all of the first n sequences.               *)
LEMMA FlattenPrefixes ==
  ASSUME NEW S, NEW seqs \in Seq(Seq(S)), NEW f, FlattensTo(seqs, f, S)
  PROVE  \A n \in 1..Len(seqs) : ToSet(f[n]) = HeldUpTo(seqs, n)
<1> DEFINE N == Len(seqs)
           Upto(n) == HeldUpTo(seqs, n)
           T == {n \in 1..N : ToSet(f[n]) = Upto(n)}
<1>0. N \in Nat /\ \A i \in 1..N : seqs[i] \in Seq(S)
  BY LenProperties, ElementOfSeq
<1>1. /\ \A i \in 1..N : f[i] \in Seq(S)
      /\ \A i \in 1..N : f[i] = IF i = 1 THEN seqs[i] ELSE f[i - 1] \o seqs[i]
  BY DEF FlattensTo
<1>2. N > 0 => 1 \in T
  <2>1. SUFFICES ASSUME N > 0 PROVE ToSet(f[1]) = Upto(1) /\ 1 \in 1..N
    OBVIOUS
  <2>2. 1 \in 1..N /\ f[1] = seqs[1]
    <3>1. 1 \in 1..N
      BY <2>1, <1>0
    <3> QED BY <3>1, <1>1
  <2>3. Upto(1) = ToSet(seqs[1])
    BY DEF HeldUpTo
  <2> QED BY <2>2, <2>3
<1>3. ASSUME NEW n \in T, n < N PROVE n + 1 \in T
  <2>1. n \in 1..N /\ n + 1 \in 1..N /\ n + 1 # 1 /\ (n + 1) - 1 = n
    BY <1>0, <1>3
  <2>2. f[n + 1] = f[n] \o seqs[n + 1] /\ f[n] \in Seq(S)
    <3> HIDE DEF T, N
    <3> QED BY <2>1, <1>1
  <2>3. ToSet(f[n + 1]) = ToSet(f[n]) \cup ToSet(seqs[n + 1])
    BY <2>1, <2>2, <1>0, ToSetConcat
  <2>4. Upto(n + 1) = Upto(n) \cup ToSet(seqs[n + 1])
    <3>1. 1..(n + 1) = 1..n \cup {n + 1}
      BY <2>1
    <3> QED BY <3>1 DEF HeldUpTo
  <2>5. ToSet(f[n]) = Upto(n)
    OBVIOUS
  <2> HIDE DEF Upto
  <2> QED BY <2>1, <2>3, <2>4, <2>5
<1>4. T \in SUBSET (1..N)
  OBVIOUS
<1>5. T = 1..N
  <2> HIDE DEF T, N
  <2> QED BY <1>0, <1>2, <1>3, <1>4, UpToInduction
<1> QED BY <1>5

(* A flattened sequence holds what its parts hold.                         *)
LEMMA FlattenRange ==
  ASSUME NEW S, NEW seqs \in Seq(Seq(S))
  PROVE  /\ FlattenSeq(seqs) \in Seq(S)
         /\ ToSet(FlattenSeq(seqs)) = UNION {ToSet(seqs[k]) : k \in 1..Len(seqs)}
<1>1. CASE Len(seqs) = 0
  <2>1. seqs = <<>> /\ FlattenSeq(seqs) = seqs
    BY <1>1, EmptySeq DEF FlattenSeq
  <2>2. ToSet(seqs) = {} /\ <<>> \in Seq(S)
    BY <2>1 DEF ToSet
  <2>3. 1..Len(seqs) = {}
    BY <1>1
  <2> QED BY <2>1, <2>2, <2>3
<1>2. CASE Len(seqs) # 0
  <2>1. PICK f : FlattensTo(seqs, f, S) /\ FlattenSeq(seqs) = f[Len(seqs)]
    BY <1>2, FlattenIsDefined
  <2>2. Len(seqs) \in 1..Len(seqs)
    BY <1>2, LenProperties
  <2>3. f[Len(seqs)] \in Seq(S)
    BY <2>1, <2>2 DEF FlattensTo
  <2>4. ToSet(f[Len(seqs)]) = UNION {ToSet(seqs[k]) : k \in 1..Len(seqs)}
    <3>1. \A n \in 1..Len(seqs) : ToSet(f[n]) = HeldUpTo(seqs, n)
      BY <2>1, FlattenPrefixes
    <3> QED BY <3>1, <2>2 DEF HeldUpTo
  <2> QED BY <2>1, <2>3, <2>4
<1> QED BY <1>1, <1>2

(* No two positions of s hold the same key.                                *)
DistinctKeys(key, s) == \A i, j \in DOMAIN s : key[s[i]] = key[s[j]] => i = j

LEMMA ConcatDistinct ==
  ASSUME NEW S, NEW K, NEW key \in [S -> K], NEW s \in Seq(S), NEW t \in Seq(S),
         DistinctKeys(key, s), DistinctKeys(key, t),
         \A a \in ToSet(s), b \in ToSet(t) : key[a] # key[b]
  PROVE  DistinctKeys(key, s \o t)
<1>1. /\ Len(s) \in Nat /\ Len(t) \in Nat
      /\ DOMAIN s = 1..Len(s) /\ DOMAIN t = 1..Len(t)
      /\ DOMAIN (s \o t) = 1..(Len(s) + Len(t))
      /\ \A i \in 1..(Len(s) + Len(t)) :
           (s \o t)[i] = IF i <= Len(s) THEN s[i] ELSE t[i - Len(s)]
  BY LenProperties, ConcatProperties
<1>2. SUFFICES ASSUME NEW i \in 1..(Len(s) + Len(t)), NEW j \in 1..(Len(s) + Len(t)),
                      key[(s \o t)[i]] = key[(s \o t)[j]]
               PROVE  i = j
  BY <1>1 DEF DistinctKeys
<1>3. CASE i <= Len(s) /\ j <= Len(s)
  <2>1. i \in DOMAIN s /\ j \in DOMAIN s
    BY <1>1, <1>3
  <2> QED BY <2>1, <1>1, <1>2, <1>3 DEF DistinctKeys
<1>4. CASE ~(i <= Len(s)) /\ ~(j <= Len(s))
  <2>1. i - Len(s) \in DOMAIN t /\ j - Len(s) \in DOMAIN t
    BY <1>1, <1>4
  <2>2. i - Len(s) = j - Len(s)
    BY <2>1, <1>1, <1>2, <1>4 DEF DistinctKeys
  <2> QED BY <2>2, <1>1
<1>5. ASSUME NEW a \in 1..Len(s), NEW b \in 1..Len(t)
      PROVE  key[s[a]] # key[t[b]]
  BY <1>1 DEF ToSet
<1>6. CASE i <= Len(s) /\ ~(j <= Len(s))
  <2>1. i \in 1..Len(s) /\ j - Len(s) \in 1..Len(t)
    BY <1>1, <1>6
  <2> QED BY <2>1, <1>1, <1>2, <1>5, <1>6
<1>7. CASE ~(i <= Len(s)) /\ j <= Len(s)
  <2>1. j \in 1..Len(s) /\ i - Len(s) \in 1..Len(t)
    BY <1>1, <1>7
  <2> QED BY <2>1, <1>1, <1>2, <1>5, <1>7
<1> QED BY <1>3, <1>4, <1>6, <1>7

(* When the parts have distinct keys, of their own and among them, so has  *)
(* the flattened sequence.                                                 *)
LEMMA FlattenDistinct ==
  ASSUME NEW S, NEW K, NEW key \in [S -> K], NEW seqs \in Seq(Seq(S)),
         \A k \in 1..Len(seqs) : DistinctKeys(key, seqs[k]),
         \A k, l \in 1..Len(seqs) : k # l =>
           \A a \in ToSet(seqs[k]), b \in ToSet(seqs[l]) : key[a] # key[b]
  PROVE  DistinctKeys(key, FlattenSeq(seqs))
<1>0. /\ Len(seqs) \in Nat
      /\ \A i \in 1..Len(seqs) : seqs[i] \in Seq(S)
  BY LenProperties, ElementOfSeq
<1>1. CASE Len(seqs) = 0
  <2>1. FlattenSeq(seqs) = <<>>
    BY <1>1, EmptySeq DEF FlattenSeq
  <2> QED BY <2>1 DEF DistinctKeys
<1>2. CASE Len(seqs) # 0
  <2>1. PICK f : FlattensTo(seqs, f, S) /\ FlattenSeq(seqs) = f[Len(seqs)]
    BY <1>2, FlattenIsDefined
  <2> DEFINE T == {n \in 1..Len(seqs) : DistinctKeys(key, f[n])}
  <2>2. /\ \A i \in 1..Len(seqs) : f[i] \in Seq(S)
        /\ \A i \in 1..Len(seqs) : f[i] = IF i = 1 THEN seqs[i] ELSE f[i - 1] \o seqs[i]
    BY <2>1 DEF FlattensTo
  <2>3. 1 \in T
    <3>1. 1 \in 1..Len(seqs)
      BY <1>0, <1>2
    <3> QED BY <3>1, <2>2
  <2>4. ASSUME NEW n \in T, n < Len(seqs) PROVE n + 1 \in T
    <3>1. n \in 1..Len(seqs) /\ n + 1 \in 1..Len(seqs) /\ n + 1 # 1 /\ (n + 1) - 1 = n
      BY <1>0, <2>4
    <3>2. DistinctKeys(key, f[n])
      OBVIOUS
    <3> HIDE DEF T
    <3>3. f[n + 1] = f[n] \o seqs[n + 1] /\ f[n] \in Seq(S)
      BY <3>1, <2>2
    <3>4. ASSUME NEW a \in ToSet(f[n]), NEW b \in ToSet(seqs[n + 1]) PROVE key[a] # key[b]
      <4>1. ToSet(f[n]) = HeldUpTo(seqs, n)
        <5>1. \A m \in 1..Len(seqs) : ToSet(f[m]) = HeldUpTo(seqs, m)
          BY <2>1, FlattenPrefixes
        <5> QED BY <5>1, <3>1
      <4>2. PICK k \in 1..n : a \in ToSet(seqs[k])
        BY <4>1 DEF HeldUpTo
      <4>3. k \in 1..Len(seqs) /\ k # n + 1
        BY <3>1, <1>0
      <4> QED BY <4>2, <4>3, <3>1
    <3>5. DistinctKeys(key, f[n] \o seqs[n + 1])
      BY <3>1, <3>2, <3>3, <3>4, <1>0, ConcatDistinct
    <3> QED BY <3>1, <3>3, <3>5 DEF T
  <2>5. T = 1..Len(seqs)
    <3>1. T \in SUBSET (1..Len(seqs))
      OBVIOUS
    <3> HIDE DEF T
    <3> QED BY <3>1, <1>0, <1>2, <2>3, <2>4, UpToInduction
  <2>6. Len(seqs) \in T
    <3> HIDE DEF T
    <3> QED BY <2>5, <1>0, <1>2
  <2> QED BY <2>1, <2>6
<1> QED BY <1>1, <1>2
=============================================================================
