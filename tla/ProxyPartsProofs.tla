-------------------------- MODULE ProxyPartsProofs --------------------------
(***************************************************************************)
(* Theorems about two parts of the proxy that meet in no state: the files  *)
(* of the leaf certificates (LeafCerts), for any handlers, hosts and file  *)
(* names, and the reading of a request (HttpRequest), for any requests a   *)
(* client may send, any size lines and any limits.                         *)
(***************************************************************************)
EXTENDS LeafCerts, HttpRequest, SequenceFacts

(* From the moment it holds a pair to the end.                             *)
Holding == {"cert", "certOpen", "key", "keyOpen", "load", "loadKey", "tunnel",
            "dropped", "done"}

(* A pair in the dict, or held, was minted for the host in question.       *)
PairInv ==
  /\ \A n \in Hosts : leaves[n] \in {Nothing} \cup {Minted(g, n) : g \in Handlers}
  /\ \A h \in Handlers : at[h] = "fetch" => leaves[host[h]] # Nothing
  /\ \A h \in Handlers : at[h] \in Holding =>
       pair[h] \in {Minted(g, host[h]) : g \in Handlers}

(* What a file may hold once a handler of this run has opened it.          *)
Fresh(c, f) == c = Nothing \/ (c \in Pairs /\ FileOf[c.host] = f)

FreshInv ==
  /\ \A h \in Handlers :
       at[h] \in {"certOpen", "key", "keyOpen", "load"} => Fresh(certFile[File(h)], File(h))
  /\ \A h \in Handlers : at[h] \in {"loadKey", "tunnel", "done"} =>
       chain[h] \in Pairs /\ FileOf[chain[h].host] = File(h)

(* A handler nobody disturbs finds in the files what it wrote.             *)
OwnInv ==
  \A h \in Handlers \ disturbed :
    /\ at[h] \in {"key", "keyOpen", "load", "loadKey"} => certFile[File(h)] = pair[h]
    /\ at[h] \in {"load", "loadKey"} => keyFile[File(h)] = pair[h]
    /\ at[h] \in {"loadKey", "tunnel"} => chain[h] = pair[h]
    /\ at[h] \in {"done", "dropped"} => h \in recorded

LeafInv == LeafTypeOK /\ PairInv /\ FreshInv /\ OwnInv

LEMMA PairIsSomething ==
  ASSUME NEW g, NEW n PROVE Minted(g, n) # Nothing
<1>1. DOMAIN Minted(g, n) = {"by", "host"} BY DEF Minted
<1>2. DOMAIN Nothing = {"empty"} BY DEF Nothing
<1>3. "by" \notin {"empty"} OBVIOUS
<1>4. QED BY <1>1, <1>2, <1>3

LEMMA FileIsFile ==
  ASSUME LeafTypeOK, NEW h \in Handlers
  PROVE  File(h) \in Files
BY DEF LeafTypeOK, File, Files

LEMMA MintedIsFresh ==
  ASSUME NEW n \in Hosts, NEW p \in {Minted(g, n) : g \in Handlers}
  PROVE  p \in Pairs /\ p.host = n /\ p # Nothing
BY PairIsSomething DEF Minted, Pairs

(* Types under every step.                                                 *)
LEMMA TypeStep ==
  ASSUME LeafTypeOK, PairInv, NEW h \in Handlers, LeafStep(h)
  PROVE  LeafTypeOK'
<1>1. File(h) \in Files
  BY FileIsFile
<1>2. \A n \in Hosts : Minted(h, n) \in Pairs
  BY DEF Minted, Pairs
<1> USE <1>1, <1>2 DEF LeafTypeOK, Go, Places, Contents, Disturb
<1>3. CASE Connected(h) \/ TestLeaves(h) \/ LoadKey(h) \/ Handshake(h) \/ StepFails(h)
  BY <1>3 DEF Connected, TestLeaves, LoadKey, Handshake, StepFails
<1>4. CASE StoreLeaf(h) \/ FetchLeaf(h)
  BY <1>4 DEF StoreLeaf, FetchLeaf
<1>5. CASE OpenCert(h) \/ WriteCert(h)
  BY <1>5 DEF OpenCert, WriteCert
<1>6. CASE OpenKey(h) \/ WriteKey(h)
  BY <1>6 DEF OpenKey, WriteKey
<1>7. CASE LoadCert(h)
  BY <1>7 DEF LoadCert
<1>8. QED
  BY ONLY LeafStep(h), <1>3, <1>4, <1>5, <1>6, <1>7 DEF LeafStep

(* Pairs under every step: only StoreLeaf and FetchLeaf touch them.        *)
LEMMA PairStep ==
  ASSUME LeafTypeOK, PairInv, NEW h \in Handlers, LeafStep(h)
  PROVE  PairInv'
<1> USE DEF LeafTypeOK, PairInv, Holding, Go
<1>1. CASE StoreLeaf(h)
  <2>1. Minted(h, host[h]) # Nothing
    BY PairIsSomething
  <2>2. QED
    BY <1>1, <2>1 DEF StoreLeaf
<1>2. CASE FetchLeaf(h)
  BY <1>2 DEF FetchLeaf
<1>3. CASE \/ Connected(h) \/ TestLeaves(h) \/ LoadKey(h) \/ Handshake(h)
           \/ LoadCert(h) \/ StepFails(h)
  BY <1>3 DEF Connected, TestLeaves, LoadKey, Handshake, LoadCert, StepFails
<1>4. CASE OpenCert(h) \/ WriteCert(h) \/ OpenKey(h) \/ WriteKey(h)
  BY <1>4 DEF OpenCert, WriteCert, OpenKey, WriteKey
<1>5. QED
  BY ONLY LeafStep(h), <1>1, <1>2, <1>3, <1>4 DEF LeafStep

(* A file once opened in this run never holds an earlier certificate again. *)
LEMMA FreshStep ==
  ASSUME LeafTypeOK, PairInv, FreshInv, NEW h \in Handlers, LeafStep(h)
  PROVE  FreshInv'
<1>1. \A g \in Handlers : File(g) \in Files
  BY FileIsFile
<1>2. ASSUME at[h] \in Holding
      PROVE  pair[h] \in Pairs /\ FileOf[pair[h].host] = File(h)
  BY <1>2, MintedIsFresh DEF PairInv, LeafTypeOK, File
<1> USE <1>1 DEF LeafTypeOK, FreshInv, Fresh, File, Go
<1>3. CASE OpenCert(h)
  BY <1>3 DEF OpenCert
<1>4. CASE WriteCert(h)
  <2>1. pair[h] \in Pairs /\ FileOf[pair[h].host] = File(h)
    BY <1>2, <1>4 DEF WriteCert, Holding
  <2>2. QED
    BY <1>4, <2>1 DEF WriteCert
<1>5. CASE OpenKey(h) \/ WriteKey(h)
  BY <1>5 DEF OpenKey, WriteKey
<1>6. CASE LoadCert(h)
  BY <1>6 DEF LoadCert
<1>7. CASE LoadKey(h) \/ Handshake(h) \/ StepFails(h)
  BY <1>7 DEF LoadKey, Handshake, StepFails
<1>8. CASE Connected(h) \/ TestLeaves(h) \/ StoreLeaf(h) \/ FetchLeaf(h)
  BY <1>8 DEF Connected, TestLeaves, StoreLeaf, FetchLeaf
<1>9. QED
  BY ONLY LeafStep(h), <1>3, <1>4, <1>5, <1>6, <1>7, <1>8 DEF LeafStep

(* Whoever writes a file disturbs all others that use it.                  *)
LEMMA OwnStep ==
  ASSUME LeafTypeOK, PairInv, OwnInv, NEW h \in Handlers, LeafStep(h)
  PROVE  OwnInv'
<1>1. \A g \in Handlers : File(g) \in Files
  BY FileIsFile
<1> USE <1>1 DEF LeafTypeOK, OwnInv, File, Go, Using, Disturb
<1>2. CASE OpenCert(h)
  BY <1>2 DEF OpenCert
<1>3. CASE WriteCert(h)
  BY <1>3 DEF WriteCert
<1>4. CASE OpenKey(h)
  BY <1>4 DEF OpenKey
<1>5. CASE WriteKey(h)
  BY <1>5 DEF WriteKey
<1>6. CASE LoadCert(h)
  <2>1. PICK g \in Handlers : pair[h] = Minted(g, host[h])
    BY <1>6 DEF LoadCert, PairInv, Holding
  <2>2. pair[h] # Nothing
    BY ONLY <2>1, PairIsSomething
  <2>3. QED
    BY <1>6, <2>2 DEF LoadCert
<1>7. CASE LoadKey(h)
  BY <1>7 DEF LoadKey
<1>8. CASE Handshake(h)
  <2>1. pair[h] \in {Minted(g, host[h]) : g \in Handlers}
    BY <1>8 DEF Handshake, PairInv, Holding
  <2>2. QED
    BY <1>8, <2>1 DEF Handshake
<1>9. CASE Connected(h) \/ TestLeaves(h) \/ StoreLeaf(h) \/ StepFails(h)
  BY <1>9 DEF Connected, TestLeaves, StoreLeaf, StepFails
<1>10. CASE FetchLeaf(h)
  BY <1>10 DEF FetchLeaf
<1>11. QED
  BY ONLY LeafStep(h), <1>2, <1>3, <1>4, <1>5, <1>6, <1>7, <1>8, <1>9, <1>10 DEF LeafStep

(* The four parts together are inductive.                                  *)
LEMMA LeafInductive == LeafSpec => []LeafInv
<1>1. LeafInit => LeafInv
  BY DEF LeafInit, LeafInv, LeafTypeOK, PairInv, FreshInv, OwnInv, Places, Contents, Holding
<1>2. LeafInv /\ [LeafNext]_leafVars => LeafInv'
  <2> SUFFICES ASSUME LeafInv, [LeafNext]_leafVars PROVE LeafInv'
    OBVIOUS
  <2>1. CASE UNCHANGED leafVars
    BY <2>1 DEF leafVars, LeafInv, LeafTypeOK, PairInv, FreshInv, OwnInv, Fresh, File
  <2>2. ASSUME NEW h \in Handlers, LeafStep(h) PROVE LeafInv'
    BY <2>2, TypeStep, PairStep, FreshStep, OwnStep DEF LeafInv
  <2>3. QED
    BY <2>1, <2>2 DEF LeafNext
<1>3. QED
  BY <1>1, <1>2, PTL DEF LeafSpec

(* The dict, the files and the handlers' places keep their types.          *)
THEOREM LeafTypeCorrect == LeafSpec => []LeafTypeOK
<1>1. LeafInv => LeafTypeOK
  BY DEF LeafInv
<1>2. QED
  BY <1>1, LeafInductive, PTL

(* ca.py:63: whatever an earlier run left in the directory and however     *)
(* many handlers race, a chain that loads is of this run's authority.      *)
THEOREM ServedLeafIsCurrent == LeafSpec => []LoadedIsCurrent
<1>1. LeafInv => LoadedIsCurrent
  BY DEF LeafInv, FreshInv, LoadedIsCurrent
<1>2. QED
  BY <1>1, LeafInductive, PTL

(* ca.py:63: a handler none of whose own steps fails loses its request     *)
(* only if another handler wrote the same files while it used them; races  *)
(* in the dict, and failures of other handlers, cannot cost it anything.   *)
(* For the handlers of the proxy: the package is no writer here.           *)
THEOREM OnlyWritersDisturb == LeafSpec => []UndisturbedIsServed
<1>1. LeafInv => UndisturbedIsServed
  BY DEF LeafInv, OwnInv, UndisturbedIsServed
<1>2. QED
  BY <1>1, LeafInductive, PTL

-----------------------------------------------------------------------------
Text == Seq(Units)

(* s is a beginning of t, element by element.                              *)
Begins(s, t) == Len(s) <= Len(t) /\ \A i \in 1..Len(s) : t[i] = s[i]

LEMMA BeginsIsPrefix ==
  ASSUME NEW s \in Text, NEW t \in Text, Begins(s, t)
  PROVE  IsPrefix(s, t)
<1>1. Len(s) \in Nat /\ Len(t) \in Nat /\ Len(s) <= Len(t)
  BY LenProperties DEF Text, Begins
<1>2. SubSeq(s, 1, Len(s)) = SubSeq(t, 1, Len(s))
  <2> DEFINE a == SubSeq(s, 1, Len(s))
             b == SubSeq(t, 1, Len(s))
  <2>1. /\ a \in Text /\ Len(a) = Len(s) /\ \A i \in 1..Len(s) : a[i] = s[i]
        /\ b \in Text /\ Len(b) = Len(s) /\ \A i \in 1..Len(s) : b[i] = t[i]
    BY <1>1, SubSeqProperties DEF Text
  <2> HIDE DEF a, b
  <2>2. a = b
    BY <2>1, SeqEqual DEF Text, Begins
  <2>3. QED
    BY <2>2 DEF a, b
<1>3. QED
  BY <1>1, <1>2 DEF IsPrefix

LEMMA BeginsConcat ==
  ASSUME NEW s \in Text, NEW t \in Text
  PROVE  Begins(s, s \o t) /\ s \o t \in Text
BY ConcatProperties, LenProperties DEF Text, Begins

LEMMA BeginsBoth ==
  ASSUME NEW s \in Text, NEW t \in Text, NEW u \in Text, Begins(t, u)
  PROVE  Begins(s \o t, s \o u)
<1>1. Len(s) \in Nat /\ Len(t) \in Nat /\ Len(u) \in Nat /\ Len(t) <= Len(u)
  BY LenProperties DEF Text, Begins
<1>2. /\ Len(s \o t) = Len(s) + Len(t) /\ Len(s \o u) = Len(s) + Len(u)
      /\ \A i \in 1..(Len(s) + Len(t)) : (s \o t)[i] = IF i <= Len(s) THEN s[i] ELSE t[i - Len(s)]
      /\ \A i \in 1..(Len(s) + Len(u)) : (s \o u)[i] = IF i <= Len(s) THEN s[i] ELSE u[i - Len(s)]
  BY ConcatProperties DEF Text
<1>3. ASSUME NEW i \in 1..(Len(s) + Len(t)) PROVE (s \o u)[i] = (s \o t)[i]
  <2>1. i \in 1..(Len(s) + Len(u)) /\ (~(i <= Len(s)) => i - Len(s) \in 1..Len(t))
    BY <1>1
  <2>2. QED
    BY <1>2, <2>1 DEF Begins
<1>4. QED
  BY <1>1, <1>2, <1>3 DEF Begins

LEMMA BeginsTrans ==
  ASSUME NEW s \in Text, NEW t \in Text, NEW u \in Text, Begins(s, t), Begins(t, u)
  PROVE  Begins(s, u)
BY LenProperties DEF Text, Begins

(* The cut of a text at n.                                                 *)
LEMMA CutFacts ==
  ASSUME NEW s \in Text, NEW n \in 0..Len(s)
  PROVE  /\ SubSeq(s, 1, n) \in Text /\ Len(SubSeq(s, 1, n)) = n
         /\ \A i \in 1..n : SubSeq(s, 1, n)[i] = s[i]
<1>1. Len(s) \in Nat
  BY LenProperties DEF Text
<1>2. QED
  BY <1>1, SubSeqProperties DEF Text

(* Where each begins the next, each begins the last.                       *)
LEMMA BeginsChain ==
  ASSUME NEW n \in Nat, NEW g \in [0..n -> Text], \A k \in 1..n : Begins(g[k - 1], g[k])
  PROVE  \A k \in 0..n : Begins(g[k], g[n])
<1> DEFINE T == {j \in 0..n : \A k \in 0..j : Begins(g[k], g[j])}
<1>1. \A t \in Text : Begins(t, t)
  BY LenProperties DEF Text, Begins
<1>2. 0 \in T /\ T \in SUBSET (0..n)
  BY <1>1
<1>3. ASSUME NEW j \in T, j < n PROVE j + 1 \in T
  <2>1. j \in 0..n /\ j + 1 \in 1..n /\ j + 1 \in 0..n /\ (j + 1) - 1 = j
    BY <1>3
  <2>2. Begins(g[j], g[j + 1])
    BY <2>1
  <2>3. ASSUME NEW k \in 0..(j + 1) PROVE Begins(g[k], g[j + 1])
    <3>1. CASE k = j + 1
      BY <1>1, <2>1, <3>1
    <3>2. CASE k # j + 1
      <4>1. k \in 0..j /\ k \in 0..n
        BY <2>1, <3>2
      <4>2. Begins(g[k], g[j])
        BY <4>1
      <4>3. QED
        BY <2>1, <2>2, <4>1, <4>2, BeginsTrans
    <3>3. QED
      BY <3>1, <3>2
  <2>4. QED
    BY <2>1, <2>3
<1>4. T = 0..n
  <2> HIDE DEF T
  <2>1. QED
    BY <1>2, <1>3, FromZeroInduction
<1>5. QED
  BY <1>4

-----------------------------------------------------------------------------
(* The header section ends where it ends, however much has arrived.        *)
Ends(s) == {i \in 2..Len(s) : s[i] = "nl" /\ s[i - 1] = "nl"}

LEMMA FirstEnd ==
  ASSUME NEW s \in Text, HeaderEnd(s) # 0
  PROVE  HeaderEnd(s) \in Ends(s) /\ \A i \in Ends(s) : HeaderEnd(s) <= i
<1>1. Ends(s) # {} /\ HeaderEnd(s) = Min(Ends(s)) /\ Ends(s) \in SUBSET Nat
  BY LenProperties DEF HeaderEnd, Ends, Text
<1>2. \E m \in Ends(s) : \A i \in Ends(s) : m <= i
  BY <1>1, LeastNatural
<1>3. QED
  BY <1>1, <1>2 DEF Min

LEMMA EndIsFound ==
  ASSUME NEW s \in Text, NEW i \in Ends(s)
  PROVE  HeaderEnd(s) # 0
<1>1. Ends(s) # {} /\ HeaderEnd(s) = Min(Ends(s)) /\ Ends(s) \in SUBSET Nat
  BY LenProperties DEF HeaderEnd, Ends, Text
<1>2. \E m \in Ends(s) : \A j \in Ends(s) : m <= j
  BY <1>1, LeastNatural
<1>3. Min(Ends(s)) \in Ends(s)
  BY <1>2 DEF Min
<1>4. QED
  BY <1>1, <1>3, LenProperties DEF Ends, Text

LEMMA RestFacts ==
  ASSUME NEW s \in Text, HeaderEnd(s) # 0
  PROVE  /\ Rest(s) \in Text /\ Len(Rest(s)) = Len(s) - HeaderEnd(s) /\ HeaderEnd(s) \in 2..Len(s)
         /\ \A i \in 1..Len(Rest(s)) : Rest(s)[i] = s[HeaderEnd(s) + i]
<1>1. HeaderEnd(s) \in 2..Len(s) /\ Len(s) \in Nat
  BY FirstEnd, LenProperties DEF Ends, Text
<1>2. QED
  BY <1>1, SubSeqProperties DEF Rest, Text

LEMMA HeaderCut ==
  ASSUME NEW s \in Text, NEW n \in 0..Len(s), HeaderEnd(SubSeq(s, 1, n)) # 0
  PROVE  /\ HeaderEnd(s) = HeaderEnd(SubSeq(s, 1, n)) /\ HeaderEnd(s) \in 2..n
         /\ Rest(SubSeq(s, 1, n)) = SubSeq(Rest(s), 1, n - HeaderEnd(s))
<1> DEFINE g == SubSeq(s, 1, n)
<1>1. g \in Text /\ Len(g) = n /\ (\A i \in 1..n : g[i] = s[i]) /\ Len(s) \in Nat
  BY CutFacts, LenProperties DEF Text
<1> HIDE DEF g
<1>2. HeaderEnd(g) \in Ends(g) /\ \A i \in Ends(g) : HeaderEnd(g) <= i
  BY <1>1, FirstEnd DEF g
<1>3. HeaderEnd(g) \in 2..n /\ HeaderEnd(g) \in Ends(s)
  <2>1. HeaderEnd(g) \in 2..n /\ HeaderEnd(g) - 1 \in 1..n
    BY <1>1, <1>2 DEF Ends
  <2>2. QED
    BY <1>1, <1>2, <2>1 DEF Ends
<1>4. HeaderEnd(s) # 0 /\ HeaderEnd(s) \in Ends(s) /\ \A i \in Ends(s) : HeaderEnd(s) <= i
  BY <1>3, EndIsFound, FirstEnd
<1>5. HeaderEnd(s) <= HeaderEnd(g) /\ HeaderEnd(s) \in 2..n /\ HeaderEnd(s) - 1 \in 1..n
  BY <1>1, <1>3, <1>4 DEF Ends
<1>6. HeaderEnd(s) \in Ends(g)
  BY <1>1, <1>4, <1>5 DEF Ends
<1>7. HeaderEnd(s) = HeaderEnd(g)
  BY <1>2, <1>3, <1>5, <1>6
<1>8. Rest(g) = SubSeq(Rest(s), 1, n - HeaderEnd(s))
  <2> DEFINE h == HeaderEnd(s)
             c == SubSeq(Rest(s), 1, n - h)
  <2>1. h \in 2..n
    BY <1>5
  <2>2. /\ Rest(s) \in Text /\ Len(Rest(s)) = Len(s) - h
        /\ \A i \in 1..Len(Rest(s)) : Rest(s)[i] = s[h + i]
    BY <1>4, RestFacts
  <2>3. /\ Rest(g) \in Text /\ Len(Rest(g)) = n - h
        /\ \A i \in 1..Len(Rest(g)) : Rest(g)[i] = g[h + i]
    <3>1. HeaderEnd(g) # 0
      BY <1>3
    <3>2. QED
      BY <1>1, <1>7, <3>1, RestFacts
  <2> HIDE DEF h
  <2>4. n - h \in 0..Len(Rest(s))
    BY <1>1, <2>1, <2>2
  <2>5. c \in Text /\ Len(c) = n - h /\ \A i \in 1..(n - h) : c[i] = Rest(s)[i]
    BY <2>2, <2>4, CutFacts
  <2> HIDE DEF c
  <2>6. \A i \in 1..(n - h) : Rest(g)[i] = c[i]
    <3>1. ASSUME NEW i \in 1..(n - h) PROVE Rest(g)[i] = c[i]
      <4>1. h + i \in 1..n /\ i \in 1..Len(Rest(s)) /\ i \in 1..Len(Rest(g))
        BY <1>1, <2>1, <2>2, <2>3
      <4>2. QED
        BY <1>1, <2>2, <2>3, <2>5, <4>1
    <3>2. QED
      BY <3>1
  <2>7. Rest(g) = c
    BY <2>3, <2>5, <2>6, SeqEqual DEF Text
  <2>8. QED
    BY <2>7 DEF c, h
<1>9. QED
  BY <1>5, <1>7, <1>8 DEF g
-----------------------------------------------------------------------------
(* The loop of _dechunk: where it reads on, and the data so far.           *)
Readers == [at : Nat \ {0}, out : Text]
Start == [at |-> 1, out |-> <<>>]
Reads(s, f) == f \in [0..Len(s) -> Readers] /\ f[0] = Start /\ \A k \in 1..Len(s) : f[k] = NextChunk(s, f[k - 1])

(* d is what s has from a to b.                                            *)
SliceOf(d, s, a, b) ==
  /\ d \in Text
  /\ b <= Len(s) /\ a <= b + 1 => Len(d) = b + 1 - a
  /\ b > Len(s) /\ a <= Len(s) + 1 => Len(d) = Len(s) + 1 - a
  /\ a > Len(s) => d = <<>>
  /\ \A i \in 1..Len(d) : d[i] = s[a + i - 1]

LEMMA SliceFacts ==
  ASSUME NEW s \in Text, NEW a \in Nat \ {0}, NEW b \in Nat
  PROVE  SliceOf(Slice(s, a, b), s, a, b)
<1> DEFINE e == IF b <= Len(s) THEN b ELSE Len(s)
<1>1. Len(s) \in Nat /\ e \in Nat /\ e <= Len(s) /\ Slice(s, a, b) = SubSeq(s, a, e)
  BY LenProperties DEF Text, Slice
<1>2. /\ SubSeq(s, a, e) \in Text
      /\ Len(SubSeq(s, a, e)) = IF a <= e THEN e - a + 1 ELSE 0
      /\ \A i \in 1..(e - a + 1) : SubSeq(s, a, e)[i] = s[a + i - 1]
  <2>1. \A i \in a..e : s[i] \in Units
    BY <1>1, ElementOfSeq DEF Text
  <2> HIDE DEF e
  <2>2. QED
    BY <1>1, <2>1, SubSeqProperties DEF Text
<1>3. a > Len(s) => SubSeq(s, a, e) = <<>>
  <2>1. a > Len(s) => Len(SubSeq(s, a, e)) = 0
    BY <1>1, <1>2
  <2>2. QED
    BY <1>2, <2>1, EmptySeq DEF Text
<1>4. QED
  BY <1>1, <1>2, <1>3 DEF SliceOf

LEMMA NextFacts ==
  ASSUME NEW s \in Text, NEW p \in Readers
  PROVE  NextChunk(s, p) \in Readers /\ Begins(p.out, NextChunk(s, p).out)
<1>1. p.at \in Nat \ {0} /\ p.out \in Text
  BY DEF Readers
<1>2. CASE ~IsSize(s, p.at)
  BY <1>1, <1>2, LenProperties DEF NextChunk, Begins, Text
<1>3. CASE IsSize(s, p.at)
  <2>1. Sizes[s[p.at]] \in Nat
    BY <1>3, SizesAssumption DEF IsSize
  <2> DEFINE d == Slice(s, p.at + 2, p.at + 1 + Sizes[s[p.at]])
  <2>2. d \in Text
    <3>1. p.at + 2 \in Nat \ {0} /\ p.at + 1 + Sizes[s[p.at]] \in Nat
      BY <1>1, <2>1
    <3>2. SliceOf(d, s, p.at + 2, p.at + 1 + Sizes[s[p.at]])
      BY <3>1, SliceFacts
    <3>3. QED
      BY <3>2 DEF SliceOf
  <2>3. NextChunk(s, p) = [at |-> p.at + Sizes[s[p.at]] + 3, out |-> p.out \o d]
    BY <1>3 DEF NextChunk
  <2> HIDE DEF d
  <2>4. p.at + Sizes[s[p.at]] + 3 \in Nat \ {0}
    BY <1>1, <2>1
  <2>5. QED
    BY <1>1, <2>2, <2>3, <2>4, BeginsConcat DEF Readers
<1>4. QED
  BY <1>2, <1>3

(* The recursion of _dechunk has a solution.                               *)
LEMMA DechunkReads ==
  ASSUME NEW s \in Text
  PROVE  \E f : Reads(s, f) /\ _dechunk(s) = f[Len(s)].out
<1> DEFINE n == Len(s)
           turn == [p \in Readers |-> [k \in 1..n |-> NextChunk(s, p)]]
           IsFix(f) == f = [k \in 0..n |-> IF k = 0 THEN Start ELSE NextChunk(s, f[k - 1])]
           after == CHOOSE f : IsFix(f)
<1>1. n \in Nat /\ Start \in Readers
  BY LenProperties DEF Text, Readers, Start
<1>2. IsLoop(n, Readers, Start, turn)
  BY <1>1, NextFacts DEF IsLoop
<1>3. PICK f : IsRunOf(f, n, Readers, Start, turn)
  <2> HIDE DEF turn, n
  <2>1. QED
    BY <1>2, LoopRuns
<1>4. f \in [0..n -> Readers] /\ f[0] = Start /\ \A k \in 1..n : f[k] = turn[f[k - 1]][k]
  BY <1>3 DEF IsRunOf
<1>5. \A k \in 1..n : f[k - 1] \in Readers /\ f[k] = NextChunk(s, f[k - 1])
  <2>1. ASSUME NEW k \in 1..n PROVE f[k - 1] \in Readers /\ f[k] = NextChunk(s, f[k - 1])
    <3>1. k - 1 \in 0..n
      BY <1>1
    <3>2. QED
      BY <1>4, <3>1
  <2>2. QED
    BY <2>1
<1>6. IsFix(f)
  <2> HIDE DEF turn, n
  <2>1. f = [k \in 0..n |-> f[k]]
    BY <1>4
  <2>2. \A k \in 0..n : f[k] = IF k = 0 THEN Start ELSE NextChunk(s, f[k - 1])
    BY <1>1, <1>4, <1>5
  <2>3. QED
    BY <2>1, <2>2
<1>7. IsFix(after)
  <2> HIDE DEF IsFix
  <2>1. QED
    BY <1>6
<1>8. after[0] = Start /\ \A k \in 1..n : after[k] = NextChunk(s, after[k - 1])
  <2> HIDE DEF after
  <2>1. QED
    BY <1>1, <1>7
<1>9. \A k \in 0..n : after[k] = f[k]
  <2> DEFINE T == {k \in 0..n : after[k] = f[k]}
  <2> HIDE DEF after, turn, n
  <2>1. T \in SUBSET (0..n) /\ 0 \in T
    BY <1>1, <1>4, <1>8
  <2>2. ASSUME NEW k \in T, k < n PROVE k + 1 \in T
    <3>1. k + 1 \in 1..n /\ (k + 1) - 1 = k /\ after[k] = f[k] /\ k + 1 \in 0..n
      BY <1>1, <2>2
    <3>2. after[k + 1] = f[k + 1]
      BY <1>5, <1>8, <3>1
    <3>3. QED
      BY <3>1, <3>2
  <2>3. T = 0..n
    <3> HIDE DEF T
    <3>1. QED
      BY <1>1, <2>1, <2>2, FromZeroInduction
  <2>4. QED
    BY <2>3
<1>10. Reads(s, f)
  BY <1>4, <1>5 DEF Reads
<1>11. _dechunk(s) = after[n].out
  BY DEF _dechunk, Start
<1>12. after[n] = f[n]
  <2> HIDE DEF after, n
  <2>1. QED
    BY <1>1, <1>9
<1>13. QED
  <2> HIDE DEF after
  <2>1. QED
    BY <1>10, <1>11, <1>12

LEMMA ReadsGrow ==
  ASSUME NEW s \in Text, NEW f, Reads(s, f)
  PROVE  \A k \in 0..Len(s) : f[k] \in Readers /\ Begins(f[k].out, f[Len(s)].out)
<1> DEFINE g == [k \in 0..Len(s) |-> f[k].out]
<1>1. Len(s) \in Nat /\ \A k \in 0..Len(s) : f[k] \in Readers /\ f[k].out \in Text
  BY LenProperties DEF Text, Reads, Readers
<1>2. g \in [0..Len(s) -> Text]
  BY <1>1
<1>3. ASSUME NEW k \in 1..Len(s) PROVE Begins(g[k - 1], g[k])
  <2>1. k - 1 \in 0..Len(s) /\ k \in 0..Len(s) /\ f[k] = NextChunk(s, f[k - 1])
    BY <1>1 DEF Reads
  <2>2. QED
    BY <1>1, <2>1, NextFacts
<1>4. \A k \in 0..Len(s) : Begins(g[k], g[Len(s)])
  <2> HIDE DEF g
  <2>1. QED
    BY <1>1, <1>2, <1>3, BeginsChain
<1>5. QED
  BY <1>1, <1>4

(* Reading a beginning r of s: the same so far, or done with a beginning.  *)
Behind(r, p, q) == p = q \/ (~IsSize(r, p.at) /\ Begins(p.out, q.out))

LEMMA BehindStep ==
  ASSUME NEW s \in Text, NEW r \in Text, Begins(r, s), NEW p \in Readers, NEW q \in Readers,
         Behind(r, p, q)
  PROVE  Behind(r, NextChunk(r, p), NextChunk(s, q))
<1>1. /\ p.at \in Nat \ {0} /\ p.out \in Text /\ q.out \in Text /\ Len(r) \in Nat /\ Len(s) \in Nat
      /\ Len(r) <= Len(s) /\ \A i \in 1..Len(r) : s[i] = r[i]
  BY LenProperties DEF Readers, Text, Begins
<1>2. NextChunk(s, q) \in Readers /\ Begins(q.out, NextChunk(s, q).out)
  BY NextFacts
<1>3. NextChunk(s, q).out \in Text
  BY <1>2 DEF Readers
<1>4. CASE ~IsSize(r, p.at)
  <2>1. NextChunk(r, p) = p
    BY <1>4 DEF NextChunk
  <2>2. Begins(p.out, q.out)
    BY <1>1, LenProperties DEF Behind, Begins, Text
  <2>3. Begins(p.out, NextChunk(s, q).out)
    BY <1>1, <1>2, <1>3, <2>2, BeginsTrans
  <2>4. QED
    BY <1>4, <2>1, <2>3 DEF Behind
<1>5. CASE IsSize(r, p.at)
  <2>1. p = q
    BY <1>5 DEF Behind
  <2>2. p.at \in 1..Len(r) /\ s[p.at] = r[p.at]
    BY <1>1, <1>5 DEF IsSize
  <2> DEFINE k == Sizes[r[p.at]]
             a == p.at + 2
             b == p.at + 1 + k
             d == Slice(r, a, b)
             e == Slice(s, a, b)
  <2>3. k \in Nat \ {0}
    BY <1>5, SizesAssumption DEF IsSize
  <2>4. a \in Nat \ {0} /\ b \in Nat /\ a = p.at + 2 /\ b = p.at + 1 + k /\ a <= b
    <3> HIDE DEF k
    <3>1. QED
      BY <1>1, <2>3
  <2>5. SliceOf(d, r, a, b) /\ SliceOf(e, s, a, b)
    <3> HIDE DEF a, b
    <3>1. QED
      BY <2>4, SliceFacts
  <2>6. NextChunk(r, p) = [at |-> p.at + k + 3, out |-> p.out \o d]
    BY <1>5 DEF NextChunk
  <2>7. CASE ~IsSize(s, p.at)
    <3>1. p.at = Len(r)
      <4>1. p.at < Len(r) => p.at + 1 \in 1..Len(r)
        BY <1>1, <2>2
      <4>2. QED
        BY <1>1, <1>5, <2>2, <2>7, <4>1 DEF IsSize
    <3>2. ~IsSize(r, p.at + k + 3)
      BY <1>1, <2>3, <3>1 DEF IsSize
    <3> HIDE DEF a, b, d, e, k
    <3>3. p.out \o d = p.out
      <4>1. d = <<>>
        BY <1>1, <2>4, <2>5, <3>1 DEF SliceOf
      <4>2. QED
        BY <1>1, <4>1, ConcatEmptySeq DEF Text
    <3>4. Begins(p.out, NextChunk(s, q).out)
      BY <1>2, <2>1
    <3>5. QED
      BY <2>6, <3>2, <3>3, <3>4 DEF Behind
  <2>8. CASE IsSize(s, p.at)
    <3>1. NextChunk(s, q) = [at |-> p.at + k + 3, out |-> p.out \o e]
      BY <2>1, <2>2, <2>8 DEF NextChunk
    <3>2. b > Len(r) => ~IsSize(r, p.at + k + 3)
      BY <1>1, <2>3 DEF IsSize
    <3> HIDE DEF a, b, d, e, k
    <3>3. /\ d \in Text /\ e \in Text /\ Len(d) \in Nat /\ Len(e) \in Nat
          /\ a <= b + 1
      BY <1>1, <2>3, <2>4, <2>5, LenProperties DEF SliceOf, Text
    <3>n. /\ Len(r) \in Nat /\ Len(s) \in Nat /\ Len(r) <= Len(s)
          /\ a \in Nat /\ b \in Nat /\ 1 <= a /\ a <= b
      BY <1>1, <2>4
    <3>4. /\ Len(d) <= Len(e) /\ (Len(d) = 0 \/ a + Len(d) - 1 <= Len(r))
          /\ b <= Len(r) => Len(d) = Len(e)
      <4>1. CASE a > Len(r)
        <5>1. d = <<>> /\ Len(d) = 0
          BY <2>5, <4>1 DEF SliceOf
        <5>2. ~(b <= Len(r))
          BY <3>n, <4>1
        <5>3. QED
          BY <3>3, <5>1, <5>2
      <4>2. CASE a <= Len(r) /\ b <= Len(r)
        <5>1. Len(d) = b + 1 - a /\ Len(e) = b + 1 - a
          <6>1. b <= Len(s)
            BY <3>n, <4>2
          <6>2. QED
            BY <2>5, <3>3, <4>2, <6>1 DEF SliceOf
        <5>2. QED
          BY <3>n, <4>2, <5>1
      <4>3. CASE a <= Len(r) /\ ~(b <= Len(r))
        <5>1. Len(d) = Len(r) + 1 - a
          <6>1. b > Len(r) /\ a <= Len(r) + 1
            BY <3>n, <4>3
          <6>2. QED
            BY <2>5, <6>1 DEF SliceOf
        <5>2. Len(e) >= Len(r) + 1 - a
          <6>1. CASE b <= Len(s)
            <7>1. Len(e) = b + 1 - a
              BY <2>5, <3>3, <6>1 DEF SliceOf
            <7>2. QED
              BY <3>n, <4>3, <7>1
          <6>2. CASE ~(b <= Len(s))
            <7>1. b > Len(s) /\ a <= Len(s) + 1
              BY <3>n, <4>3, <6>2
            <7>2. Len(e) = Len(s) + 1 - a
              BY <2>5, <7>1 DEF SliceOf
            <7>3. QED
              BY <3>n, <4>3, <7>2
          <6>3. QED
            BY <6>1, <6>2
        <5>3. QED
          BY <3>n, <3>3, <4>3, <5>1, <5>2
      <4>4. QED
        BY <3>n, <4>1, <4>2, <4>3
    <3>5. Begins(d, e)
      <4>1. ASSUME NEW i \in 1..Len(d) PROVE e[i] = d[i]
        <5>1. i \in 1..Len(e)
          BY <3>3, <3>4
        <5>2. a + i - 1 \in 1..Len(r)
          BY <3>n, <3>3, <3>4
        <5>3. s[a + i - 1] = r[a + i - 1]
          BY <1>1, <5>2
        <5>4. QED
          BY <2>5, <5>1, <5>3 DEF SliceOf
      <4>2. QED
        BY <3>4, <4>1 DEF Begins
    <3>6. CASE b <= Len(r)
      <4>1. d = e
        BY <3>3, <3>4, <3>5, <3>6, SeqEqual DEF Begins, Text
      <4>2. QED
        BY <2>6, <3>1, <4>1 DEF Behind
    <3>7. CASE ~(b <= Len(r))
      <4>1. Begins(p.out \o d, p.out \o e)
        BY <1>1, <3>3, <3>5, BeginsBoth
      <4>2. QED
        BY <1>1, <2>4, <2>6, <3>1, <3>2, <3>7, <4>1 DEF Behind
    <3>8. QED
      BY <3>6, <3>7
  <2>9. QED
    BY <2>7, <2>8
<1>6. QED
  BY <1>4, <1>5

(* What _dechunk makes of a beginning is a beginning of what it makes of   *)
(* the whole, whatever the text.                                           *)
LEMMA DechunkCut ==
  ASSUME NEW s \in Text, NEW n \in 0..Len(s)
  PROVE  /\ _dechunk(s) \in Text /\ _dechunk(SubSeq(s, 1, n)) \in Text
         /\ Begins(_dechunk(SubSeq(s, 1, n)), _dechunk(s))
<1>1. PICK r \in Text : r = SubSeq(s, 1, n) /\ Len(r) = n /\ \A i \in 1..n : r[i] = s[i]
  BY CutFacts
<1>2. PICK f : Reads(s, f) /\ _dechunk(s) = f[Len(s)].out
  BY DechunkReads
<1>3. PICK g : Reads(r, g) /\ _dechunk(r) = g[Len(r)].out
  BY DechunkReads
<1>4. n \in Nat /\ Len(s) \in Nat /\ n <= Len(s) /\ Begins(r, s) /\ n \in 0..Len(s)
  BY <1>1, LenProperties DEF Text, Begins
<1>5. /\ f \in [0..Len(s) -> Readers] /\ f[0] = Start /\ \A k \in 1..Len(s) : f[k] = NextChunk(s, f[k - 1])
      /\ g \in [0..n -> Readers] /\ g[0] = Start /\ \A k \in 1..n : g[k] = NextChunk(r, g[k - 1])
  BY <1>1, <1>2, <1>3 DEF Reads
<1> DEFINE T == {k \in 0..n : Behind(r, g[k], f[k])}
<1>6. 0 \in T /\ T \in SUBSET (0..n)
  BY <1>4, <1>5 DEF Behind
<1>7. ASSUME NEW k \in T, k < n PROVE k + 1 \in T
  <2>1. k \in 0..n /\ k \in 0..Len(s) /\ k + 1 \in 1..n /\ k + 1 \in 1..Len(s) /\ (k + 1) - 1 = k
        /\ Behind(r, g[k], f[k]) /\ k + 1 \in 0..n
    BY <1>4, <1>7
  <2>2. g[k + 1] = NextChunk(r, g[k]) /\ f[k + 1] = NextChunk(s, f[k])
    BY <1>5, <2>1
  <2>3. Behind(r, g[k + 1], f[k + 1])
    BY <1>4, <1>5, <2>1, <2>2, BehindStep
  <2>4. QED
    BY <2>1, <2>3
<1>8. Behind(r, g[n], f[n])
  <2>1. T = 0..n
    <3> HIDE DEF T
    <3>1. QED
      BY <1>4, <1>6, <1>7, FromZeroInduction
  <2>2. QED
    BY <1>4, <2>1
<1>9. /\ f[n].out \in Text /\ g[n].out \in Text /\ f[Len(s)].out \in Text
      /\ Begins(f[n].out, f[Len(s)].out)
  <2>1. \A k \in 0..Len(s) : f[k] \in Readers /\ Begins(f[k].out, f[Len(s)].out)
    BY <1>2, ReadsGrow
  <2>2. g[n] \in Readers /\ Len(s) \in 0..Len(s)
    BY <1>4, <1>5
  <2>3. QED
    BY <1>4, <2>1, <2>2 DEF Readers
<1>10. Begins(g[n].out, f[n].out)
  BY <1>8, <1>9, LenProperties DEF Behind, Begins, Text
<1>11. QED
  BY <1>1, <1>2, <1>3, <1>9, <1>10, BeginsTrans
-----------------------------------------------------------------------------
(* A flattened sequence grows by one of its parts after the other.         *)
Accumulates(seqs, f) ==
  /\ f \in [0..Len(seqs) -> Text] /\ f[0] = <<>>
  /\ \A k \in 1..Len(seqs) : f[k] = f[k - 1] \o seqs[k]

LEMMA FlattenAccumulates ==
  ASSUME NEW seqs \in Seq(Text)
  PROVE  \E f : Accumulates(seqs, f) /\ FlattenSeq(seqs) = f[Len(seqs)]
<1>1. Len(seqs) \in Nat /\ \A k \in 1..Len(seqs) : seqs[k] \in Text
  BY LenProperties, ElementOfSeq
<1>2. <<>> \in Text /\ \A t \in Text : <<>> \o t = t
  BY EmptySeq, ConcatEmptySeq DEF Text
<1>3. CASE Len(seqs) = 0
  <2> DEFINE f == [k \in 0..Len(seqs) |-> <<>>]
  <2>1. seqs = <<>> /\ FlattenSeq(seqs) = seqs
    BY <1>3, EmptySeq DEF FlattenSeq
  <2>2. f \in [0..Len(seqs) -> Text] /\ f[0] = <<>> /\ f[Len(seqs)] = <<>> /\ 1..Len(seqs) = {}
    BY <1>2, <1>3
  <2> HIDE DEF f
  <2>3. QED
    BY <2>1, <2>2 DEF Accumulates
<1>4. CASE Len(seqs) # 0
  <2>1. PICK g : FlattensTo(seqs, g, Units) /\ FlattenSeq(seqs) = g[Len(seqs)]
    BY <1>4, FlattenIsDefined DEF Text
  <2> DEFINE f == [k \in 0..Len(seqs) |-> IF k = 0 THEN <<>> ELSE g[k]]
  <2>2. /\ \A k \in 1..Len(seqs) : g[k] \in Text
        /\ \A k \in 1..Len(seqs) : g[k] = IF k = 1 THEN seqs[k] ELSE g[k - 1] \o seqs[k]
    BY <2>1 DEF FlattensTo, Text
  <2>3. f \in [0..Len(seqs) -> Text] /\ f[0] = <<>> /\ f[Len(seqs)] = g[Len(seqs)]
    BY <1>1, <1>2, <1>4, <2>2
  <2>4. ASSUME NEW k \in 1..Len(seqs) PROVE f[k] = f[k - 1] \o seqs[k]
    <3>1. k - 1 \in 0..Len(seqs) /\ k \in 0..Len(seqs) /\ k # 0
      BY <1>1
    <3>2. CASE k = 1
      <4>1. f[k] = seqs[k] /\ f[k - 1] = <<>>
        BY <2>2, <3>1, <3>2
      <4>2. QED
        BY <1>1, <1>2, <4>1
    <3>3. CASE k # 1
      <4>1. k - 1 # 0
        BY <1>1, <3>3
      <4>2. QED
        BY <2>2, <3>1, <3>3, <4>1
    <3>4. QED
      BY <3>2, <3>3
  <2> HIDE DEF f
  <2>5. QED
    BY <2>1, <2>3, <2>4 DEF Accumulates
<1>5. QED
  BY <1>3, <1>4

Sized(x) == \E z \in DOMAIN Sizes : Sizes[z] = Len(x) /\ Sizes[z] # 0

LEMMA ChunkFacts ==
  ASSUME NEW x \in Text, Sized(x)
  PROVE  /\ Chunk(x) \in Text /\ Len(Chunk(x)) = Len(x) + 3 /\ Len(x) \in Nat \ {0}
         /\ Chunk(x)[1] \in DOMAIN Sizes /\ Sizes[Chunk(x)[1]] = Len(x) /\ Chunk(x)[2] = "nl"
         /\ \A i \in 1..Len(x) : Chunk(x)[i + 2] = x[i]
<1> DEFINE z == CHOOSE y \in DOMAIN Sizes : Sizes[y] = Len(x)
           head == <<z, "nl">>
           last == <<"nl">>
<1>1. z \in DOMAIN Sizes /\ Sizes[z] = Len(x) /\ Len(x) # 0 /\ Len(x) \in Nat
  BY LenProperties DEF Sized, Text
<1>2. Chunk(x) = (head \o x) \o last
  BY DEF Chunk
<1> HIDE DEF z
<1>3. /\ head \in Text /\ last \in Text /\ Len(head) = 2 /\ Len(last) = 1
      /\ head[1] = z /\ head[2] = "nl"
  <2>1. z \in Units /\ "nl" \in Units
    BY <1>1, SizesAssumption
  <2>2. QED
    BY <2>1 DEF Text
<1> HIDE DEF head, last
<1>4. /\ head \o x \in Text /\ Len(head \o x) = Len(x) + 2
      /\ \A i \in 1..(Len(x) + 2) : (head \o x)[i] = IF i <= 2 THEN head[i] ELSE x[i - 2]
  <2>1. /\ head \o x \in Text /\ Len(head \o x) = Len(head) + Len(x)
        /\ \A i \in 1..(Len(head) + Len(x)) :
             (head \o x)[i] = IF i <= Len(head) THEN head[i] ELSE x[i - Len(head)]
    BY <1>3, ConcatProperties DEF Text
  <2>2. Len(head) + Len(x) = Len(x) + 2
    BY <1>1, <1>3
  <2>3. QED
    BY <1>3, <2>1, <2>2
<1> DEFINE hx == head \o x
<1>5. /\ Chunk(x) \in Text /\ Len(Chunk(x)) = Len(x) + 3
      /\ \A i \in 1..(Len(x) + 2) : Chunk(x)[i] = (head \o x)[i]
  <2>1. hx \in Text /\ Len(hx) = Len(x) + 2 /\ Chunk(x) = hx \o last
    BY <1>2, <1>4
  <2> HIDE DEF hx
  <2>2. /\ hx \o last \in Text /\ Len(hx \o last) = Len(hx) + Len(last)
        /\ \A i \in 1..(Len(hx) + Len(last)) :
             (hx \o last)[i] = IF i <= Len(hx) THEN hx[i] ELSE last[i - Len(hx)]
    BY <1>3, <2>1, ConcatProperties DEF Text
  <2>3. Len(hx) + Len(last) = Len(x) + 3
    BY <1>1, <1>3, <2>1
  <2>4. ASSUME NEW i \in 1..(Len(x) + 2) PROVE Chunk(x)[i] = hx[i]
    <3>1. i \in 1..(Len(hx) + Len(last)) /\ i <= Len(hx)
      BY <1>1, <2>1, <2>3
    <3>2. QED
      BY <2>1, <2>2, <3>1
  <2>5. QED
    BY <2>1, <2>2, <2>3, <2>4 DEF hx
<1>6. Chunk(x)[1] = z /\ Chunk(x)[2] = "nl"
  BY <1>1, <1>3, <1>4, <1>5
<1>7. ASSUME NEW i \in 1..Len(x) PROVE Chunk(x)[i + 2] = x[i]
  <2>1. i + 2 \in 1..(Len(x) + 2) /\ ~(i + 2 <= 2) /\ (i + 2) - 2 = i
    BY <1>1
  <2>2. QED
    BY <1>4, <1>5, <2>1
<1>8. QED
  BY <1>1, <1>5, <1>6, <1>7

(* A turn of the loop reads a chunk that stands where it reads on.         *)
LEMMA ReadsChunk ==
  ASSUME NEW s \in Text, NEW l \in Nat, NEW o \in Text, NEW x \in Text, Sized(x),
         l + Len(x) + 3 <= Len(s), \A i \in 1..(Len(x) + 3) : s[l + i] = Chunk(x)[i]
  PROVE  NextChunk(s, [at |-> l + 1, out |-> o]) = [at |-> l + Len(x) + 4, out |-> o \o x]
<1>1. /\ Len(x) \in Nat \ {0} /\ Len(s) \in Nat
      /\ Chunk(x)[1] \in DOMAIN Sizes /\ Sizes[Chunk(x)[1]] = Len(x) /\ Chunk(x)[2] = "nl"
      /\ \A i \in 1..Len(x) : Chunk(x)[i + 2] = x[i]
  BY ChunkFacts, LenProperties DEF Text
<1>2. s[l + 1] = Chunk(x)[1] /\ s[l + 2] = "nl"
  BY <1>1
<1>3. IsSize(s, l + 1) /\ Sizes[s[l + 1]] = Len(x)
  <2>1. l + 1 <= Len(s) /\ (l + 1) + 1 = l + 2
    BY <1>1
  <2>2. QED
    BY <1>1, <1>2, <2>1 DEF IsSize
<1> DEFINE d == Slice(s, l + 3, l + 2 + Len(x))
<1>4. d = x
  <2>1. SliceOf(d, s, l + 3, l + 2 + Len(x))
    BY <1>1, SliceFacts
  <2> HIDE DEF d
  <2>2. d \in Text /\ Len(d) = Len(x)
    BY <1>1, <2>1 DEF SliceOf
  <2>3. ASSUME NEW i \in 1..Len(x) PROVE d[i] = x[i]
    <3>1. i + 2 \in 1..(Len(x) + 3) /\ (l + 3) + i - 1 = l + (i + 2)
      BY <1>1
    <3>2. d[i] = s[l + (i + 2)]
      BY <2>1, <2>2, <3>1 DEF SliceOf
    <3>3. QED
      BY <1>1, <3>1, <3>2
  <2>4. QED
    BY <2>2, <2>3, SeqEqual DEF Text
<1>5. /\ (l + 1) + 2 = l + 3 /\ (l + 1) + 1 + Len(x) = l + 2 + Len(x)
      /\ (l + 1) + Len(x) + 3 = l + Len(x) + 4
  BY <1>1
<1>6. QED
  BY <1>3, <1>4, <1>5 DEF NextChunk

(* The loop ends at what is no size.                                       *)
LEMMA StopsReading ==
  ASSUME NEW s \in Text, NEW f, Reads(s, f), NEW k \in 0..Len(s), ~IsSize(s, f[k].at)
  PROVE  f[Len(s)] = f[k]
<1> DEFINE n == Len(s)
           T == {j \in 0..n : j >= k => f[j] = f[k]}
<1>1. n \in Nat /\ k \in 0..n
  BY LenProperties DEF Text
<1>2. 0 \in T /\ T \in SUBSET (0..n)
  BY <1>1
<1>3. ASSUME NEW j \in T, j < n PROVE j + 1 \in T
  <2>1. j \in 0..n /\ j + 1 \in 1..n /\ j + 1 \in 0..n /\ (j + 1) - 1 = j
    BY <1>1, <1>3
  <2>2. CASE j + 1 <= k
    BY <1>1, <2>1, <2>2
  <2>3. CASE ~(j + 1 <= k)
    <3>1. f[j] = f[k]
      BY <1>1, <2>1, <2>3
    <3>2. f[j + 1] = NextChunk(s, f[j])
      BY <2>1 DEF Reads
    <3>3. f[j + 1] = f[k]
      BY <3>1, <3>2 DEF NextChunk
    <3>4. QED
      BY <2>1, <3>3
  <2>4. QED
    BY <2>2, <2>3
<1>4. T = 0..n
  <2> HIDE DEF T, n
  <2>1. QED
    BY <1>1, <1>2, <1>3, FromZeroInduction
<1>5. QED
  BY <1>1, <1>4

(* _dechunk undoes the chunking, whatever the parts and whatever follows a *)
(* last chunk of size zero.                                                *)
Encoding(chunks, last) == FlattenSeq([i \in DOMAIN chunks |-> Chunk(chunks[i])]) \o last

Decodes(s, chunks, last) ==
  /\ s \in Text /\ _dechunk(s) = FlattenSeq(chunks) /\ FlattenSeq(chunks) \in Text
  /\ \E m \in Nat : Len(s) = m + Len(last) /\ \A i \in 1..Len(last) : s[m + i] = last[i]

LEMMA DechunkChunks ==
  ASSUME NEW chunks \in Seq(Text), \A i \in DOMAIN chunks : Sized(chunks[i]),
         NEW last \in Text, Len(last) > 0, last[1] = "0"
  PROVE  Decodes(Encoding(chunks, last), chunks, last)
<1> SUFFICES ASSUME NEW s, s = Encoding(chunks, last) PROVE Decodes(s, chunks, last)
  OBVIOUS
<1> DEFINE n == Len(chunks)
           enc == [i \in DOMAIN chunks |-> Chunk(chunks[i])]
<1>1. n \in Nat /\ DOMAIN chunks = 1..n /\ \A i \in 1..n : chunks[i] \in Text /\ Sized(chunks[i])
  BY LenProperties, ElementOfSeq
<1>2. enc \in Seq(Text) /\ Len(enc) = n /\ \A i \in 1..n : enc[i] = Chunk(chunks[i])
  <2>1. \A i \in 1..n : Chunk(chunks[i]) \in Text
    BY <1>1, ChunkFacts
  <2>2. enc = [i \in 1..n |-> Chunk(chunks[i])] /\ enc \in [1..n -> Text]
    BY <1>1, <2>1
  <2> HIDE DEF n
  <2>3. QED
    BY <1>1, <2>2, SeqDef, LenProperties
<1>3. s = FlattenSeq(enc) \o last
  BY DEF Encoding
<1> HIDE DEF enc, n
<1>4. PICK e : Accumulates(enc, e) /\ FlattenSeq(enc) = e[Len(enc)]
  BY <1>2, FlattenAccumulates
<1>5. PICK c : Accumulates(chunks, c) /\ FlattenSeq(chunks) = c[Len(chunks)]
  BY FlattenAccumulates
<1>6. /\ e \in [0..n -> Text] /\ e[0] = <<>> /\ \A k \in 1..n : e[k] = e[k - 1] \o Chunk(chunks[k])
      /\ c \in [0..n -> Text] /\ c[0] = <<>> /\ \A k \in 1..n : c[k] = c[k - 1] \o chunks[k]
      /\ FlattenSeq(enc) = e[n] /\ FlattenSeq(chunks) = c[n]
  BY <1>2, <1>4, <1>5 DEF Accumulates, n
<1>7. /\ e[n] \in Text /\ Len(e[n]) \in Nat /\ Len(last) \in Nat /\ s = e[n] \o last
      /\ s \in Text /\ Len(s) = Len(e[n]) + Len(last) /\ Begins(e[n], s)
      /\ \A i \in 1..Len(last) : s[Len(e[n]) + i] = last[i]
  <2>1. e[n] \in Text /\ Len(e[n]) \in Nat /\ Len(last) \in Nat /\ s = e[n] \o last
    <3>1. n \in 0..n
      BY <1>1
    <3>2. e[n] \in Text /\ FlattenSeq(enc) = e[n]
      BY <1>6, <3>1
    <3>3. s = e[n] \o last
      BY <1>3, <3>2
    <3>4. QED
      BY <3>2, <3>3, LenProperties DEF Text
  <2>2. /\ e[n] \o last \in Text /\ Len(e[n] \o last) = Len(e[n]) + Len(last)
        /\ \A i \in 1..(Len(e[n]) + Len(last)) :
             (e[n] \o last)[i] = IF i <= Len(e[n]) THEN e[n][i] ELSE last[i - Len(e[n])]
    BY <2>1, ConcatProperties DEF Text
  <2>3. ASSUME NEW i \in 1..Len(last) PROVE s[Len(e[n]) + i] = last[i]
    <3>1. /\ Len(e[n]) + i \in 1..(Len(e[n]) + Len(last)) /\ ~(Len(e[n]) + i <= Len(e[n]))
          /\ (Len(e[n]) + i) - Len(e[n]) = i
      BY <2>1
    <3>2. QED
      BY <2>1, <2>2, <3>1
  <2>4. QED
    BY <2>1, <2>2, <2>3, BeginsConcat
<1>8. \A k \in 0..n : Begins(e[k], s) /\ e[k] \in Text /\ Len(e[k]) \in Nat /\ Len(e[k]) <= Len(s)
  <2>1. ASSUME NEW k \in 1..n PROVE Begins(e[k - 1], e[k])
    <3>1. k - 1 \in 0..n
      BY <1>1
    <3>2. Chunk(chunks[k]) \in Text
      BY <1>1, ChunkFacts
    <3>3. e[k - 1] \in Text /\ e[k] = e[k - 1] \o Chunk(chunks[k])
      BY <1>6, <3>1
    <3>4. QED
      BY <3>2, <3>3, BeginsConcat
  <2>2. \A k \in 0..n : Begins(e[k], e[n])
    BY <1>1, <1>6, <2>1, BeginsChain
  <2>3. ASSUME NEW k \in 0..n
        PROVE  Begins(e[k], s) /\ e[k] \in Text /\ Len(e[k]) \in Nat /\ Len(e[k]) <= Len(s)
    <3>1. e[k] \in Text /\ Len(e[k]) \in Nat
      BY <1>6, LenProperties DEF Text
    <3>2. Begins(e[k], s)
      BY <1>7, <2>2, <3>1, BeginsTrans
    <3>3. QED
      BY <3>1, <3>2 DEF Begins
  <2>4. QED
    BY <2>3
<1>9. PICK f : Reads(s, f) /\ _dechunk(s) = f[Len(s)].out
  BY <1>7, DechunkReads
<1> DEFINE T == {k \in 0..n : k <= Len(e[k]) /\ f[k] = [at |-> Len(e[k]) + 1, out |-> c[k]]}
<1>10. 0 \in T /\ T \in SUBSET (0..n)
  <2>1. f[0] = [at |-> 1, out |-> <<>>] /\ Len(e[0]) = 0 /\ 0 \in 0..n
    BY <1>1, <1>6, <1>9 DEF Reads, Start
  <2>2. QED
    BY <1>6, <2>1
<1>11. ASSUME NEW k \in T, k < n PROVE k + 1 \in T
  <2>1. /\ k \in 0..n /\ k + 1 \in 1..n /\ k + 1 \in 0..n /\ (k + 1) - 1 = k
        /\ k <= Len(e[k]) /\ f[k] = [at |-> Len(e[k]) + 1, out |-> c[k]]
    BY <1>1, <1>11
  <2> DEFINE x == chunks[k + 1]
             l == Len(e[k])
  <2>2. x \in Text /\ Sized(x) /\ c[k] \in Text /\ l \in Nat
    BY <1>1, <1>6, <1>8, <2>1
  <2>3. Chunk(x) \in Text /\ Len(Chunk(x)) = Len(x) + 3 /\ Len(x) \in Nat \ {0}
    BY <2>2, ChunkFacts
  <2>4. e[k + 1] = e[k] \o Chunk(x) /\ c[k + 1] = c[k] \o x
    BY <1>6, <2>1
  <2> HIDE DEF x
  <2>5. /\ Len(e[k + 1]) = l + Len(x) + 3
        /\ \A i \in 1..(Len(x) + 3) : e[k + 1][l + i] = Chunk(x)[i]
    <3>1. e[k] \in Text /\ Len(e[k]) = l
      BY <1>8, <2>1
    <3> HIDE DEF l
    <3>2. /\ Len(e[k] \o Chunk(x)) = Len(e[k]) + Len(Chunk(x))
          /\ \A i \in 1..(Len(e[k]) + Len(Chunk(x))) :
               (e[k] \o Chunk(x))[i] = IF i <= Len(e[k]) THEN e[k][i] ELSE Chunk(x)[i - Len(e[k])]
      BY <2>3, <3>1, ConcatProperties DEF Text
    <3>3. Len(e[k]) + Len(Chunk(x)) = l + Len(x) + 3
      BY <2>2, <2>3, <3>1
    <3>4. ASSUME NEW i \in 1..(Len(x) + 3) PROVE e[k + 1][l + i] = Chunk(x)[i]
      <4>1. l + i \in 1..(l + Len(x) + 3) /\ ~(l + i <= l) /\ (l + i) - l = i
        BY <2>2, <2>3
      <4>2. QED
        BY <2>4, <3>1, <3>2, <3>3, <4>1
    <3>5. QED
      BY <2>4, <3>2, <3>3, <3>4
  <2> HIDE DEF l
  <2>6. Begins(e[k + 1], s) /\ Len(s) \in Nat
    BY <1>7, <1>8, <2>1, LenProperties DEF Text
  <2>7. /\ l + Len(x) + 3 <= Len(s)
        /\ \A i \in 1..(Len(x) + 3) : s[l + i] = Chunk(x)[i]
    <3>1. l + Len(x) + 3 <= Len(s)
      BY <2>5, <2>6 DEF Begins
    <3>2. ASSUME NEW i \in 1..(Len(x) + 3) PROVE s[l + i] = Chunk(x)[i]
      <4>1. l + i \in 1..Len(e[k + 1])
        BY <2>2, <2>3, <2>5
      <4>2. QED
        BY <2>5, <2>6, <4>1 DEF Begins
    <3>3. QED
      BY <3>1, <3>2
  <2>8. NextChunk(s, [at |-> l + 1, out |-> c[k]]) = [at |-> l + Len(x) + 4, out |-> c[k] \o x]
    BY <1>7, <2>2, <2>7, ReadsChunk
  <2>9. k + 1 \in 1..Len(s) /\ k + 1 <= Len(e[k + 1])
    BY <2>1, <2>2, <2>3, <2>5, <2>6, <2>7 DEF l
  <2>10. f[k + 1] = NextChunk(s, f[k])
    BY <1>9, <2>1, <2>9 DEF Reads
  <2>11. l + Len(x) + 4 = Len(e[k + 1]) + 1
    BY <2>2, <2>3, <2>5
  <2>12. f[k + 1] = [at |-> Len(e[k + 1]) + 1, out |-> c[k + 1]]
    BY <2>1, <2>4, <2>8, <2>10, <2>11 DEF l
  <2>13. QED
    BY <2>1, <2>9, <2>12
<1>12. n \in T
  <2>1. T = 0..n
    <3> HIDE DEF T
    <3>1. QED
      BY <1>1, <1>10, <1>11, FromZeroInduction
  <2>2. n \in 0..n
    BY <1>1
  <2>3. QED
    BY <2>1, <2>2
<1>13. n \in 0..Len(s) /\ ~IsSize(s, f[n].at) /\ f[n].out = c[n]
  <2>1. n <= Len(e[n]) /\ f[n].at = Len(e[n]) + 1 /\ f[n].out = c[n]
    BY <1>12
  <2>2. s[Len(e[n]) + 1] = "0" /\ n \in 0..Len(s)
    BY <1>1, <1>7, <2>1
  <2>3. QED
    BY <2>1, <2>2, SizesAssumption DEF IsSize
<1>14. _dechunk(s) = c[n]
  BY <1>7, <1>9, <1>13, StopsReading
<1>15. c[n] \in Text
  <2>1. n \in 0..n
    BY <1>1
  <2>2. QED
    BY <1>6, <2>1
<1>16. \E m \in Nat : Len(s) = m + Len(last) /\ \A i \in 1..Len(last) : s[m + i] = last[i]
  BY <1>7
<1>17. QED
  BY <1>6, <1>7, <1>14, <1>15, <1>16 DEF Decodes
-----------------------------------------------------------------------------
(* What has arrived has the header section in it, or not yet.              *)
LEMMA GotFacts ==
  ASSUME NEW s \in Text, HeaderEnd(s) # 0, NEW n \in 0..Len(s)
  PROVE  /\ HeaderEnd(SubSeq(s, 1, n)) # 0 <=> HeaderEnd(s) <= n
         /\ HeaderEnd(s) <= n => /\ Rest(SubSeq(s, 1, n)) = SubSeq(Rest(s), 1, n - HeaderEnd(s))
                                 /\ n - HeaderEnd(s) \in 0..Len(Rest(s))
<1> DEFINE g == SubSeq(s, 1, n)
<1>1. g \in Text /\ Len(g) = n /\ (\A i \in 1..n : g[i] = s[i]) /\ Len(s) \in Nat
  BY CutFacts, LenProperties DEF Text
<1>2. HeaderEnd(s) \in Ends(s) /\ HeaderEnd(s) \in 2..Len(s) /\ Len(Rest(s)) = Len(s) - HeaderEnd(s)
  BY FirstEnd, RestFacts
<1>3. HeaderEnd(g) # 0 => /\ HeaderEnd(s) <= n
                          /\ Rest(g) = SubSeq(Rest(s), 1, n - HeaderEnd(s))
  BY <1>1, HeaderCut
<1>4. ASSUME HeaderEnd(s) <= n PROVE HeaderEnd(g) # 0 /\ n - HeaderEnd(s) \in 0..Len(Rest(s))
  <2> HIDE DEF g
  <2>1. HeaderEnd(s) \in 1..n /\ HeaderEnd(s) - 1 \in 1..n
    BY <1>1, <1>2, <1>4
  <2>2. HeaderEnd(s) \in Ends(g)
    BY <1>1, <1>2, <1>4, <2>1 DEF Ends
  <2>3. QED
    BY <1>1, <1>2, <1>4, <2>2, EndIsFound
<1>5. QED
  BY <1>3, <1>4

LEMMA MinOfTwo ==
  ASSUME NEW a \in Int, NEW b \in Int
  PROVE  Min({a, b}) \in {a, b} /\ Min({a, b}) <= a /\ Min({a, b}) <= b
<1>1. \E m \in {a, b} : \A x \in {a, b} : m <= x
  <2>1. CASE a <= b
    BY <2>1
  <2>2. CASE ~(a <= b)
    BY <2>2
  <2>3. QED
    BY <2>1, <2>2
<1>2. QED
  BY <1>1 DEF Min

LEMMA RequestFacts ==
  ASSUME request \in Requests
  PROVE  /\ request.stream \in Text /\ HeaderEnd(request.stream) # 0
         /\ request.framing \in {"chunked", "length"} /\ request.length \in Int
         /\ Payload \in Text /\ request.meant \in Text
         /\ request.framing = "chunked" =>
              /\ _dechunk(Payload) = request.meant
              /\ request.trailer = <<>> => EndsChunks(Payload)
<1>1. /\ request \in RequestType /\ HeaderEnd(request.stream) # 0
      /\ request.framing = "chunked" =>
           /\ \A i \in DOMAIN request.chunks : Sized(request.chunks[i])
           /\ Payload = FlattenSeq([i \in DOMAIN request.chunks |-> Chunk(request.chunks[i])])
                          \o (<<"0", "nl">> \o request.trailer \o <<"nl">>)
           /\ request.meant = FlattenSeq(request.chunks)
  BY ClientsAssumption DEF Sized, Payload
<1>2. /\ request.stream \in Text /\ request.meant \in Text /\ request.chunks \in Seq(Text)
      /\ request.trailer \in Text /\ request.framing \in {"chunked", "length"}
      /\ request.length \in Int
  BY <1>1 DEF RequestType, Text
<1>3. Payload \in Text
  BY <1>1, <1>2, RestFacts DEF Payload
<1>4. ASSUME request.framing = "chunked"
      PROVE  /\ _dechunk(Payload) = request.meant
             /\ request.trailer = <<>> => EndsChunks(Payload)
  <2> DEFINE zero == <<"0", "nl">>
             nl == <<"nl">>
             zt == zero \o request.trailer
             last == zt \o nl
  <2>1. "0" \in Units /\ "nl" \in Units
    BY SizesAssumption
  <2>2. zero \in Text /\ nl \in Text /\ Len(zero) = 2 /\ Len(nl) = 1 /\ zero[1] = "0"
    BY <2>1 DEF Text
  <2>3. zt \in Text /\ Len(zt) >= 2 /\ Len(zt) \in Nat /\ zt[1] = "0"
    <3> HIDE DEF zero, nl
    <3>1. Len(request.trailer) \in Nat
      BY <1>2, LenProperties DEF Text
    <3>2. /\ zt \in Text /\ Len(zt) = Len(zero) + Len(request.trailer)
          /\ \A i \in 1..(Len(zero) + Len(request.trailer)) :
               zt[i] = IF i <= Len(zero) THEN zero[i] ELSE request.trailer[i - Len(zero)]
      BY <1>2, <2>2, ConcatProperties DEF Text
    <3> HIDE DEF zt
    <3>3. QED
      BY <2>2, <3>1, <3>2
  <2>4. last \in Text /\ Len(last) > 0 /\ last[1] = "0"
    <3> HIDE DEF zero, nl, zt
    <3>1. /\ last \in Text /\ Len(last) = Len(zt) + Len(nl)
          /\ \A i \in 1..(Len(zt) + Len(nl)) :
               last[i] = IF i <= Len(zt) THEN zt[i] ELSE nl[i - Len(zt)]
      BY <2>2, <2>3, ConcatProperties DEF Text
    <3> HIDE DEF last
    <3>2. QED
      BY <2>2, <2>3, <3>1
  <2>5. Payload = FlattenSeq([i \in DOMAIN request.chunks |-> Chunk(request.chunks[i])]) \o last
    BY <1>1, <1>4
  <2>6. ASSUME request.trailer = <<>>
        PROVE  Len(last) = 3 /\ last[1] = "0" /\ last[2] = "nl" /\ last[3] = "nl"
    <3>1. zero[2] = "nl" /\ nl[1] = "nl"
      OBVIOUS
    <3> HIDE DEF zero, nl
    <3>2. zt = zero
      BY <2>2, <2>6, ConcatEmptySeq DEF Text
    <3> HIDE DEF zt
    <3>3. /\ Len(last) = Len(zt) + Len(nl)
          /\ \A i \in 1..(Len(zt) + Len(nl)) :
               last[i] = IF i <= Len(zt) THEN zt[i] ELSE nl[i - Len(zt)]
      BY <2>2, <2>3, ConcatProperties DEF Text
    <3> HIDE DEF last
    <3>4. Len(zt) = 2 /\ Len(nl) = 1 /\ zt[2] = "nl" /\ nl[1] = "nl" /\ last[1] = "0"
      BY <2>2, <2>4, <3>1, <3>2
    <3>5. \A i \in 1..3 : last[i] = IF i <= 2 THEN zt[i] ELSE nl[i - 2]
      BY <3>3, <3>4
    <3>6. Len(last) = 3
      BY <3>3, <3>4
    <3>7. last[2] = zt[2]
      BY <3>5
    <3>8. last[3] = nl[1]
      BY <3>5
    <3>9. QED
      BY <3>4, <3>6, <3>7, <3>8
  <2> HIDE DEF last
  <2>7. /\ _dechunk(Payload) = FlattenSeq(request.chunks)
        /\ \E m \in Nat : Len(Payload) = m + Len(last) /\ \A i \in 1..Len(last) : Payload[m + i] = last[i]
    <3>1. Payload = Encoding(request.chunks, last)
      BY <2>5 DEF Encoding
    <3>2. \A i \in DOMAIN request.chunks : Sized(request.chunks[i])
      BY <1>1, <1>4
    <3>3. Decodes(Encoding(request.chunks, last), request.chunks, last)
      BY <1>2, <2>4, <3>2, DechunkChunks
    <3>4. QED
      BY <3>1, <3>3 DEF Decodes
  <2>8. ASSUME request.trailer = <<>> PROVE EndsChunks(Payload)
    <3>1. PICK m \in Nat : Len(Payload) = m + Len(last) /\ \A i \in 1..Len(last) : Payload[m + i] = last[i]
      BY <2>7
    <3>2. Len(last) = 3 /\ last[1] = "0" /\ last[2] = "nl" /\ last[3] = "nl"
      BY <2>6, <2>8
    <3>3. /\ Len(Payload) = m + 3 /\ Len(Payload) - 1 = m + 2 /\ Len(Payload) - 2 = m + 1
          /\ Payload[m + 1] = "0" /\ Payload[m + 2] = "nl" /\ Payload[m + 3] = "nl"
      BY <3>1, <3>2
    <3>4. QED
      BY <3>3, SizesAssumption DEF EndsChunks
  <2>9. QED
    BY <1>1, <1>4, <2>7, <2>8
<1>5. QED
  BY <1>1, <1>2, <1>3, <1>4

LEMMA WantFacts ==
  ASSUME request \in Requests
  PROVE  /\ Want \in Int /\ Want <= request.length
         /\ request.length <= MaxBody => Want = request.length
<1>1. request.length \in Int /\ MaxBody \in Int
  BY RequestFacts, HttpBounds
<1>2. PICK a, b \in Int : a = request.length /\ b = MaxBody
  BY <1>1
<1>3. Want = Min({a, b})
  BY <1>2 DEF Want
<1>4. Min({a, b}) \in {a, b} /\ Min({a, b}) <= a /\ Min({a, b}) <= b
  BY MinOfTwo
<1>5. Want \in {a, b} /\ Want <= a /\ Want <= b
  BY <1>3, <1>4
<1>6. QED
  BY <1>1, <1>2, <1>5

-----------------------------------------------------------------------------
Cut(n) == SubSeq(Payload, 1, n)

(* The body is what _dechunk, or nothing, has made of the first n units;   *)
(* unless the client cut it short, the code had a reason to stop there.    *)
ParsedAs(n) ==
  /\ body = IF request.framing = "chunked" THEN _dechunk(Cut(n)) ELSE Cut(n)
  /\ ~cut => IF request.framing = "chunked" THEN EndsChunks(Cut(n)) ELSE n >= Want

HttpInv ==
  /\ request \in Requests /\ pos \in 0..Len(request.stream)
  /\ phase \in {"head", "chunked", "length", "parsed", "refused", "dropped"}
  /\ phase \in {"chunked", "length"} => phase = request.framing /\ HeaderEnd(request.stream) <= pos
  /\ phase = "parsed" => \E n \in 0..Len(Payload) : ParsedAs(n)

(* How far the body has arrived, and what the loop still asks for.         *)
Arrived == pos - HeaderEnd(request.stream)

LEMMA AsksFacts ==
  ASSUME HttpInv
  PROVE  /\ Asks \in Int
         /\ phase \in {"chunked", "length"} => Arrived \in 0..Len(Payload) /\ Rest(Got) = Cut(Arrived)
         /\ phase = "chunked" /\ Asks = 0 => EndsChunks(Cut(Arrived))
         /\ phase = "length" /\ Asks = 0 => Arrived >= Want
         /\ phase = "head" /\ HeaderEnd(Got) # 0 => Asks = 0
         /\ phase = "chunked" /\ EndsChunks(Cut(Arrived)) => Asks = 0
         /\ phase = "length" /\ Arrived >= Want => Asks = 0
         /\ phase \notin {"head", "chunked", "length"} => Asks = 0
<1>1. /\ request.stream \in Text /\ HeaderEnd(request.stream) # 0 /\ Payload \in Text
      /\ Len(request.stream) \in Nat /\ HeaderEnd(request.stream) \in 2..Len(request.stream)
  BY RequestFacts, RestFacts, LenProperties DEF HttpInv, Text
<1>2. Want \in Int
  BY WantFacts DEF HttpInv
<1>3. pos \in 0..Len(request.stream)
  BY DEF HttpInv
<1>4. ASSUME phase \in {"chunked", "length"}
      PROVE  Arrived \in 0..Len(Payload) /\ Rest(Got) = Cut(Arrived) /\ Len(Rest(Got)) = Arrived
  <2>1. HeaderEnd(request.stream) <= pos
    BY <1>4 DEF HttpInv
  <2>2. Arrived \in 0..Len(Payload) /\ Rest(Got) = Cut(Arrived)
    BY <1>1, <1>3, <2>1, GotFacts DEF Got, Payload, Cut, Arrived
  <2>3. QED
    BY <1>1, <2>2, CutFacts DEF Cut
<1>5. CASE phase = "head"
  <2>1. Asks = IF HeaderEnd(Got) = 0 /\ pos <= MaxHeader THEN Len(request.stream) ELSE 0
    BY <1>5, Zenon DEF Asks
  <2>2. QED
    BY <1>1, <1>5, <2>1
<1>6. CASE phase = "chunked"
  <2>1. Asks = IF ~EndsChunks(Rest(Got)) THEN Len(request.stream) ELSE 0
    BY <1>6, Zenon DEF Asks
  <2>2. QED
    BY <1>1, <1>4, <1>6, <2>1
<1>7. CASE phase = "length"
  <2>1. Asks = IF Len(Rest(Got)) < Want THEN Want - Len(Rest(Got)) ELSE 0
    BY <1>7, Zenon DEF Asks
  <2>2. QED
    BY <1>2, <1>4, <1>7, <2>1
<1>8. CASE phase \notin {"head", "chunked", "length"}
  <2>1. Asks = 0
    BY <1>8, Zenon DEF Asks
  <2>2. QED
    BY <1>8, <2>1
<1>9. QED
  BY <1>5, <1>6, <1>7, <1>8

LEMMA HttpStep ==
  ASSUME HttpInv, HttpNext
  PROVE  HttpInv'
<1>1. CASE Receive
  <2>1. /\ UNCHANGED <<request, phase, body, cut>> /\ Asks > 0
        /\ pos' \in (pos + 1)..Min({pos + Asks, Len(request.stream)})
    BY <1>1 DEF Receive
  <2>2. Asks \in Int /\ pos \in 0..Len(request.stream) /\ Len(request.stream) \in Nat
    BY AsksFacts, RequestFacts, LenProperties DEF HttpInv, Text
  <2>3. Min({pos + Asks, Len(request.stream)}) \in Int
        /\ Min({pos + Asks, Len(request.stream)}) <= Len(request.stream)
    <3>1. PICK a, b \in Int : a = pos + Asks /\ b = Len(request.stream)
      BY <2>2
    <3>2. Min({a, b}) \in {a, b} /\ Min({a, b}) <= b
      BY MinOfTwo
    <3>3. QED
      BY <3>1, <3>2
  <2>4. pos' \in 0..Len(request.stream) /\ pos <= pos'
    BY <2>1, <2>2, <2>3
  <2>5. HeaderEnd(request.stream) <= pos => HeaderEnd(request.stream) <= pos'
    <3>1. HeaderEnd(request.stream) \in Int
      BY RequestFacts, RestFacts DEF HttpInv
    <3>2. QED
      BY <2>2, <2>4, <3>1
  <2>6. phase # "parsed"
    BY <2>1, AsksFacts
  <2>7. QED
    BY <2>1, <2>4, <2>5, <2>6 DEF HttpInv
<1>2. CASE Closes /\ phase = "head"
  BY <1>2 DEF Closes, HttpInv
<1>3. CASE (Closes /\ phase # "head") \/ BodyRead
  <2>1. /\ phase \in {"chunked", "length"} /\ phase' = "parsed" /\ UNCHANGED <<request, pos>>
        /\ body' = IF phase = "chunked" THEN _dechunk(Rest(Got)) ELSE Rest(Got)
        /\ cut' \/ Asks = 0
    BY <1>3 DEF Closes, BodyRead
  <2>2. phase = request.framing
    BY <2>1 DEF HttpInv
  <2>3. PICK n \in 0..Len(Payload) : n = Arrived
    BY <2>1, AsksFacts
  <2>4. Rest(Got) = Cut(n)
    BY <2>1, <2>3, AsksFacts
  <2>5. body' = IF request.framing = "chunked" THEN _dechunk(Cut(n)) ELSE Cut(n)
    BY <2>1, <2>2, <2>4
  <2>6. ~cut' => IF request.framing = "chunked" THEN EndsChunks(Cut(n)) ELSE n >= Want
    BY <2>1, <2>2, <2>3, AsksFacts
  <2>7. Payload' = Payload /\ Cut(n)' = Cut(n) /\ Want' = Want
    BY <2>1 DEF Payload, Cut, Want
  <2>8. ParsedAs(n)'
    BY <2>1, <2>5, <2>6, <2>7 DEF ParsedAs
  <2>9. QED
    BY <2>1, <2>7, <2>8 DEF HttpInv
<1>4. CASE TimesOut \/ HeaderTooLarge
  BY <1>4 DEF TimesOut, HeaderTooLarge, HttpInv
<1>5. CASE HeaderRead
  <2>1. /\ HeaderEnd(Got) # 0 /\ UNCHANGED <<request, pos, body, cut>>
        /\ phase' = CASE request.head = "noTarget" -> "refused"
                      [] request.head = "badLength" -> "dropped"
                      [] OTHER -> request.framing
    BY <1>5 DEF HeaderRead
  <2>2. HeaderEnd(request.stream) <= pos
    BY <2>1, RequestFacts, GotFacts DEF HttpInv, Got
  <2>3. request.framing \in {"chunked", "length"}
    BY RequestFacts DEF HttpInv
  <2>4. phase' \in {"refused", "dropped"} \/ phase' = request.framing
    BY <2>1
  <2>5. QED
    BY <2>1, <2>2, <2>3, <2>4 DEF HttpInv
<1>6. QED
  BY <1>1, <1>2, <1>3, <1>4, <1>5 DEF HttpNext

LEMMA HttpInductive == HttpSpec => []HttpInv
<1>1. HttpInit => HttpInv
  BY RequestFacts, LenProperties DEF HttpInit, HttpInv, Text
<1>2. HttpInv /\ [HttpNext]_httpVars => HttpInv'
  <2>1. ASSUME HttpInv, UNCHANGED httpVars PROVE HttpInv'
    BY <2>1 DEF httpVars, HttpInv, ParsedAs, Cut, Payload, Want
  <2>2. QED
    BY <2>1, HttpStep
<1>3. QED
  BY <1>1, <1>2, PTL DEF HttpSpec

LEMMA ParsedFacts ==
  ASSUME HttpInv, phase = "parsed"
  PROVE  \E n \in 0..Len(Payload) :
           /\ ParsedAs(n) /\ Len(Payload) \in Nat
           /\ Cut(n) \in Text /\ Len(Cut(n)) = n /\ \A i \in 1..n : Cut(n)[i] = Payload[i]
<1>1. PICK n \in 0..Len(Payload) : ParsedAs(n)
  BY DEF HttpInv
<1>2. Payload \in Text
  BY RequestFacts DEF HttpInv
<1>3. QED
  BY <1>1, <1>2, CutFacts, LenProperties DEF Cut, Text

(* sealed.py:57: the body recorded of a request that arrived whole is the  *)
(* body that was sent, however it was cut into pieces and into chunks, of  *)
(* any size.                                                               *)
THEOREM BodiesAreAsSent == HttpSpec => []BodyIsWhatWasSent
<1>1. ASSUME HttpInv, phase = "parsed", ~cut, OneEnd, TrueLength
      PROVE  body = request.meant
  <2>1. PICK n \in 0..Len(Payload) :
          /\ ParsedAs(n) /\ Len(Payload) \in Nat
          /\ Cut(n) \in Text /\ Len(Cut(n)) = n /\ \A i \in 1..n : Cut(n)[i] = Payload[i]
    BY <1>1, ParsedFacts
  <2>2. Payload \in Text
    BY <1>1, RequestFacts DEF HttpInv
  <2>3. n = Len(Payload) => Cut(n) = Payload
    BY <2>1, <2>2, SeqEqual DEF Text
  <2>4. CASE request.framing = "chunked"
    <3>1. EndsChunks(Cut(n)) /\ body = _dechunk(Cut(n))
      BY <1>1, <2>1, <2>4 DEF ParsedAs
    <3>2. n > 2 /\ Payload[n] = "nl" /\ Payload[n - 1] = "nl" /\ Payload[n - 2] \in ZeroAtEnd
      <4>1. n > 2 /\ Cut(n)[n] = "nl" /\ Cut(n)[n - 1] = "nl" /\ Cut(n)[n - 2] \in ZeroAtEnd
        BY <2>1, <3>1 DEF EndsChunks
      <4>2. n \in 1..n /\ n - 1 \in 1..n /\ n - 2 \in 1..n
        BY <2>1, <4>1
      <4>3. QED
        BY <2>1, <4>1, <4>2
    <3>3. n \notin 3..(Len(Payload) - 1)
      BY <1>1, <2>4, <3>2 DEF OneEnd
    <3>4. n = Len(Payload)
      BY <2>1, <3>2, <3>3
    <3>5. QED
      BY <1>1, <2>3, <2>4, <3>1, <3>4, RequestFacts DEF HttpInv
  <2>5. CASE request.framing = "length"
    <3>1. /\ Payload = request.meant /\ request.length = Len(Payload) /\ request.length <= MaxBody
          /\ body = Cut(n) /\ n >= Want
      BY <1>1, <2>1, <2>5 DEF TrueLength, ParsedAs
    <3>2. n = Len(Payload)
      BY <1>1, <2>1, <3>1, WantFacts DEF HttpInv
    <3>3. QED
      BY <2>3, <3>1, <3>2
  <2>6. QED
    BY <1>1, <2>4, <2>5, RequestFacts DEF HttpInv
<1>2. HttpInv => BodyIsWhatWasSent
  BY <1>1 DEF BodyIsWhatWasSent
<1>3. QED
  BY <1>2, HttpInductive, PTL

(* sealed.py:70, 81: what is recorded of any other request is a beginning  *)
(* of what was sent.                                                       *)
THEOREM BodiesAreBeginnings == HttpSpec => []BodyIsABeginning
<1>1. ASSUME HttpInv, phase = "parsed"
      PROVE  IsPrefix(body, IF request.framing = "chunked" THEN request.meant ELSE Payload)
  <2>1. PICK n \in 0..Len(Payload) :
          /\ ParsedAs(n) /\ Len(Payload) \in Nat
          /\ Cut(n) \in Text /\ Len(Cut(n)) = n /\ \A i \in 1..n : Cut(n)[i] = Payload[i]
    BY <1>1, ParsedFacts
  <2>2. Payload \in Text /\ (request.framing = "chunked" => _dechunk(Payload) = request.meant)
    BY <1>1, RequestFacts DEF HttpInv
  <2>3. CASE request.framing = "chunked"
    <3>1. body = _dechunk(Cut(n))
      BY <2>1, <2>3 DEF ParsedAs
    <3>2. _dechunk(Payload) \in Text /\ _dechunk(Cut(n)) \in Text /\ Begins(_dechunk(Cut(n)), _dechunk(Payload))
      BY <2>2, DechunkCut DEF Cut
    <3>3. QED
      BY <2>2, <2>3, <3>1, <3>2, BeginsIsPrefix
  <2>4. CASE request.framing # "chunked"
    <3>1. body = Cut(n) /\ Begins(Cut(n), Payload)
      BY <2>1, <2>4 DEF ParsedAs, Begins
    <3>2. QED
      BY <2>1, <2>2, <2>4, <3>1, BeginsIsPrefix
  <2>5. QED
    BY <2>3, <2>4
<1>2. HttpInv => BodyIsABeginning
  BY <1>1 DEF BodyIsABeginning
<1>3. QED
  BY <1>2, HttpInductive, PTL

(* sealed.py:69, 80: once all of a request has arrived, the parser asks    *)
(* for nothing more.                                                       *)
THEOREM WholeRequestsSuffice == HttpSpec => []WholeRequestSuffices
<1>1. ASSUME HttpInv, pos = Len(request.stream), OneEnd, TrueLength
      PROVE  Asks = 0
  <2>1. /\ request.stream \in Text /\ HeaderEnd(request.stream) # 0 /\ Payload \in Text
        /\ HeaderEnd(request.stream) \in 2..pos /\ Len(Payload) = Arrived
        /\ Len(request.stream) \in Nat /\ Len(Payload) \in Nat
    BY <1>1, RequestFacts, RestFacts, LenProperties DEF HttpInv, Text, Payload, Arrived
  <2>2. CASE phase = "head"
    <3>1. HeaderEnd(Got) # 0
      BY <1>1, <2>1, GotFacts DEF HttpInv, Got
    <3>2. QED
      BY <1>1, <2>2, <3>1, AsksFacts
  <2>3. Cut(Arrived) = Payload
    <3>1. Len(Payload) \in 0..Len(Payload)
      BY <2>1
    <3>2. Cut(Len(Payload)) = Payload
      BY <2>1, <3>1, CutFacts, SeqEqual DEF Cut, Text
    <3>3. QED
      BY <2>1, <3>2
  <2>4. CASE phase = "chunked"
    <3>1. request.framing = "chunked"
      BY <1>1, <2>4 DEF HttpInv
    <3>2. EndsChunks(Payload)
      BY <1>1, <3>1, RequestFacts DEF HttpInv, OneEnd
    <3>3. QED
      BY <1>1, <2>3, <2>4, <3>2, AsksFacts
  <2>5. CASE phase = "length"
    <3>1. request.framing = "length"
      BY <1>1, <2>5 DEF HttpInv
    <3>2. Arrived >= Want
      BY <1>1, <2>1, <3>1, WantFacts DEF HttpInv, TrueLength
    <3>3. QED
      BY <1>1, <2>5, <3>2, AsksFacts
  <2>6. QED
    BY <1>1, <2>2, <2>4, <2>5, AsksFacts
<1>2. HttpInv => WholeRequestSuffices
  BY <1>1 DEF WholeRequestSuffices
<1>3. QED
  BY <1>2, HttpInductive, PTL
=============================================================================
