-------------------------- MODULE SealedProxyProofs --------------------------
(***************************************************************************)
(* Theorems about SealedProxy, for every finite set of connections.        *)
(***************************************************************************)
EXTENDS SealedProxy, FiniteSetTheorems, TLAPS

(* InFlight is a set TLAPS may take the cardinality of. *)
LEMMA InFlightFinite == IsFiniteSet(InFlight)
  BY ConnsFinite, FS_Subset DEF InFlight

(* Every variable keeps its type under every step of every thread; that    *)
(* `_active` stays a natural number is because it counts handlers.         *)
LEMMA TypeStep ==
    ProxyTypeOK /\ ActiveCounts /\ [ProxyNext]_proxyVars => ProxyTypeOK'
  <1> SUFFICES ASSUME ProxyTypeOK, ActiveCounts, [ProxyNext]_proxyVars
               PROVE  ProxyTypeOK'
    OBVIOUS
  <1> USE DEF ProxyTypeOK, Phases, Move, waitVars
  <1>1. CASE TestStop \/ AcceptFails \/ Close
    BY <1>1 DEF TestStop, AcceptFails, Close
  <1>2. ASSUME NEW c \in Conns, Open(c) \/ Reset(c) \/ Accept(c)
        PROVE  ProxyTypeOK'
    BY <1>2 DEF Open, Reset, Accept
  <1>3. ASSUME NEW c \in Conns, HandlerStep(c)
        PROVE  ProxyTypeOK'
    <2>1. CASE Record(c)
      <3>1. requests' \in Seq(Conns)
        BY <2>1 DEF Record
      <3>2. QED
        BY <2>1, <3>1 DEF Record
    <2>2. CASE Count(c)
      BY <2>2 DEF Count
    <2>3. CASE Leave(c)
      <3>1. c \in InFlight
        BY <2>3 DEF Leave, InFlight
      <3>2. Cardinality(InFlight) \in Nat /\ Cardinality(InFlight) # 0
        BY <3>1, InFlightFinite, FS_CardinalityType, FS_EmptySet
      <3>3. active - 1 \in Nat
        BY <3>2 DEF ActiveCounts
      <3>4. QED
        BY <2>3, <3>3 DEF Leave
    <2>4. CASE Tunnel(c) \/ Respond(c) \/ Abandon(c)
      BY <2>4 DEF Tunnel, Respond, Abandon
    <2>5. QED
      BY ONLY <1>3, <2>1, <2>2, <2>3, <2>4 DEF HandlerStep
  <1>4. CASE PollStep \/ WaitStart \/ WaitReturned
    <2>1. Len(requests) \in Nat
      OBVIOUS
    <2>2. CASE PollBusy
      BY <2>1, <2>2 DEF PollBusy
    <2>3. CASE PollSettling
      BY <2>1, <2>3 DEF PollSettling
    <2>4. CASE PollSettled \/ WaitExpire \/ WaitReturned
      BY <2>4 DEF PollSettled, WaitExpire, WaitReturned
    <2>5. CASE WaitStart
      BY <2>5 DEF WaitStart
    <2>6. QED
      BY ONLY <1>4, <2>2, <2>3, <2>4, <2>5 DEF PollStep
  <1>5. CASE UNCHANGED proxyVars
    BY <1>5 DEF proxyVars
  <1>6. QED
    BY ONLY [ProxyNext]_proxyVars, <1>1, <1>2, <1>3, <1>4, <1>5
       DEF ProxyNext, AcceptorStep

(* The initial state is of its type. *)
LEMMA InitTypeOK == ProxyInit => ProxyTypeOK
  <1> SUFFICES ASSUME ProxyInit PROVE ProxyTypeOK
    OBVIOUS
  <1>1. phase \in [Conns -> Phases] /\ requests \in Seq(Conns)
    BY DEF ProxyInit, Phases
  <1>2. active \in Nat
    BY DEF ProxyInit
  <1>3. answered \subseteq Conns
    BY DEF ProxyInit
  <1>4. lastCount \in Nat \cup {-1} /\ stableCount \in Nat \cup {-1}
    BY DEF ProxyInit
  <1>5. stop \in BOOLEAN /\ stable \in BOOLEAN
    BY DEF ProxyInit
  <1>6. acceptor = "testing" /\ waitPc = "out"
    BY DEF ProxyInit
  <1>7. QED
    BY ONLY <1>1, <1>2, <1>3, <1>4, <1>5, <1>6 DEF ProxyTypeOK

(* What a step does to the set of handlers between their first and last    *)
(* statement decides what it must do to `_active`.                         *)
LEMMA ActiveStep ==
    ProxyTypeOK /\ ActiveCounts /\ [ProxyNext]_proxyVars => ActiveCounts'
  <1> SUFFICES ASSUME ProxyTypeOK, ActiveCounts, [ProxyNext]_proxyVars
               PROVE  ActiveCounts'
    OBVIOUS
  <1>1. ASSUME NEW c \in Conns, Count(c)
        PROVE  ActiveCounts'
    <2>1. InFlight' = InFlight \cup {c} /\ c \notin InFlight
      BY <1>1 DEF Count, Move, InFlight, ProxyTypeOK
    <2>2. Cardinality(InFlight') = Cardinality(InFlight) + 1
      BY <2>1, InFlightFinite, FS_AddElement
    <2>3. QED
      BY <1>1, <2>2 DEF Count, ActiveCounts
  <1>2. ASSUME NEW c \in Conns, Leave(c)
        PROVE  ActiveCounts'
    <2>1. InFlight' = InFlight \ {c} /\ c \in InFlight
      BY <1>2 DEF Leave, Move, InFlight, ProxyTypeOK
    <2>2. Cardinality(InFlight') = Cardinality(InFlight) - 1
      BY <2>1, InFlightFinite, FS_RemoveElement
    <2>3. QED
      BY <1>2, <2>2 DEF Leave, ActiveCounts
  <1>3. ASSUME InFlight' = InFlight, active' = active
        PROVE  ActiveCounts'
    BY <1>3 DEF ActiveCounts
  <1>4. ASSUME NEW c \in Conns,
               Open(c) \/ Reset(c) \/ Accept(c) \/ Tunnel(c) \/ Record(c)
                 \/ Respond(c) \/ Abandon(c)
        PROVE  InFlight' = InFlight /\ active' = active
    BY <1>4 DEF Open, Reset, Accept, Tunnel, Record, Respond, Abandon,
                Move, InFlight, ProxyTypeOK
  <1>5. CASE \/ TestStop \/ AcceptFails \/ Close \/ PollStep \/ WaitStart
             \/ WaitReturned \/ UNCHANGED proxyVars
    <2>1. phase' = phase /\ active' = active
      BY <1>5 DEF TestStop, AcceptFails, Close, PollStep, PollBusy,
                  PollSettling, PollSettled, WaitExpire, WaitStart,
                  WaitReturned, proxyVars
    <2>2. QED
      BY <2>1, <1>3 DEF InFlight
  <1>6. QED
    BY <1>1, <1>2, <1>3, <1>4, <1>5 DEF ProxyNext, AcceptorStep, HandlerStep

(* No handler has begun. *)
LEMMA InitActive == ProxyInit => ActiveCounts
  <1> SUFFICES ASSUME ProxyInit PROVE ActiveCounts
    OBVIOUS
  <1>1. InFlight = {}
    BY DEF ProxyInit, InFlight
  <1>2. QED
    BY <1>1, FS_EmptySet DEF ProxyInit, ActiveCounts

(* The type invariant of the proxy. *)
THEOREM TypeCorrect == ProxySpec => []ProxyTypeOK
  BY InitTypeOK, InitActive, TypeStep, ActiveStep, PTL DEF ProxySpec

(* `_active` is exact on every path, for any number of handler threads. *)
THEOREM ActiveIsExact == ProxySpec => []ActiveCounts
  BY InitActive, ActiveStep, TypeCorrect, PTL DEF ProxySpec

-----------------------------------------------------------------------------
(* While stable_since is set, last_count is the log length it was set at.  *)
StableSince == stable => stableCount = lastCount

LEMMA StableStep == StableSince /\ [ProxyNext]_proxyVars => StableSince'
  <1> SUFFICES ASSUME StableSince, [ProxyNext]_proxyVars
               PROVE  StableSince'
    OBVIOUS
  <1>1. CASE waitVars' = waitVars
    BY <1>1 DEF StableSince, waitVars
  <1>2. ASSUME PollStep \/ WaitStart \/ WaitReturned
        PROVE  StableSince'
    BY <1>2 DEF StableSince, SampleIsSame, PollStep, PollBusy, PollSettling,
                PollSettled, WaitExpire, WaitStart, WaitReturned
  <1>3. QED
    BY <1>1, <1>2 DEF ProxyNext, AcceptorStep, HandlerStep, TestStop,
       AcceptFails, Accept, Open, Reset, Count, Tunnel, Record, Respond,
       Abandon, Leave, Close, proxyVars, waitVars

(* When wait_idle returns True, no counted handler is mid-flight and the   *)
(* log has not grown since the settle interval began.                      *)
THEOREM QuietIsSound == ProxySpec => QuietIsIdle
  <1> DEFINE Inv == ProxyTypeOK /\ ActiveCounts /\ StableSince
             Quiet == (waitPc = "polling" /\ waitPc' = "quiet")
                        => InFlight = {} /\ Len(requests) = stableCount
  <1>1. ProxyInit => StableSince
    BY DEF ProxyInit, StableSince
  <1>2. Inv /\ [ProxyNext]_proxyVars => [Quiet]_proxyVars
    <2> SUFFICES ASSUME Inv, ProxyNext, waitPc = "polling", waitPc' = "quiet"
                 PROVE  InFlight = {} /\ Len(requests) = stableCount
      BY DEF proxyVars
    <2>1. PollSettled
      BY DEF ProxyNext, AcceptorStep, HandlerStep, TestStop,
       AcceptFails, Accept, Open, Reset, Count, Tunnel, Record, Respond,
       Abandon, Leave, Close, waitVars, PollStep, PollBusy, PollSettling,
       WaitExpire, WaitStart, WaitReturned
    <2>2. Cardinality(InFlight) = 0
      BY <2>1 DEF PollSettled, SampleIsSame, ActiveCounts
    <2>3. InFlight = {}
      BY <2>2, InFlightFinite, FS_EmptySet
    <2>4. QED
      BY <2>1, <2>3 DEF PollSettled, SampleIsSame, StableSince
  <1>3. QED
    BY <1>1, <1>2, StableStep, TypeCorrect, ActiveIsExact, PTL
       DEF ProxySpec, QuietIsIdle

-----------------------------------------------------------------------------
(* Why the threads implement the abstract log: a handler appends exactly   *)
(* once, on its way to "recorded", and answers only from there.            *)
LogInv ==
  /\ \A c \in Conns : c \in Recorded => phase[c] \in {"recorded", "leaving", "gone"}
  /\ \A c \in Conns : phase[c] = "recorded" => c \in Recorded \ answered
  /\ \A c \in Conns : c \in answered =>
       c \in Recorded /\ phase[c] \in {"leaving", "gone"}

(* Appending to the log adds exactly the appended request to it. *)
LEMMA RecordedAppend ==
  ASSUME requests \in Seq(Conns), NEW c \in Conns,
         requests' = Append(requests, c)
  PROVE  Recorded' = Recorded \cup {c}
  <1>1. DOMAIN requests = 1..Len(requests) /\ Len(requests) \in Nat
    OBVIOUS
  <1>2. DOMAIN requests' = 1..(Len(requests) + 1)
    OBVIOUS
  <1>3. \A i \in 1..Len(requests) : requests'[i] = requests[i]
    OBVIOUS
  <1>4. requests'[Len(requests) + 1] = c
    OBVIOUS
  <1>5. ASSUME NEW d PROVE d \in Recorded' <=> d \in Recorded \cup {c}
    <2>1. d \in Recorded' <=> \E i \in DOMAIN requests' : requests'[i] = d
      BY Zenon DEF Recorded
    <2>2. d \in Recorded <=> \E i \in DOMAIN requests : requests[i] = d
      BY Zenon DEF Recorded
    <2>3. QED
      BY <1>1, <1>2, <1>3, <1>4, <2>1, <2>2
  <1>6. QED
    BY <1>5

(* LogInv is preserved: one step per thing a handler can do to the log. *)
LEMMA LogStep == ProxyTypeOK /\ LogInv /\ [ProxyNext]_proxyVars => LogInv'
  <1> SUFFICES ASSUME ProxyTypeOK, LogInv, [ProxyNext]_proxyVars
               PROVE  LogInv'
    OBVIOUS
  <1>1. ASSUME NEW c \in Conns, Record(c)
        PROVE  LogInv'
    <2>1. Recorded' = Recorded \cup {c}
      BY <1>1, RecordedAppend DEF Record, ProxyTypeOK
    <2>2. QED
      BY <1>1, <2>1 DEF Record, Move, LogInv, ProxyTypeOK
  <1>2. ASSUME NEW c \in Conns, Respond(c)
        PROVE  LogInv'
    <2>1. Recorded' = Recorded
      BY <1>2 DEF Respond, Recorded
    <2>2. QED
      BY <1>2, <2>1 DEF Respond, Move, LogInv, ProxyTypeOK
  <1>3. ASSUME NEW c \in Conns,
               Open(c) \/ Reset(c) \/ Accept(c) \/ Count(c) \/ Tunnel(c)
                 \/ Abandon(c) \/ Leave(c)
        PROVE  LogInv'
    <2>1. Recorded' = Recorded /\ answered' = answered
      BY <1>3 DEF Open, Reset, Accept, Count, Tunnel, Abandon, Leave, Recorded
    <2>2. QED
      BY <1>3, <2>1 DEF Open, Reset, Accept, Count, Tunnel, Abandon, Leave,
                        Move, LogInv, ProxyTypeOK
  <1>4. CASE \/ TestStop \/ AcceptFails \/ Close \/ PollStep \/ WaitStart
             \/ WaitReturned \/ UNCHANGED proxyVars
    <2>1. phase' = phase /\ answered' = answered /\ requests' = requests
      BY <1>4 DEF TestStop, AcceptFails, Close, PollStep, PollBusy,
                  PollSettling, PollSettled, WaitExpire, WaitStart,
                  WaitReturned, proxyVars
    <2>2. QED
      BY <2>1 DEF LogInv, Recorded
  <1>5. QED
    BY <1>1, <1>2, <1>3, <1>4 DEF ProxyNext, AcceptorStep, HandlerStep

LEMMA LogInvariant == ProxySpec => []LogInv
  <1>1. ProxyInit => LogInv
    <2> SUFFICES ASSUME ProxyInit PROVE LogInv
      OBVIOUS
    <2>1. Recorded = {}
      BY DEF ProxyInit, Recorded
    <2>2. /\ answered = {}
          /\ \A c \in Conns : phase[c] = "unopened"
      BY DEF ProxyInit
    <2>3. QED
      BY ONLY <2>1, <2>2 DEF LogInv
  <1>2. QED
    BY <1>1, LogStep, TypeCorrect, PTL DEF ProxySpec

(* Under the mapping, every step of every thread is a step of the abstract *)
(* log or leaves it alone.                                                 *)
LEMMA LogSimulation ==
    ProxyTypeOK /\ LogInv /\ [ProxyNext]_proxyVars => [Log!LogNext]_(Log!logVars)
  <1> SUFFICES ASSUME ProxyTypeOK, LogInv, [ProxyNext]_proxyVars
               PROVE  [Log!LogNext]_(Log!logVars)
    OBVIOUS
  <1> DEFINE Submitted == {c \in Conns : phase[c] # "unopened"}
  <1>0. Log!Logged = Recorded
    BY DEF Log!Logged, Recorded
  <1>1. ASSUME NEW c \in Conns, Open(c)
        PROVE  Log!Submit(c)
    <2>1. Submitted' = Submitted \cup {c} /\ c \notin Submitted
      BY <1>1 DEF Open, Move, ProxyTypeOK
    <2>2. DroppedConns' = DroppedConns
      BY <1>1 DEF Open, Move, ProxyTypeOK, DroppedConns, Recorded
    <2>3. QED
      BY <1>1, <2>1, <2>2 DEF Open, Log!Submit
  <1>2. ASSUME NEW c \in Conns, Record(c)
        PROVE  Log!Keep(c)
    <2>1. Recorded' = Recorded \cup {c}
      BY <1>2, RecordedAppend DEF Record, ProxyTypeOK
    <2>2. Submitted' = Submitted /\ c \in Submitted
      BY <1>2 DEF Record, Move, ProxyTypeOK
    <2>3. DroppedConns' = DroppedConns /\ c \notin DroppedConns
      BY <1>2, <2>1 DEF Record, Move, ProxyTypeOK, DroppedConns
    <2>4. c \notin Recorded
      BY <1>2 DEF Record, Move, LogInv
    <2>5. QED
      BY <1>2, <2>2, <2>3, <2>4, <1>0 DEF Record, Log!Keep
  <1>3. ASSUME NEW c \in Conns, Respond(c)
        PROVE  Log!Answer(c)
    <2>1. Recorded' = Recorded
      BY <1>3 DEF Respond, Recorded
    <2>2. c \in Recorded \ answered
      BY <1>3 DEF Respond, Move, LogInv
    <2>3. Submitted' = Submitted
      BY <1>3 DEF Respond, Move, ProxyTypeOK
    <2>4. DroppedConns' = DroppedConns
      BY <1>3, <2>1, <2>2 DEF Respond, Move, ProxyTypeOK, DroppedConns
    <2>5. QED
      BY <1>3, <2>2, <2>3, <2>4, <1>0 DEF Respond, Log!Answer
  <1>4. ASSUME NEW c \in Conns, Abandon(c) \/ Reset(c), c \notin Recorded
        PROVE  Log!Drop(c)
    <2>1. Recorded' = Recorded
      BY <1>4 DEF Abandon, Reset, Recorded
    <2>2. Submitted' = Submitted /\ c \in Submitted
      BY <1>4 DEF Abandon, Reset, Move, ProxyTypeOK
    <2>3. DroppedConns' = DroppedConns \cup {c} /\ c \notin DroppedConns
      BY <1>4, <2>1 DEF Abandon, Reset, Move, ProxyTypeOK, LogInv, DroppedConns
    <2>4. QED
      BY <1>4, <2>2, <2>3, <1>0 DEF Abandon, Reset, Log!Drop
  <1>5. ASSUME NEW c \in Conns,
               \/ (Abandon(c) \/ Reset(c)) /\ c \in Recorded
               \/ Accept(c) \/ Count(c) \/ Tunnel(c) \/ Leave(c)
        PROVE  UNCHANGED Log!logVars
    <2>1. Recorded' = Recorded /\ requests' = requests /\ answered' = answered
      BY <1>5 DEF Abandon, Reset, Accept, Count, Tunnel, Leave, Recorded
    <2>2. Submitted' = Submitted
      BY <1>5 DEF Abandon, Reset, Accept, Count, Tunnel, Leave, Move, ProxyTypeOK
    <2>3. DroppedConns' = DroppedConns
      BY <1>5, <2>1 DEF Abandon, Reset, Accept, Count, Tunnel, Leave, Move,
                        ProxyTypeOK, DroppedConns
    <2>4. QED
      BY <2>1, <2>2, <2>3 DEF Log!logVars
  <1>6. CASE \/ TestStop \/ AcceptFails \/ Close \/ PollStep \/ WaitStart
             \/ WaitReturned \/ UNCHANGED proxyVars
    <2>1. phase' = phase /\ answered' = answered /\ requests' = requests
      BY <1>6 DEF TestStop, AcceptFails, Close, PollStep, PollBusy,
                  PollSettling, PollSettled, WaitExpire, WaitStart,
                  WaitReturned, proxyVars
    <2>2. QED
      BY <2>1 DEF Log!logVars, DroppedConns, Recorded
  <1>7. QED
    BY <1>1, <1>2, <1>3, <1>4, <1>5, <1>6
       DEF ProxyNext, AcceptorStep, HandlerStep, Log!LogNext

(* SealedProxy implements the abstract request log. *)
THEOREM ProxyImplementsLog == ProxySpec => ImplementsLog
  <1>1. ProxyInit => Log!LogInit
    BY DEF ProxyInit, Log!LogInit, DroppedConns, Recorded
  <1>2. QED
    BY <1>1, LogSimulation, LogInvariant, TypeCorrect, PTL
       DEF ProxySpec, ImplementsLog, Log!LogSpec
=============================================================================
