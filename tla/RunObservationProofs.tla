------------------------ MODULE RunObservationProofs ------------------------
(***************************************************************************)
(* Theorems about RunObservation, for every number of hooks, tools and     *)
(* connections and every bound on the logs.                                *)
(***************************************************************************)
EXTENDS RunObservation, SealedProxyProofs

(* A run drives the proxy only through its operations: every step of the   *)
(* composition is a step of the proxy or leaves it alone.                  *)
LEMMA RunStepIsProxyStep == [RunNext]_allVars => [ProxyNext]_proxyVars
  <1> SUFFICES ASSUME [RunNext]_allVars
               PROVE  [ProxyNext]_proxyVars
    OBVIOUS
  <1>1. CASE RunThread
    <2>1. CASE HookSteps
      BY <2>1 DEF HookSteps, HookSkipped, HookSpawned, HookExits, HookTimesOut,
                  HookReaped, HookFinishes, ProxyNext
    <2>2. CASE StartupSteps
      BY <2>2 DEF StartupSteps, ServerSpawned, ToolsListed, BaselineEvents,
                  BaselineSnapshot
    <2>3. CASE ToolSteps
      BY <2>3 DEF ToolSteps, ToolCalled, ToolRefused, ToolReturns, ProxyNext
    <2>4. CASE WindowSteps
      BY <2>4 DEF WindowSteps, WaitedForProxy, ReadEvents, Snapshot,
                  SliceRequests, ProxyNext
    <2>5. CASE RunBreaks \/ AllObserved \/ CloseRun
      BY <2>5 DEF RunBreaks, AllObserved, CloseRun, ProxyNext
    <2>6. QED
      BY ONLY <1>1, <2>1, <2>2, <2>3, <2>4, <2>5 DEF RunThread
  <1>2. CASE ProxyThreads
    BY <1>2 DEF ProxyThreads, ProxyNext
  <1>3. CASE PackageSteps
    BY <1>3 DEF PackageSteps, SendRequest, EmitEvent, ChangeFile, HookForks,
                ShellExits, PipeReleased, ProxyNext
  <1>4. CASE UNCHANGED allVars
    BY <1>4 DEF allVars
  <1>5. QED
    BY <1>1, <1>2, <1>3, <1>4 DEF RunNext

(* Whatever is proved of the proxy on its own holds of it inside a run.    *)
THEOREM RunUsesProxy == RunSpec => ProxySpec
  <1>1. RunInit => ProxyInit
    BY DEF RunInit
  <1>2. QED
    BY <1>1, RunStepIsProxyStep, PTL DEF RunSpec, ProxySpec

(* Inside a run too, answered requests are in the log, once, in order. *)
COROLLARY RunImplementsLog == RunSpec => ImplementsLog
  BY RunUsesProxy, ProxyImplementsLog, PTL

-----------------------------------------------------------------------------
(* The types of the run's own variables, in two parts: what the run's      *)
(* thread keeps, and what the package's processes append to.               *)
ThreadTypeOK ==
  /\ pc \in {"next", "hook", "reaping", "startup", "baseline", "baseline2",
             "calling", "waiting", "readEvents", "snapshot", "slice",
             "closing", "done"}
  /\ step \in Steps
  /\ attempt \in {1, 2}
  /\ before \in Nat /\ cursor \in Nat /\ fsBefore \in Nat
  /\ draft \in [ev : WindowType, fs : WindowType, error : BOOLEAN]
  /\ obs \in [Steps -> ObservationType \cup {NotYet}]
  /\ started \subseteq Causes

PackageTypeOK ==
  /\ shAlive \in BOOLEAN /\ pipeHeld \in BOOLEAN
  /\ by \in [Conns -> Causes \cup {NoCause}]
  /\ events \in Seq(EffectType) /\ changes \in Seq(EffectType)
  /\ awaited \subseteq Conns

threadVars == <<pc, step, attempt, before, cursor, fsBefore, draft, obs, started>>

(* Where the step numbers of hooks, startup and tools lie. *)
LEMMA StepNumbers ==
  /\ NHooks \in Nat /\ NTools \in Nat
  /\ Startup \in Steps /\ Startup \in Nat /\ Finish \in Steps /\ Finish \in Nat
  /\ \A k \in Hooks : k \in Steps /\ k + 1 \in Steps /\ k < Startup
  /\ Startup + 1 \in Steps
  /\ \A k \in Tools : k \in Steps /\ k + 1 \in Steps /\ Startup < k
  /\ Steps \subseteq Nat
  BY RunBounds DEF Hooks, Startup, Tools, Finish, Steps

(* A step number with an attempt is a cause. *)
LEMMA CauseType == \A k \in Steps, a \in {1, 2} : <<k, a>> \in Causes
  BY DEF Causes

(* The marks and windows are made of lengths of the logs. *)
LEMMA LengthsAreNat ==
  ASSUME ProxyTypeOK, PackageTypeOK
  PROVE  Len(requests) \in Nat /\ Len(events) \in Nat /\ Len(changes) \in Nat
  BY DEF ProxyTypeOK, PackageTypeOK

(* The package's processes and the proxy's threads touch nothing of what   *)
(* the run's thread keeps.                                                 *)
LEMMA OthersKeepThread ==
    PackageSteps \/ ProxyThreads \/ UNCHANGED allVars => UNCHANGED threadVars
  BY DEF PackageSteps, SendRequest, EmitEvent, ChangeFile, HookForks, ShellExits,
         PipeReleased, ProxyThreads, threadVars, allVars, runVars

(* The run's thread appends to none of the logs. *)
LEMMA ThreadKeepsLogs == RunThread => UNCHANGED <<requests, by, events, changes, awaited>>
  <1> USE DEF proxyVars, envVars
  <1>1. HookSteps => UNCHANGED <<requests, by, events, changes, awaited>>
    BY DEF HookSteps, HookSkipped, HookSpawned, HookExits, HookTimesOut,
           HookReaped, HookFinishes, WaitStart
  <1>2. StartupSteps => UNCHANGED <<requests, by, events, changes, awaited>>
    BY DEF StartupSteps, ServerSpawned, ToolsListed, BaselineEvents, BaselineSnapshot
  <1>3. ToolSteps => UNCHANGED <<requests, by, events, changes, awaited>>
    BY DEF ToolSteps, ToolCalled, ToolRefused, ToolReturns, WaitStart
  <1>4. WindowSteps => UNCHANGED <<requests, by, events, changes, awaited>>
    BY DEF WindowSteps, WaitedForProxy, ReadEvents, Snapshot, SliceRequests, WaitReturned
  <1>5. RunBreaks \/ AllObserved \/ CloseRun
          => UNCHANGED <<requests, by, events, changes, awaited>>
    BY DEF RunBreaks, AllObserved, CloseRun, Close
  <1>6. QED
    BY <1>1, <1>2, <1>3, <1>4, <1>5 DEF RunThread

(* Which step the run's thread can be at, and that only earlier steps have *)
(* been observed.                                                          *)
StepInv ==
  /\ step \in Steps
  /\ pc \in {"hook", "reaping"} => step \in Hooks
  /\ pc = "calling" => step \in Tools
  /\ pc \in {"startup", "baseline", "baseline2"} => step = Startup
  /\ pc \in {"waiting", "readEvents", "snapshot", "slice"} => step \in Hooks \cup Tools
  /\ \A k \in Observed : k < step

(* What a process that has begun appends to a log is an effect. *)
LEMMA EffectIsTyped ==
  ASSUME ThreadTypeOK, NEW cause \in started
  PROVE  [cause |-> cause, prompt |-> Foreground(cause)] \in EffectType
  <1>1. Foreground(cause) \in BOOLEAN
    BY DEF Foreground
  <1>2. cause \in Causes
    BY DEF ThreadTypeOK
  <1>3. QED
    BY <1>1, <1>2 DEF EffectType

(* The package's processes keep their variables in their types. *)
LEMMA PackageTypeStep ==
  ASSUME ThreadTypeOK, PackageTypeOK, [RunNext]_allVars
  PROVE  PackageTypeOK'
  <1> USE DEF PackageTypeOK
  <1>1. CASE HookForks \/ ShellExits \/ PipeReleased
    BY <1>1 DEF HookForks, ShellExits, PipeReleased, envVars
  <1>2. ASSUME NEW c \in Conns, SendRequest(c)
        PROVE  PackageTypeOK'
    BY <1>2 DEF SendRequest, ThreadTypeOK
  <1>3. \A cause \in started :
          [cause |-> cause, prompt |-> Foreground(cause)] \in EffectType
    BY EffectIsTyped
  <1>4. ASSUME NEW cause \in started, EmitEvent(cause)
        PROVE  PackageTypeOK'
    <2>1. events' \in Seq(EffectType)
      BY <1>3, <1>4 DEF EmitEvent
    <2>2. QED
      BY <1>4, <2>1 DEF EmitEvent
  <1>5. ASSUME NEW cause \in started, ChangeFile(cause)
        PROVE  PackageTypeOK'
    <2>1. changes' \in Seq(EffectType)
      BY <1>3, <1>5 DEF ChangeFile
    <2>2. QED
      BY <1>5, <2>1 DEF ChangeFile
  <1>6. CASE ProxyThreads
    <2>1. answered' \ answered \subseteq Conns
      BY <1>6 DEF ProxyThreads, AcceptorStep, TestStop, AcceptFails, Accept,
         PollStep, PollBusy, PollSettling, PollSettled, WaitExpire, Reset,
         HandlerStep, Count, Tunnel, Record, Respond, Abandon, Leave
    <2>2. QED
      BY <1>6, <2>1 DEF ProxyThreads
  <1>7. CASE RunThread
    <2>1. UNCHANGED <<by, events, changes, awaited>>
      BY <1>7, ThreadKeepsLogs
    <2>2. shAlive' \in BOOLEAN /\ pipeHeld' \in BOOLEAN
      BY <1>7 DEF RunThread, HookSteps, HookSkipped, HookSpawned, HookExits,
         HookTimesOut, HookReaped, HookFinishes, StartupSteps, ServerSpawned,
         ToolsListed, BaselineEvents, BaselineSnapshot, ToolSteps, ToolCalled,
         ToolRefused, ToolReturns, WindowSteps, WaitedForProxy, ReadEvents,
         Snapshot, SliceRequests, RunBreaks, AllObserved, CloseRun
    <2>3. QED
      BY <2>1, <2>2
  <1>8. CASE UNCHANGED allVars
    BY <1>8 DEF allVars, runVars
  <1>9. QED
    BY ONLY [RunNext]_allVars, <1>1, <1>2, <1>4, <1>5, <1>6, <1>7, <1>8
       DEF RunNext, PackageSteps

(* Observing a step adds that step, in the place of the hooks of its key if *)
(* it is a hook; no other action adds or takes any.                        *)
LEMMA ObservedGrows ==
  ASSUME ThreadTypeOK
  PROVE  /\ SliceRequests =>
              Observed' = {k \in Observed : ~SameKey(k, step)} \cup {step}
         /\ obs' = obs => Observed' = Observed
  <1>1. obs' = obs => Observed' = Observed
    BY DEF Observed
  <1>2. ASSUME SliceRequests
        PROVE  Observed' = {k \in Observed : ~SameKey(k, step)} \cup {step}
    <2>1. Observation # NotYet
      BY DEF Observation, NotYet
    <2>2. obs' = [k \in Steps |-> Kept(k)] /\ step \in Steps
      BY <1>2 DEF SliceRequests, ThreadTypeOK
    <2>3. \A k \in Steps : Kept(k) # NotYet
                             <=> k = step \/ (obs[k] # NotYet /\ ~SameKey(k, step))
      BY <2>1 DEF Kept
    <2>4. \A k \in Steps : obs'[k] = Kept(k)
      BY <2>2
    <2>5. Observed' = {k \in Steps : Kept(k) # NotYet}
      BY <2>4 DEF Observed
    <2>6. QED
      BY <2>2, <2>3, <2>5 DEF Observed
  <1>3. QED
    BY <1>1, <1>2

(* The step counter follows the run's thread. *)
LEMMA StepInvStep ==
  ASSUME ThreadTypeOK, StepInv, RunThread
  PROVE  StepInv'
  <1> USE DEF StepInv
  <1>1. CASE SliceRequests
    <2>1. pc' = "next" /\ step' = step + 1 /\ step' \in Steps
      BY <1>1, StepNumbers DEF SliceRequests
    <2>2. Observed' \subseteq Observed \cup {step}
      BY <1>1, ObservedGrows
    <2>3. \A k \in Observed' : k < step'
      BY <2>1, <2>2, StepNumbers DEF Observed
    <2>4. QED
      BY <2>1, <2>3
  <1>2. ASSUME obs' = obs, step' \in {step, step + 1}
        PROVE  \A k \in Observed' : k < step'
    BY <1>2, StepNumbers, ObservedGrows DEF Observed
  <1>3. CASE HookSteps
    BY <1>3, <1>2, StepNumbers DEF HookSteps, HookSkipped, HookSpawned, HookExits,
       HookTimesOut, HookReaped, HookFinishes
  <1>4. CASE StartupSteps
    BY <1>4, <1>2, StepNumbers DEF StartupSteps, ServerSpawned, ToolsListed,
       BaselineEvents, BaselineSnapshot
  <1>5. CASE ToolSteps
    BY <1>5, <1>2, StepNumbers DEF ToolSteps, ToolCalled, ToolRefused, ToolReturns
  <1>6. CASE WaitedForProxy \/ ReadEvents \/ Snapshot
    BY <1>6, <1>2, StepNumbers DEF WaitedForProxy, ReadEvents, Snapshot
  <1>7. CASE RunBreaks \/ AllObserved \/ CloseRun
    BY <1>7, <1>2, StepNumbers DEF RunBreaks, AllObserved, CloseRun
  <1>8. QED
    BY ONLY RunThread, <1>1, <1>3, <1>4, <1>5, <1>6, <1>7 DEF RunThread, WindowSteps

(* The run's thread keeps its own variables in their types. *)
LEMMA ThreadTypeStep ==
  ASSUME ProxyTypeOK, ThreadTypeOK, PackageTypeOK, StepInv, RunThread
  PROVE  ThreadTypeOK'
  <1> USE DEF ThreadTypeOK
  <1>1. CASE HookSkipped \/ HookTimesOut \/ ServerSpawned \/ ToolsListed
             \/ RunBreaks \/ AllObserved \/ CloseRun
    BY <1>1, StepNumbers, CauseType DEF HookSkipped, HookTimesOut, ServerSpawned,
       ToolsListed, RunBreaks, AllObserved, CloseRun
  <1>2. CASE HookSpawned \/ ToolCalled \/ ToolRefused
    <2>1. Len(requests) \in Nat /\ Len(changes) \in Nat
      BY LengthsAreNat
    <2>2. \A a \in {1, 2} : started \cup {<<step, a>>} \subseteq Causes
      BY CauseType
    <2>3. CASE HookSpawned
      BY <2>1, <2>2, <2>3 DEF HookSpawned
    <2>4. CASE ToolCalled
      BY <2>1, <2>2, <2>4 DEF ToolCalled
    <2>5. CASE ToolRefused
      BY <2>1, <2>2, <2>5 DEF ToolRefused
    <2>6. QED
      BY ONLY <1>2, <2>3, <2>4, <2>5
  <1>7. CASE BaselineEvents \/ BaselineSnapshot
    BY <1>7, StepNumbers, LengthsAreNat DEF BaselineEvents, BaselineSnapshot, StepInv
  <1>3. ASSUME NEW error \in BOOLEAN,
               HookExits \/ HookReaped \/ ToolReturns(error)
        PROVE  ThreadTypeOK'
    BY <1>3 DEF HookExits, HookReaped, HookFinishes, ToolReturns
  <1>4. CASE WaitedForProxy
    BY <1>4 DEF WaitedForProxy
  <1>5. CASE ReadEvents \/ Snapshot
    BY <1>5, LengthsAreNat DEF ReadEvents, Snapshot, Window, WindowType
  <1>6. CASE SliceRequests
    <2>1. Observation \in ObservationType
      BY LengthsAreNat DEF Observation, ObservationType, Window, WindowType
    <2>2. NoDraft \in [ev : WindowType, fs : WindowType, error : BOOLEAN]
      BY DEF NoDraft, EmptyWindow, Window, WindowType
    <2>3. step + 1 \in Steps
      BY <1>6, StepNumbers DEF SliceRequests, StepInv
    <2>4. \A k \in Steps : Kept(k) \in ObservationType \cup {NotYet}
      BY <2>1 DEF Kept
    <2>5. obs' \in [Steps -> ObservationType \cup {NotYet}]
      BY <1>6, <2>4 DEF SliceRequests
    <2>6. QED
      BY <1>6, <2>2, <2>3, <2>5 DEF SliceRequests
  <1>8. QED
    BY ONLY RunThread, <1>1, <1>2, <1>3, <1>4, <1>5, <1>6, <1>7
       DEF RunThread, HookSteps, StartupSteps, ToolSteps, WindowSteps

(* Types and steps together are inductive. *)
TypeInv == ProxyTypeOK /\ ActiveCounts /\ ThreadTypeOK /\ PackageTypeOK /\ StepInv

LEMMA TypeInvInit == RunInit => TypeInv
  <1> SUFFICES ASSUME RunInit PROVE TypeInv
    OBVIOUS
  <1>1. ProxyTypeOK /\ ActiveCounts
    BY InitTypeOK, InitActive DEF RunInit
  <1>2. step \in Steps /\ Observed = {}
    BY StepNumbers, RunBounds DEF RunInit, Observed, Steps, Finish, Startup
  <1>3. StepInv
    BY <1>2 DEF RunInit, StepInv
  <1>4. NoDraft \in [ev : WindowType, fs : WindowType, error : BOOLEAN]
    BY DEF NoDraft, EmptyWindow, Window, WindowType
  <1>5. obs \in [Steps -> ObservationType \cup {NotYet}]
    BY DEF RunInit
  <1>6. before \in Nat /\ cursor \in Nat /\ fsBefore \in Nat
    BY DEF RunInit
  <1>7. pc = "next" /\ attempt = 1 /\ draft = NoDraft /\ started = {}
    BY DEF RunInit
  <1>8. ThreadTypeOK
    BY ONLY <1>2, <1>4, <1>5, <1>6, <1>7 DEF ThreadTypeOK
  <1>9. shAlive \in BOOLEAN /\ pipeHeld \in BOOLEAN
    BY DEF RunInit
  <1>10. events \in Seq(EffectType) /\ changes \in Seq(EffectType)
    BY DEF RunInit
  <1>11. by \in [Conns -> Causes \cup {NoCause}] /\ awaited \subseteq Conns
    BY DEF RunInit
  <1>12. PackageTypeOK
    BY ONLY <1>9, <1>10, <1>11 DEF PackageTypeOK
  <1>13. QED
    BY <1>1, <1>3, <1>8, <1>12 DEF TypeInv

LEMMA TypeInvStep == TypeInv /\ [RunNext]_allVars => TypeInv'
  <1> SUFFICES ASSUME TypeInv, [RunNext]_allVars PROVE TypeInv'
    OBVIOUS
  <1>1. ProxyTypeOK' /\ ActiveCounts'
    BY RunStepIsProxyStep, TypeStep, ActiveStep DEF TypeInv
  <1>2. PackageTypeOK'
    BY PackageTypeStep DEF TypeInv
  <1>3. ThreadTypeOK' /\ StepInv'
    <2>1. CASE RunThread
      BY <2>1, ThreadTypeStep, StepInvStep DEF TypeInv
    <2>2. CASE UNCHANGED threadVars
      BY <2>2 DEF TypeInv, ThreadTypeOK, StepInv, threadVars, Observed
    <2>3. QED
      BY <2>1, <2>2, OthersKeepThread DEF RunNext
  <1>4. QED
    BY <1>1, <1>2, <1>3 DEF TypeInv

LEMMA TypeInvariant == RunSpec => []TypeInv
  BY TypeInvInit, TypeInvStep, PTL DEF RunSpec

(* The type invariant of a run, the proxy's included. *)
THEOREM RunTypeCorrect == RunSpec => []RunTypeOK
  <1>1. TypeInv => RunTypeOK
    BY DEF TypeInv, ThreadTypeOK, PackageTypeOK, RunTypeOK
  <1>2. QED
    BY <1>1, TypeInvariant, PTL

-----------------------------------------------------------------------------
(* WindowsInOrder is not inductive: it holds because the run's thread moves *)
(* its marks forward only, and past every window already cut.  After the    *)
(* steps, the three parts below say where the marks are, one per log.       *)

(* `before` marks the request log from the spawn or the call to the slice. *)
Marked == pc \in {"hook", "reaping", "calling", "waiting", "readEvents", "snapshot", "slice"}

RequestInv ==
  /\ before \in Nat /\ before <= Len(requests)
  /\ \A k \in Observed :
       /\ obs[k].req.hi \in Nat /\ obs[k].req.hi <= Len(requests)
       /\ Marked => obs[k].req.hi <= before

(* The event cursor is past every window; the one just read ends at it. *)
EventInv ==
  /\ cursor \in Nat /\ cursor <= Len(events)
  /\ \A k \in Observed : obs[k].ev.hi \in Nat /\ obs[k].ev.hi <= cursor
  /\ pc \in {"snapshot", "slice"} =>
       /\ draft.ev.lo \in Nat /\ draft.ev.hi = cursor
       /\ \A k \in Observed : obs[k].ev.hi <= draft.ev.lo

(* The snapshot is current only between a hook's spawn and its own reading, *)
(* and throughout the tools; between hooks it is stale.                     *)
SnapshotCurrent ==
  \/ step \in Tools
  \/ pc \in {"hook", "reaping", "waiting", "readEvents", "snapshot"}

ChangeInv ==
  /\ fsBefore \in Nat /\ fsBefore <= Len(changes)
  /\ \A k \in Observed :
       /\ obs[k].fs.hi \in Nat /\ obs[k].fs.hi <= Len(changes)
       /\ SnapshotCurrent => obs[k].fs.hi <= fsBefore
  /\ pc = "slice" =>
       /\ draft.fs.lo \in Nat /\ draft.fs.hi \in Nat
       /\ draft.fs.hi <= Len(changes)
       /\ step \in Tools => draft.fs.hi <= fsBefore
       /\ \A k \in Observed : obs[k].fs.hi <= draft.fs.lo

MarkInv == RequestInv /\ EventInv /\ ChangeInv

-----------------------------------------------------------------------------
(* The three logs only grow. *)
LEMMA LogsGrow ==
  ASSUME TypeInv, [RunNext]_allVars
  PROVE  /\ Len(requests') \in Nat /\ Len(requests) <= Len(requests')
         /\ Len(events') \in Nat /\ Len(events) <= Len(events')
         /\ Len(changes') \in Nat /\ Len(changes) <= Len(changes')
  <1>1. Len(requests) \in Nat /\ Len(events) \in Nat /\ Len(changes) \in Nat
    BY LengthsAreNat DEF TypeInv
  <1>2. requests' = requests \/ \E c \in Conns : requests' = Append(requests, c)
    BY RunStepIsProxyStep DEF ProxyNext, AcceptorStep, TestStop, AcceptFails, Accept,
       Open, Reset, HandlerStep, Count, Tunnel, Record, Respond, Abandon, Leave,
       Close, PollStep, PollBusy, PollSettling, PollSettled, WaitExpire, WaitStart,
       WaitReturned, proxyVars
  <1>3. Len(requests') \in Nat /\ Len(requests) <= Len(requests')
    BY <1>1, <1>2 DEF TypeInv, ProxyTypeOK
  <1>4. events' = events \/ \E e \in EffectType : events' = Append(events, e)
    <2>1. CASE RunThread
      BY <2>1, ThreadKeepsLogs
    <2>2. ASSUME NEW cause \in started, EmitEvent(cause)
          PROVE  \E e \in EffectType : events' = Append(events, e)
      BY <2>2, EffectIsTyped DEF EmitEvent, TypeInv
    <2>3. CASE ProxyThreads \/ UNCHANGED allVars
      BY <2>3 DEF ProxyThreads, allVars, runVars
    <2>4. QED
      BY <2>1, <2>2, <2>3 DEF RunNext, PackageSteps, ChangeFile,
         SendRequest, HookForks, ShellExits, PipeReleased, envVars
  <1>5. Len(events') \in Nat /\ Len(events) <= Len(events')
    BY <1>1, <1>4 DEF TypeInv, PackageTypeOK
  <1>6. changes' = changes \/ \E e \in EffectType : changes' = Append(changes, e)
    <2>1. CASE RunThread
      BY <2>1, ThreadKeepsLogs
    <2>2. ASSUME NEW cause \in started, ChangeFile(cause)
          PROVE  \E e \in EffectType : changes' = Append(changes, e)
      BY <2>2, EffectIsTyped DEF ChangeFile, TypeInv
    <2>3. CASE ProxyThreads \/ UNCHANGED allVars
      BY <2>3 DEF ProxyThreads, allVars, runVars
    <2>4. QED
      BY <2>1, <2>2, <2>3 DEF RunNext, PackageSteps, EmitEvent,
         SendRequest, HookForks, ShellExits, PipeReleased, envVars
  <1>7. Len(changes') \in Nat /\ Len(changes) <= Len(changes')
    BY <1>1, <1>6 DEF TypeInv, PackageTypeOK
  <1>8. QED
    BY <1>1, <1>3, <1>5, <1>7

(* Every hi of an observed window is a position in a log. *)
LEMMA WindowsAreTyped ==
  ASSUME ThreadTypeOK
  PROVE  \A k \in Observed : obs[k] \in ObservationType
  BY DEF Observed, ThreadTypeOK

(* Cutting a window adds one observation; what is left of the earlier ones *)
(* is as it was.                                                           *)
LEMMA SliceAdds ==
  ASSUME TypeInv, SliceRequests
  PROVE  /\ step \in Observed' /\ obs'[step] = Observation
         /\ \A k \in Observed : k < step
         /\ \A k \in Observed' : k = step \/ (k \in Observed /\ obs'[k] = obs[k])
  <1>1. Observed' = {k \in Observed : ~SameKey(k, step)} \cup {step}
    BY ObservedGrows DEF TypeInv
  <1>2. \A k \in Steps : obs'[k] = Kept(k)
    BY DEF SliceRequests
  <1>3. step \in Steps /\ Observed \subseteq Steps
    BY DEF TypeInv, ThreadTypeOK, Observed
  <1>4. obs'[step] = Observation
    BY <1>2, <1>3 DEF Kept
  <1>5. \A k \in Observed : k < step
    BY DEF TypeInv, StepInv
  <1>6. \A k \in Observed' : k = step \/ (k \in Observed /\ obs'[k] = obs[k])
    BY <1>1, <1>2, <1>3 DEF Kept
  <1>7. QED
    BY <1>1, <1>4, <1>5, <1>6

(* The request marks, when the run's thread moves. *)
LEMMA RequestInvStep ==
  ASSUME TypeInv, RequestInv, RunThread
  PROVE  RequestInv'
  <1> USE DEF RequestInv, Marked
  <1>0. Len(requests) \in Nat /\ requests' = requests
    BY LengthsAreNat, ThreadKeepsLogs DEF TypeInv
  <1>1. CASE SliceRequests
    <2>1. obs'[step].req.hi = Len(requests)
      BY <1>1, SliceAdds DEF Observation, Window
    <2>2. pc' = "next" /\ before' = before
      BY <1>1 DEF SliceRequests
    <2>3. QED
      BY <1>0, <1>1, <2>1, <2>2, SliceAdds
  <1>2. ASSUME obs' = obs, before' = Len(requests) \/ (before' = before /\ (Marked' => Marked))
        PROVE  RequestInv'
    <2>1. Observed' = Observed
      BY <1>2 DEF Observed
    <2>2. QED
      BY <1>0, <1>2, <2>1
  <1>3. CASE HookSteps
    BY <1>3, <1>2 DEF HookSteps, HookSkipped, HookSpawned, HookExits,
       HookTimesOut, HookReaped, HookFinishes
  <1>4. CASE StartupSteps
    BY <1>4, <1>2 DEF StartupSteps, ServerSpawned, ToolsListed,
       BaselineEvents, BaselineSnapshot
  <1>5. CASE ToolSteps
    BY <1>5, <1>2 DEF ToolSteps, ToolCalled, ToolRefused, ToolReturns
  <1>6. CASE WaitedForProxy \/ ReadEvents \/ Snapshot
    BY <1>6, <1>2 DEF WaitedForProxy, ReadEvents, Snapshot
  <1>7. CASE RunBreaks \/ AllObserved \/ CloseRun
    BY <1>7, <1>2 DEF RunBreaks, AllObserved, CloseRun
  <1>8. QED
    BY ONLY RunThread, <1>1, <1>3, <1>4, <1>5, <1>6, <1>7 DEF RunThread, WindowSteps

(* The event cursor, when the run's thread moves. *)
LEMMA EventInvStep ==
  ASSUME TypeInv, EventInv, RunThread
  PROVE  EventInv'
  <1> USE DEF EventInv
  <1>0. Len(events) \in Nat /\ events' = events
    BY LengthsAreNat, ThreadKeepsLogs DEF TypeInv
  <1>1. CASE SliceRequests
    <2>1. obs'[step].ev.hi = cursor
      BY <1>1, SliceAdds DEF Observation, SliceRequests
    <2>2. pc' = "next" /\ cursor' = cursor
      BY <1>1 DEF SliceRequests
    <2>3. QED
      BY <1>0, <1>1, <2>1, <2>2, SliceAdds
  <1>2. CASE ReadEvents
    <2>1. /\ draft'.ev.lo = cursor /\ draft'.ev.hi = Len(events)
          /\ cursor' = Len(events) /\ obs' = obs
      BY <1>2 DEF ReadEvents, Window, TypeInv, ThreadTypeOK
    <2>2. Observed' = Observed
      BY <2>1 DEF Observed
    <2>3. QED
      BY <1>0, <2>1, <2>2
  <1>3. CASE Snapshot
    <2>1. draft'.ev = draft.ev /\ cursor' = cursor /\ obs' = obs /\ pc = "snapshot"
      BY <1>3 DEF Snapshot, TypeInv, ThreadTypeOK
    <2>2. Observed' = Observed
      BY <2>1 DEF Observed
    <2>3. QED
      BY <1>0, <2>1, <2>2
  <1>4. ASSUME obs' = obs, cursor' = Len(events) \/ cursor' = cursor,
               pc' \notin {"snapshot", "slice"}
        PROVE  EventInv'
    <2>1. Observed' = Observed
      BY <1>4 DEF Observed
    <2>2. QED
      BY <1>0, <1>4, <2>1
  <1>5. CASE HookSteps
    BY <1>5, <1>4 DEF HookSteps, HookSkipped, HookSpawned, HookExits,
       HookTimesOut, HookReaped, HookFinishes
  <1>6. CASE StartupSteps
    BY <1>6, <1>4 DEF StartupSteps, ServerSpawned, ToolsListed,
       BaselineEvents, BaselineSnapshot
  <1>7. CASE ToolSteps
    BY <1>7, <1>4 DEF ToolSteps, ToolCalled, ToolRefused, ToolReturns
  <1>8. CASE WaitedForProxy \/ RunBreaks \/ AllObserved \/ CloseRun
    BY <1>8, <1>4 DEF WaitedForProxy, RunBreaks, AllObserved, CloseRun
  <1>9. QED
    BY ONLY RunThread, <1>1, <1>2, <1>3, <1>5, <1>6, <1>7, <1>8 DEF RunThread, WindowSteps

(* The directory snapshot, when the run's thread moves. *)
LEMMA ChangeInvStep ==
  ASSUME TypeInv, ChangeInv, RunThread
  PROVE  ChangeInv'
  <1> USE DEF ChangeInv
  <1>0. /\ Len(changes) \in Nat /\ changes' = changes
        /\ \A k \in Hooks : k \notin Tools /\ k + 1 \notin Tools
        /\ Startup \notin Tools
        /\ Tools' = Tools /\ Hooks' = Hooks
    BY LengthsAreNat, ThreadKeepsLogs, StepNumbers DEF TypeInv, Tools, Hooks, Startup
  <1>1. CASE SliceRequests
    <2>1. obs'[step].fs = draft.fs
      BY <1>1, SliceAdds DEF Observation
    <2>2. pc = "slice" /\ pc' = "next" /\ fsBefore' = fsBefore /\ step' = step + 1
      BY <1>1 DEF SliceRequests
    <2>3. SnapshotCurrent' => step \in Tools
      BY <1>0, <1>1, <2>2 DEF SnapshotCurrent, TypeInv, StepInv
    <2>4. QED
      BY <1>0, <1>1, <2>1, <2>2, <2>3, SliceAdds DEF SnapshotCurrent
  <1>2. CASE Snapshot
    <2>1. /\ draft'.fs.lo = fsBefore /\ draft'.fs.hi = Len(changes)
          /\ obs' = obs /\ step' = step /\ pc = "snapshot" /\ pc' = "slice"
          /\ fsBefore' = IF step \in Tools THEN Len(changes) ELSE fsBefore
      BY <1>2 DEF Snapshot, Window, TypeInv, ThreadTypeOK
    <2>2. Observed' = Observed
      BY <2>1 DEF Observed
    <2>3. QED
      BY <1>0, <2>1, <2>2 DEF SnapshotCurrent
  <1>3. ASSUME obs' = obs, pc' # "slice",
               \/ fsBefore' = Len(changes)
               \/ fsBefore' = fsBefore /\ (SnapshotCurrent' => SnapshotCurrent)
        PROVE  ChangeInv'
    <2>1. Observed' = Observed
      BY <1>3 DEF Observed
    <2>2. QED
      BY <1>0, <1>3, <2>1
  <1>4. CASE HookSteps
    BY <1>0, <1>3, <1>4 DEF HookSteps, HookSkipped, HookSpawned, HookExits,
       HookTimesOut, HookReaped, HookFinishes, SnapshotCurrent
  <1>5. CASE StartupSteps
    BY <1>0, <1>3, <1>5 DEF StartupSteps, ServerSpawned, ToolsListed,
       BaselineEvents, BaselineSnapshot, SnapshotCurrent
  <1>6. CASE ToolSteps
    BY <1>0, <1>3, <1>6 DEF ToolSteps, ToolCalled, ToolRefused, ToolReturns,
       SnapshotCurrent, TypeInv, StepInv
  <1>7. CASE WaitedForProxy \/ ReadEvents
    BY <1>0, <1>3, <1>7 DEF WaitedForProxy, ReadEvents, SnapshotCurrent
  <1>8. CASE RunBreaks \/ AllObserved \/ CloseRun
    BY <1>0, <1>3, <1>8 DEF RunBreaks, AllObserved, CloseRun, SnapshotCurrent
  <1>9. QED
    BY ONLY RunThread, <1>1, <1>2, <1>4, <1>5, <1>6, <1>7, <1>8
       DEF RunThread, WindowSteps

(* The marks hold at first, and the package's and the proxy's steps only   *)
(* make the logs longer.                                                   *)
LEMMA MarkInvStep == TypeInv /\ MarkInv /\ [RunNext]_allVars => MarkInv'
  <1> SUFFICES ASSUME TypeInv, MarkInv, [RunNext]_allVars
               PROVE  MarkInv'
    OBVIOUS
  <1>1. CASE RunThread
    BY <1>1, RequestInvStep, EventInvStep, ChangeInvStep DEF MarkInv
  <1>2. CASE UNCHANGED threadVars
    <2>0. /\ Len(requests) \in Nat /\ Len(events) \in Nat /\ Len(changes) \in Nat
          /\ Observed' = Observed
      BY <1>2, LengthsAreNat DEF TypeInv, threadVars, Observed
    <2>1. RequestInv'
      BY <1>2, <2>0, LogsGrow DEF threadVars, MarkInv, RequestInv, Marked
    <2>2. EventInv'
      BY <1>2, <2>0, LogsGrow DEF threadVars, MarkInv, EventInv
    <2>3. ChangeInv'
      BY <1>2, <2>0, LogsGrow DEF threadVars, MarkInv, ChangeInv, SnapshotCurrent
    <2>4. QED
      BY <2>1, <2>2, <2>3 DEF MarkInv
  <1>3. QED
    BY <1>1, <1>2, OthersKeepThread DEF RunNext

LEMMA MarkInvInit == RunInit => MarkInv
  <1> SUFFICES ASSUME RunInit PROVE MarkInv
    OBVIOUS
  <1>1. Observed = {} /\ pc = "next"
    BY DEF RunInit, Observed
  <1>2. before = 0 /\ cursor = 0 /\ fsBefore = 0
    BY DEF RunInit
  <1>3. Len(requests) = 0 /\ Len(events) = 0 /\ Len(changes) = 0
    BY DEF RunInit, ProxyInit
  <1>4. QED
    BY ONLY <1>1, <1>2, <1>3 DEF MarkInv, RequestInv, EventInv, ChangeInv

(* With the marks where they are, the next window starts past all others.  *)
LEMMA OrderStep ==
    TypeInv /\ MarkInv /\ WindowsInOrder /\ [RunNext]_allVars => WindowsInOrder'
  <1> SUFFICES ASSUME TypeInv, MarkInv, WindowsInOrder, [RunNext]_allVars
               PROVE  WindowsInOrder'
    OBVIOUS
  <1>1. CASE SliceRequests
    <2>1. pc = "slice"
      BY <1>1 DEF SliceRequests
    <2>2. ASSUME NEW j \in Observed
          PROVE  /\ Precedes(obs[j].req, Observation.req)
                 /\ Precedes(obs[j].ev, Observation.ev)
                 /\ Precedes(obs[j].fs, Observation.fs)
      BY <2>1 DEF MarkInv, RequestInv, Marked, EventInv, ChangeInv, Precedes,
                  Observation, Window
    <2>3. \A j \in Observed : j < step /\ ~(step < j)
      BY StepNumbers DEF TypeInv, StepInv, Observed
    <2>4. ~(step < step)
      BY StepNumbers DEF TypeInv, StepInv
    <2>5. QED
      BY <1>1, <2>2, <2>3, <2>4, SliceAdds DEF WindowsInOrder
  <1>2. ASSUME obs' = obs
        PROVE  WindowsInOrder'
    BY <1>2 DEF WindowsInOrder, Observed
  <1>3. CASE RunThread /\ ~SliceRequests
    BY <1>2, <1>3 DEF RunThread, HookSteps, HookSkipped, HookSpawned, HookExits,
       HookTimesOut, HookReaped, HookFinishes, StartupSteps, ServerSpawned,
       ToolsListed, BaselineEvents, BaselineSnapshot, ToolSteps, ToolCalled,
       ToolRefused, ToolReturns, WindowSteps, WaitedForProxy, ReadEvents,
       Snapshot, RunBreaks, AllObserved, CloseRun
  <1>4. CASE ~RunThread
    BY <1>2, <1>4, OthersKeepThread DEF RunNext, threadVars
  <1>5. QED
    BY <1>1, <1>3, <1>4

(* Nothing any process ever does is reported for two activities, whatever  *)
(* the number of hooks, tools, retries and skipped hooks, and however the  *)
(* package's processes interleave with the reading of the logs.            *)
THEOREM WindowsNeverOverlap == RunSpec => []WindowsInOrder
  <1>1. RunInit => WindowsInOrder
    BY DEF RunInit, WindowsInOrder, Observed
  <1>2. QED
    BY <1>1, MarkInvInit, MarkInvStep, OrderStep, TypeInvariant, PTL DEF RunSpec

-----------------------------------------------------------------------------
(* What an activity does while it is being waited for is reported for      *)
(* exactly that activity.                                                  *)

(* The run is not over: its thread may still cut windows. *)
Running == pc \notin {"closing", "done"}

(* Where what the current step did has not been read from the log yet. *)
EventsUnread ==
  pc \in {"hook", "reaping", "startup", "baseline", "calling", "waiting", "readEvents"}
ChangesUnread == EventsUnread \/ pc \in {"baseline2", "snapshot"}

(* Where the i-th event stands, if it was prompt and step k's doing: inside *)
(* k's window and no other, and past the cursor exactly while k is running  *)
(* and the log has not been read for it.                                    *)
EventFits(i, k) ==
  /\ \A j \in Observed : Within(i, obs[j].ev) <=> k = j
  /\ Running => /\ k <= step
                /\ pc = "next" => k < step
                /\ cursor < i <=> (k = step /\ EventsUnread)
  /\ pc \in {"snapshot", "slice"} => (Within(i, draft.ev) <=> k = step)

EventsFit == \A i \in DOMAIN events : events[i].prompt => EventFits(i, events[i].cause[1])

(* The same of the i-th change.  The snapshot says something only where it  *)
(* is current.                                                              *)
ChangeFits(i, k) ==
  /\ \A j \in Observed : Within(i, obs[j].fs) <=> k = j
  /\ Running => /\ k <= step
                /\ pc = "next" => k < step
                /\ SnapshotCurrent => (fsBefore < i <=> (k = step /\ ChangesUnread))
  /\ pc = "slice" => (Within(i, draft.fs) <=> k = step)

ChangesFit == \A i \in DOMAIN changes : changes[i].prompt => ChangeFits(i, changes[i].cause[1])

(* What has begun belongs to a step already reached, and a step's second    *)
(* attempt begins after its first.                                          *)
StartedInv ==
  \A cause \in started :
    /\ cause[1] <= step
    /\ pc = "next" => cause[1] < step
    /\ cause = <<step, 2>> => attempt = 2

(* Whoever opened a connection had begun; only answers are awaited. *)
CauseInv ==
  /\ \A c \in Conns : phase[c] # "unopened" => by[c] \in started
  /\ awaited \subseteq answered

(* Where the p-th request stands: past the windows of all earlier steps; in *)
(* the window being cut if the current attempt made it; and, if its answer  *)
(* was awaited, in that window only then, and in the observed window of its *)
(* own attempt and no other.                                                *)
RequestFits(p, c) ==
  /\ \A k \in Observed : k < by[c][1] => obs[k].req.hi < p
  /\ Marked /\ by[c] = <<step, attempt>> => before < p
  /\ c \in awaited =>
       /\ Marked /\ by[c] # <<step, attempt>> => p <= before
       /\ \A k \in Observed : Within(p, obs[k].req) <=> by[c] = <<k, obs[k].attempt>>

RequestsFit == \A p \in DOMAIN requests : RequestFits(p, requests[p])

-----------------------------------------------------------------------------
(* What a step of the run's thread leaves of a log it does not append to. *)
LEMMA EventType ==
  ASSUME TypeInv
  PROVE  /\ Len(events) \in Nat /\ DOMAIN events = 1..Len(events)
         /\ \A i \in DOMAIN events : events[i].cause[1] \in Steps
         /\ Len(changes) \in Nat /\ DOMAIN changes = 1..Len(changes)
         /\ \A i \in DOMAIN changes : changes[i].cause[1] \in Steps
  <1>1. events \in Seq(EffectType) /\ changes \in Seq(EffectType)
    BY DEF TypeInv, PackageTypeOK
  <1>2. \A e \in EffectType : e.cause[1] \in Steps
    BY DEF EffectType, Causes
  <1>3. QED
    BY <1>1, <1>2

(* Where the run's thread can be is one place at a time. *)
LEMMA EventFitsThread ==
  ASSUME TypeInv, EventInv, RunThread, NEW i \in 1..Len(events), NEW k \in Steps,
         EventFits(i, k)
  PROVE  EventFits(i, k)'
  <1> USE DEF EventFits, Running, EventsUnread
  <1>0. /\ Len(events) \in Nat /\ events' = events /\ i \in Nat /\ k \in Nat
        /\ step \in Nat /\ step \in Steps /\ cursor \in Nat
    BY EventType, ThreadKeepsLogs, StepNumbers DEF TypeInv, StepInv, EventInv
  <1>1. CASE SliceRequests
    <2>1. obs'[step].ev = draft.ev
      BY <1>1, SliceAdds DEF Observation
    <2>2. /\ pc = "slice" /\ pc' = "next" /\ cursor' = cursor /\ step' = step + 1
      BY <1>1 DEF SliceRequests
    <2>3. Within(i, obs'[step].ev) <=> k = step
      BY <2>1, <2>2
    <2>4. \A j \in Observed : Within(i, obs[j].ev) <=> k = j
      OBVIOUS
    <2>5. \A j \in Observed' : Within(i, obs'[j].ev) <=> k = j
      BY <1>1, <2>3, <2>4, SliceAdds
    <2>6. QED
      BY <1>0, <2>2, <2>5
  <1>2. ASSUME obs' = obs
        PROVE  \A j \in Observed' : Within(i, obs'[j].ev) <=> k = j
    BY <1>2 DEF Observed
  <1>3. CASE ReadEvents
    <2>1. /\ pc = "readEvents" /\ pc' = "snapshot" /\ step' = step /\ obs' = obs
          /\ cursor' = Len(events) /\ draft'.ev.lo = cursor /\ draft'.ev.hi = Len(events)
      BY <1>3 DEF ReadEvents, Window, TypeInv, ThreadTypeOK
    <2>2. QED
      BY <1>0, <1>2, <2>1 DEF Within
  <1>4. CASE Snapshot
    <2>1. /\ pc = "snapshot" /\ pc' = "slice" /\ step' = step /\ obs' = obs
          /\ cursor' = cursor /\ draft'.ev = draft.ev
      BY <1>4 DEF Snapshot, TypeInv, ThreadTypeOK
    <2>2. QED
      BY <1>0, <1>2, <2>1 DEF Within
  <1>5. CASE HookSteps
    BY <1>0, <1>2, <1>5 DEF HookSteps, HookSkipped, HookSpawned, HookExits,
       HookTimesOut, HookReaped, HookFinishes
  <1>6. CASE StartupSteps
    BY <1>0, <1>2, <1>6 DEF StartupSteps, ServerSpawned, ToolsListed,
       BaselineEvents, BaselineSnapshot
  <1>7. CASE ToolSteps
    BY <1>0, <1>2, <1>7 DEF ToolSteps, ToolCalled, ToolRefused, ToolReturns
  <1>8. CASE WaitedForProxy \/ RunBreaks \/ AllObserved \/ CloseRun
    BY <1>0, <1>2, <1>8 DEF WaitedForProxy, RunBreaks, AllObserved, CloseRun
  <1>9. QED
    BY ONLY RunThread, <1>1, <1>3, <1>4, <1>5, <1>6, <1>7, <1>8 DEF RunThread, WindowSteps

(* A new event is past the cursor, and prompt only while its step runs. *)
LEMMA EventFitsNew ==
  ASSUME TypeInv, EventInv, NEW cause \in started, EmitEvent(cause), Foreground(cause),
         NEW i, i = Len(events) + 1
  PROVE  EventFits(i, cause[1])'
  <1>1. /\ Len(events) \in Nat /\ step \in Nat /\ cursor \in Nat /\ cursor <= Len(events)
        /\ \A j \in Observed : /\ j < step /\ j \in Nat
                               /\ obs[j].ev.hi \in Nat /\ obs[j].ev.hi <= cursor
    BY EventType, StepNumbers DEF TypeInv, StepInv, EventInv, Observed
  <1>2. cause[1] = step /\ pc \in {"hook", "startup", "calling"}
    BY DEF Foreground
  <1>3. UNCHANGED threadVars
    BY OthersKeepThread DEF PackageSteps
  <1>4. Observed' = Observed
    BY <1>3 DEF threadVars, Observed
  <1>5. \A j \in Observed : ~Within(i, obs[j].ev) /\ step # j
    BY <1>1 DEF Within
  <1>6. EventFits(i, step)
    BY <1>1, <1>2, <1>5 DEF EventFits, Running, EventsUnread
  <1>7. EventFits(i, cause[1])
    BY <1>2, <1>6
  <1>8. QED
    BY <1>3, <1>4, <1>7 DEF EventFits, Running, EventsUnread, threadVars, Within

(* The same of the changes, when the run's thread moves. *)
LEMMA ChangeFitsThread ==
  ASSUME TypeInv, ChangeInv, RunThread, NEW i \in 1..Len(changes), NEW k \in Steps,
         ChangeFits(i, k)
  PROVE  ChangeFits(i, k)'
  <1> USE DEF ChangeFits, Running, EventsUnread, ChangesUnread, SnapshotCurrent
  <1>0. /\ Len(changes) \in Nat /\ changes' = changes /\ i \in Nat /\ k \in Nat
        /\ step \in Nat /\ step \in Steps /\ fsBefore \in Nat
        /\ \A h \in Hooks : h \notin Tools /\ h + 1 \notin Tools
        /\ Startup \notin Tools /\ Finish \notin Tools
    BY EventType, ThreadKeepsLogs, StepNumbers
       DEF TypeInv, StepInv, ChangeInv, Tools, Hooks, Startup, Finish
  <1>1. CASE SliceRequests
    <2>1. obs'[step].fs = draft.fs
      BY <1>1, SliceAdds DEF Observation
    <2>2. /\ pc = "slice" /\ pc' = "next" /\ fsBefore' = fsBefore /\ step' = step + 1
          /\ step \in Hooks \cup Tools
      BY <1>1 DEF SliceRequests, TypeInv, StepInv
    <2>3. Within(i, obs'[step].fs) <=> k = step
      BY <2>1, <2>2
    <2>4. \A j \in Observed : Within(i, obs[j].fs) <=> k = j
      OBVIOUS
    <2>5. \A j \in Observed' : Within(i, obs'[j].fs) <=> k = j
      BY <1>1, <2>3, <2>4, SliceAdds
    <2>6. SnapshotCurrent' => step \in Tools
      BY <1>0, <2>2
    <2>7. QED
      BY <1>0, <2>2, <2>5, <2>6
  <1>2. ASSUME obs' = obs
        PROVE  \A j \in Observed' : Within(i, obs'[j].fs) <=> k = j
    BY <1>2 DEF Observed
  <1>3. CASE Snapshot
    <2>1. /\ pc = "snapshot" /\ pc' = "slice" /\ step' = step /\ obs' = obs
          /\ fsBefore' = IF step \in Tools THEN Len(changes) ELSE fsBefore
          /\ draft'.fs.lo = fsBefore /\ draft'.fs.hi = Len(changes)
      BY <1>3 DEF Snapshot, Window, TypeInv, ThreadTypeOK
    <2>2. QED
      BY <1>0, <1>2, <2>1 DEF Within
  <1>4. CASE HookSteps
    BY <1>0, <1>2, <1>4 DEF HookSteps, HookSkipped, HookSpawned, HookExits,
       HookTimesOut, HookReaped, HookFinishes
  <1>5. CASE StartupSteps
    BY <1>0, <1>2, <1>5 DEF StartupSteps, ServerSpawned, ToolsListed,
       BaselineEvents, BaselineSnapshot
  <1>6. CASE ToolSteps
    BY <1>0, <1>2, <1>6 DEF ToolSteps, ToolCalled, ToolRefused, ToolReturns,
       TypeInv, StepInv
  <1>7. CASE WaitedForProxy \/ ReadEvents \/ RunBreaks \/ AllObserved \/ CloseRun
    BY <1>0, <1>2, <1>7 DEF WaitedForProxy, ReadEvents, RunBreaks, AllObserved, CloseRun
  <1>8. QED
    BY ONLY RunThread, <1>1, <1>3, <1>4, <1>5, <1>6, <1>7 DEF RunThread, WindowSteps

(* A new change is past the snapshot, and prompt only while its step runs. *)
LEMMA ChangeFitsNew ==
  ASSUME TypeInv, ChangeInv, NEW cause \in started, ChangeFile(cause), Foreground(cause),
         NEW i, i = Len(changes) + 1
  PROVE  ChangeFits(i, cause[1])'
  <1>1. /\ Len(changes) \in Nat /\ step \in Nat
        /\ fsBefore \in Nat /\ fsBefore <= Len(changes)
        /\ \A j \in Observed : /\ j < step /\ j \in Nat
                               /\ obs[j].fs.hi \in Nat /\ obs[j].fs.hi <= Len(changes)
    BY EventType, StepNumbers DEF TypeInv, StepInv, ChangeInv, Observed
  <1>2. cause[1] = step /\ pc \in {"hook", "startup", "calling"}
    BY DEF Foreground
  <1>3. UNCHANGED threadVars
    BY OthersKeepThread DEF PackageSteps
  <1>4. Observed' = Observed
    BY <1>3 DEF threadVars, Observed
  <1>5. \A j \in Observed : ~Within(i, obs[j].fs) /\ step # j
    BY <1>1 DEF Within
  <1>6. ChangeFits(i, step)
    BY <1>1, <1>2, <1>5 DEF ChangeFits, Running, EventsUnread, ChangesUnread
  <1>7. ChangeFits(i, cause[1])
    BY <1>2, <1>6
  <1>8. QED
    BY <1>3, <1>4, <1>7 DEF ChangeFits, Running, EventsUnread, ChangesUnread,
       SnapshotCurrent, threadVars, Within

(* Nothing moves in the logs' windows unless the run's thread moves. *)
LEMMA FitsKept ==
  ASSUME UNCHANGED threadVars, NEW i, NEW k
  PROVE  /\ EventFits(i, k) => EventFits(i, k)'
         /\ ChangeFits(i, k) => ChangeFits(i, k)'
  <1>1. Observed' = Observed
    BY DEF threadVars, Observed
  <1>2. EventFits(i, k) => EventFits(i, k)'
    BY <1>1 DEF EventFits, Running, EventsUnread, threadVars, Within
  <1>3. ChangeFits(i, k) => ChangeFits(i, k)'
    BY <1>1 DEF ChangeFits, Running, EventsUnread, ChangesUnread, SnapshotCurrent,
       threadVars, Within
  <1>4. QED
    BY <1>2, <1>3

(* Who appends to the two logs, and what. *)
LEMMA EffectsAreAppended ==
  ASSUME [RunNext]_allVars
  PROVE  /\ \/ events' = events
            \/ UNCHANGED threadVars /\ \E cause \in started : EmitEvent(cause)
         /\ \/ changes' = changes
            \/ UNCHANGED threadVars /\ \E cause \in started : ChangeFile(cause)
         /\ RunThread \/ UNCHANGED threadVars
  <1>1. CASE RunThread
    BY <1>1, ThreadKeepsLogs
  <1>2. CASE ProxyThreads \/ UNCHANGED allVars
    BY <1>2, OthersKeepThread DEF ProxyThreads, allVars, runVars
  <1>3. CASE PackageSteps
    BY <1>3, OthersKeepThread DEF PackageSteps, EmitEvent, ChangeFile, SendRequest,
       HookForks, ShellExits, PipeReleased, envVars
  <1>4. QED
    BY <1>1, <1>2, <1>3 DEF RunNext

LEMMA EventsFitStep ==
  ASSUME TypeInv, EventInv, EventsFit, [RunNext]_allVars
  PROVE  EventsFit'
  <1>1. CASE events' = events
    <2> SUFFICES ASSUME NEW i \in 1..Len(events), events[i].prompt
                 PROVE  EventFits(i, events[i].cause[1])'
      BY <1>1, EventType DEF EventsFit
    <2>1. PICK k \in Steps : k = events[i].cause[1] /\ EventFits(i, k)
      BY EventType DEF EventsFit
    <2>2. EventFits(i, k)'
      BY <2>1, EventFitsThread, FitsKept, EffectsAreAppended
    <2>3. QED
      BY <1>1, <2>1, <2>2
  <1>2. ASSUME NEW cause \in started, EmitEvent(cause), UNCHANGED threadVars
        PROVE  EventsFit'
    <2>1. /\ events \in Seq(EffectType) /\ Len(events) \in Nat
          /\ events' = Append(events, [cause |-> cause, prompt |-> Foreground(cause)])
      BY <1>2, EventType DEF EmitEvent, TypeInv, PackageTypeOK
    <2>2. /\ DOMAIN events' = 1..(Len(events) + 1)
          /\ \A i \in 1..Len(events) : events'[i] = events[i]
          /\ events'[Len(events) + 1] = [cause |-> cause, prompt |-> Foreground(cause)]
      BY <2>1
    <2> SUFFICES ASSUME NEW i \in 1..(Len(events) + 1), events'[i].prompt
                 PROVE  EventFits(i, events[i].cause[1])'
      BY <2>2 DEF EventsFit
    <2>3. CASE i \in 1..Len(events)
      <3>1. PICK k \in Steps : k = events[i].cause[1] /\ EventFits(i, k)
        BY <2>2, <2>3, EventType DEF EventsFit
      <3>2. EventFits(i, k)'
        BY <1>2, <3>1, FitsKept
      <3>3. QED
        BY <2>2, <2>3, <3>1, <3>2
    <2>4. CASE i = Len(events) + 1
      <3>1. Foreground(cause) /\ events'[i].cause[1] = cause[1]
        BY <2>2, <2>4
      <3>2. EventFits(i, cause[1])'
        BY <1>2, <2>4, <3>1, EventFitsNew
      <3>3. QED
        BY <3>1, <3>2
    <2>5. QED
      BY <2>1, <2>3, <2>4
  <1>3. QED
    BY <1>1, <1>2, EffectsAreAppended

LEMMA ChangesFitStep ==
  ASSUME TypeInv, ChangeInv, ChangesFit, [RunNext]_allVars
  PROVE  ChangesFit'
  <1>1. CASE changes' = changes
    <2> SUFFICES ASSUME NEW i \in 1..Len(changes), changes[i].prompt
                 PROVE  ChangeFits(i, changes[i].cause[1])'
      BY <1>1, EventType DEF ChangesFit
    <2>1. PICK k \in Steps : k = changes[i].cause[1] /\ ChangeFits(i, k)
      BY EventType DEF ChangesFit
    <2>2. ChangeFits(i, k)'
      BY <2>1, ChangeFitsThread, FitsKept, EffectsAreAppended
    <2>3. QED
      BY <1>1, <2>1, <2>2
  <1>2. ASSUME NEW cause \in started, ChangeFile(cause), UNCHANGED threadVars
        PROVE  ChangesFit'
    <2>1. /\ changes \in Seq(EffectType) /\ Len(changes) \in Nat
          /\ changes' = Append(changes, [cause |-> cause, prompt |-> Foreground(cause)])
      BY <1>2, EventType DEF ChangeFile, TypeInv, PackageTypeOK
    <2>2. /\ DOMAIN changes' = 1..(Len(changes) + 1)
          /\ \A i \in 1..Len(changes) : changes'[i] = changes[i]
          /\ changes'[Len(changes) + 1] = [cause |-> cause, prompt |-> Foreground(cause)]
      BY <2>1
    <2> SUFFICES ASSUME NEW i \in 1..(Len(changes) + 1), changes'[i].prompt
                 PROVE  ChangeFits(i, changes[i].cause[1])'
      BY <2>2 DEF ChangesFit
    <2>3. CASE i \in 1..Len(changes)
      <3>1. PICK k \in Steps : k = changes[i].cause[1] /\ ChangeFits(i, k)
        BY <2>2, <2>3, EventType DEF ChangesFit
      <3>2. ChangeFits(i, k)'
        BY <1>2, <3>1, FitsKept
      <3>3. QED
        BY <2>2, <2>3, <3>1, <3>2
    <2>4. CASE i = Len(changes) + 1
      <3>1. Foreground(cause) /\ changes'[i].cause[1] = cause[1]
        BY <2>2, <2>4
      <3>2. ChangeFits(i, cause[1])'
        BY <1>2, <2>4, <3>1, ChangeFitsNew
      <3>3. QED
        BY <3>1, <3>2
    <2>5. QED
      BY <2>1, <2>3, <2>4
  <1>3. QED
    BY <1>1, <1>2, EffectsAreAppended

-----------------------------------------------------------------------------
(* Requests: who asked, and when what had begun began. *)

(* A cause begins at the step the run's thread is at, after the log was    *)
(* marked for it.                                                          *)
LEMMA StartedStep ==
  ASSUME TypeInv, StartedInv, [RunNext]_allVars
  PROVE  StartedInv'
  <1> USE DEF StartedInv
  <1>0. /\ step \in Nat
        /\ \A cause \in started : cause \in Causes /\ cause[1] \in Nat
        /\ \A h \in Steps, a \in {1, 2} : <<h, a>>[1] = h
    BY StepNumbers DEF TypeInv, ThreadTypeOK, StepInv, Causes
  <1>1. CASE UNCHANGED threadVars
    BY <1>1 DEF threadVars
  <1>2. CASE HookSteps
    BY <1>0, <1>2 DEF HookSteps, HookSkipped, HookSpawned, HookExits, HookTimesOut,
       HookReaped, HookFinishes
  <1>3. CASE StartupSteps
    BY <1>0, <1>3 DEF StartupSteps, ServerSpawned, ToolsListed, BaselineEvents,
       BaselineSnapshot
  <1>4. CASE ToolSteps
    BY <1>0, <1>4 DEF ToolSteps, ToolCalled, ToolRefused, ToolReturns
  <1>5. CASE WindowSteps
    BY <1>0, <1>5 DEF WindowSteps, WaitedForProxy, ReadEvents, Snapshot, SliceRequests
  <1>6. CASE RunBreaks \/ AllObserved \/ CloseRun
    BY <1>0, <1>6 DEF RunBreaks, AllObserved, CloseRun
  <1>7. QED
    BY ONLY [RunNext]_allVars, EffectsAreAppended, <1>1, <1>2, <1>3, <1>4, <1>5, <1>6
       DEF RunThread

(* What a step has put behind it is reported, or a later hook of its key    *)
(* is: an observation goes only when one of the same key comes, and that is *)
(* the key of those whose place the lost one had taken.                     *)
ReportedInv == \A k \in Steps : Behind(k) => Reported(k)

LEMMA SliceReports ==
  ASSUME TypeInv, ReportedInv, SliceRequests
  PROVE  ReportedInv'
  <1>1. Observed' = {k \in Observed : ~SameKey(k, step)} \cup {step}
    BY ObservedGrows DEF TypeInv
  <1>2. step' = step + 1 /\ started' = started /\ step \in Nat /\ Steps \subseteq Nat
    BY StepNumbers DEF SliceRequests, TypeInv, StepInv
  <1>3. ASSUME NEW k \in Steps, Behind(k)'
        PROVE  Reported(k)'
    <2>1. CASE k = step
      BY <1>1, <2>1 DEF Reported
    <2>2. CASE k # step
      <3>1. k < step /\ Reported(k)
        BY <1>2, <1>3, <2>2 DEF Behind, ReportedInv
      <3>2. CASE SameKey(step, k)
        BY <1>1, <3>1, <3>2 DEF Reported
      <3>3. CASE ~SameKey(step, k)
        <4>1. \A j \in Observed : j = k \/ SameKey(j, k) => j \in Observed'
          BY <1>1, <3>3 DEF SameKey
        <4>2. QED
          BY <3>1, <4>1 DEF Reported
      <3>4. QED
        BY <3>2, <3>3
    <2>3. QED
      BY <2>1, <2>2
  <1>4. QED
    BY <1>3 DEF ReportedInv

LEMMA ReportedStep ==
  ASSUME TypeInv, StartedInv, ReportedInv, [RunNext]_allVars
  PROVE  ReportedInv'
  <1>1. ASSUME obs' = obs, \A k \in Steps : Behind(k)' => Behind(k)
        PROVE  ReportedInv'
    BY <1>1 DEF ReportedInv, Reported, Observed
  <1>2. /\ step \in Nat /\ Steps \subseteq Nat
        /\ pc = "next" => <<step, 1>> \notin started
        /\ Startup \notin Hooks \cup Tools
    BY StepNumbers DEF TypeInv, StepInv, StartedInv, Hooks, Startup, Tools
  <1>3. CASE UNCHANGED threadVars
    BY <1>1, <1>3 DEF threadVars, Behind
  <1>4. CASE HookSteps
    BY <1>1, <1>2, <1>4 DEF HookSteps, HookSkipped, HookSpawned, HookExits,
       HookTimesOut, HookReaped, HookFinishes, Behind
  <1>5. CASE StartupSteps
    BY <1>1, <1>2, <1>5 DEF StartupSteps, ServerSpawned, ToolsListed, BaselineEvents,
       BaselineSnapshot, Behind, TypeInv, StepInv
  <1>6. CASE ToolSteps
    BY <1>1, <1>2, <1>6 DEF ToolSteps, ToolCalled, ToolRefused, ToolReturns, Behind
  <1>7. CASE WaitedForProxy \/ ReadEvents \/ Snapshot
    BY <1>1, <1>7 DEF WaitedForProxy, ReadEvents, Snapshot, Behind
  <1>8. CASE RunBreaks \/ AllObserved \/ CloseRun
    BY <1>1, <1>8 DEF RunBreaks, AllObserved, CloseRun, Behind
  <1>9. QED
    BY ONLY TypeInv, ReportedInv, [RunNext]_allVars, EffectsAreAppended, SliceReports,
       <1>3, <1>4, <1>5, <1>6, <1>7, <1>8
       DEF RunThread, WindowSteps

(* What a hook, the startup or a tool call wrote to the run directory or   *)
(* did under the shim while it was being waited for is reported for it and *)
(* for nothing else, except that a hook whose key a later hook shares is   *)
(* replaced by that one (observe.py:307) and then reported for nobody.     *)
THEOREM PromptEffectsAreExact == RunSpec => []PromptEffectsExact
  <1>1. RunInit => EventsFit /\ ChangesFit /\ StartedInv /\ ReportedInv
    BY DEF RunInit, EventsFit, ChangesFit, StartedInv, ReportedInv, Behind
  <1>2. TypeInv /\ MarkInv /\ EventsFit /\ ChangesFit /\ [RunNext]_allVars
          => (EventsFit /\ ChangesFit)'
    BY EventsFitStep, ChangesFitStep DEF MarkInv
  <1>3. TypeInv /\ StartedInv /\ ReportedInv /\ [RunNext]_allVars
          => (StartedInv /\ ReportedInv)'
    BY StartedStep, ReportedStep
  <1>4. EventsFit /\ ChangesFit /\ ReportedInv => PromptEffectsExact
    <2>1. ASSUME EventsFit, ChangesFit, NEW k \in Observed
          PROVE  /\ \A i \in DOMAIN events : events[i].prompt =>
                       (Within(i, obs[k].ev) <=> events[i].cause[1] = k)
                 /\ \A i \in DOMAIN changes : changes[i].prompt =>
                       (Within(i, obs[k].fs) <=> changes[i].cause[1] = k)
      BY <2>1 DEF EventsFit, EventFits, ChangesFit, ChangeFits
    <2>2. QED
      BY <2>1 DEF PromptEffectsExact, ReportedInv
  <1>5. QED
    BY <1>1, <1>2, <1>3, <1>4, TypeInvariant, MarkInvInit, MarkInvStep, PTL DEF RunSpec

(* What has begun stays begun. *)
LEMMA StartedGrows ==
  ASSUME [RunNext]_allVars
  PROVE  started \subseteq started'
  <1>1. CASE UNCHANGED threadVars
    BY <1>1 DEF threadVars
  <1>2. CASE RunThread
    BY <1>2 DEF RunThread, HookSteps, HookSkipped, HookSpawned, HookExits,
       HookTimesOut, HookReaped, HookFinishes, StartupSteps, ServerSpawned,
       ToolsListed, BaselineEvents, BaselineSnapshot, ToolSteps, ToolCalled,
       ToolRefused, ToolReturns, WindowSteps, WaitedForProxy, ReadEvents,
       Snapshot, SliceRequests, RunBreaks, AllObserved, CloseRun
  <1>3. QED
    BY <1>1, <1>2, EffectsAreAppended

(* How the request log and its readers change: the run's thread leaves all *)
(* of it alone, a package opens, and the proxy's threads record or answer. *)
LEMMA ProxySteps ==
  ASSUME [RunNext]_allVars
  PROVE  \/ RunThread /\ UNCHANGED <<phase, requests, answered, by, awaited>>
         \/ UNCHANGED <<threadVars, phase, requests, answered, by, awaited>>
         \/ /\ \E c \in Conns : SendRequest(c)
            /\ UNCHANGED <<threadVars, requests, answered, awaited>>
         \/ /\ ProxyThreads
            /\ UNCHANGED <<threadVars, by>>
  <1>1. CASE RunThread
    <2>1. UNCHANGED <<phase, answered>>
      BY <1>1 DEF RunThread, HookSteps, HookSkipped, HookSpawned, HookExits,
       HookTimesOut, HookReaped, HookFinishes, StartupSteps, ServerSpawned,
       ToolsListed, BaselineEvents, BaselineSnapshot, ToolSteps, ToolCalled,
       ToolRefused, ToolReturns, WindowSteps, WaitedForProxy, ReadEvents,
       Snapshot, SliceRequests, RunBreaks, AllObserved, CloseRun, Close,
       WaitStart, WaitReturned, proxyVars
    <2>2. QED
      BY <1>1, <2>1, ThreadKeepsLogs
  <1>2. CASE ProxyThreads
    BY <1>2, OthersKeepThread DEF ProxyThreads
  <1>3. CASE UNCHANGED allVars
    BY <1>3, OthersKeepThread DEF allVars, runVars, proxyVars
  <1>4. CASE PackageSteps
    BY <1>4, OthersKeepThread DEF PackageSteps, EmitEvent, ChangeFile, SendRequest,
       HookForks, ShellExits, PipeReleased, envVars, proxyVars, Open
  <1>5. QED
    BY <1>1, <1>2, <1>3, <1>4 DEF RunNext

(* The proxy's threads record one request, answer one that is recorded, or *)
(* do neither; they open no connection.                                    *)
LEMMA ThreadsRecordOrAnswer ==
  ASSUME TypeInv, LogInv, ProxyThreads
  PROVE  /\ \/ requests' = requests
            \/ \E c \in Conns : /\ requests' = Append(requests, c)
                                /\ phase[c] \in {"parsing", "tunnel"}
                                /\ c \notin answered /\ answered' = answered
         /\ answered \subseteq answered'
         /\ \A c \in Conns : phase'[c] # "unopened" => phase[c] # "unopened"
  <1>1. phase \in [Conns -> Phases]
    BY DEF TypeInv, ProxyTypeOK
  <1>2. ASSUME NEW c \in Conns, Record(c)
        PROVE  /\ phase[c] \in {"parsing", "tunnel"} /\ requests' = Append(requests, c)
               /\ c \notin answered /\ answered' = answered
               /\ \A d \in Conns : phase'[d] # "unopened" => phase[d] # "unopened"
    BY <1>1, <1>2 DEF Record, Move, LogInv
  <1>3. ASSUME NEW c \in Conns,
               Accept(c) \/ Reset(c) \/ Count(c) \/ Tunnel(c) \/ Respond(c)
                 \/ Abandon(c) \/ Leave(c)
        PROVE  /\ requests' = requests /\ answered \subseteq answered'
               /\ \A d \in Conns : phase'[d] # "unopened" => phase[d] # "unopened"
    BY <1>1, <1>3 DEF Accept, Reset, Count, Tunnel, Respond, Abandon, Leave, Move
  <1>4. ASSUME TestStop \/ AcceptFails \/ PollStep
        PROVE  UNCHANGED <<requests, answered, phase>>
    BY <1>4 DEF TestStop, AcceptFails, PollStep, PollBusy, PollSettling, PollSettled,
       WaitExpire
  <1>5. QED
    BY <1>2, <1>3, <1>4 DEF ProxyThreads, AcceptorStep, HandlerStep

LEMMA CauseStep ==
  ASSUME TypeInv, LogInv, CauseInv, [RunNext]_allVars
  PROVE  CauseInv'
  <1> USE DEF CauseInv
  <1>1. started \subseteq started'
    BY StartedGrows
  <1>2. CASE UNCHANGED <<phase, answered, by, awaited>>
    BY <1>1, <1>2
  <1>3. ASSUME NEW c \in Conns, SendRequest(c), UNCHANGED <<answered, awaited>>
        PROVE  CauseInv'
    <2>1. PICK cause \in started : by' = [by EXCEPT ![c] = cause]
      BY <1>3 DEF SendRequest
    <2>2. phase' = [phase EXCEPT ![c] = "queued"]
      BY <1>3 DEF SendRequest, Open, Move
    <2>3. QED
      BY <1>1, <1>3, <2>1, <2>2 DEF TypeInv, ProxyTypeOK, PackageTypeOK
  <1>4. CASE ProxyThreads /\ UNCHANGED by
    <2>1. awaited' \subseteq answered'
      BY <1>4, ThreadsRecordOrAnswer DEF ProxyThreads
    <2>2. QED
      BY <1>1, <1>4, <2>1, ThreadsRecordOrAnswer
  <1>5. QED
    BY <1>2, <1>3, <1>4, ProxySteps

(* Every recorded request has a position, an opener and a cause. *)
LEMMA RequestType ==
  ASSUME TypeInv, LogInv, CauseInv, StartedInv
  PROVE  /\ Len(requests) \in Nat /\ DOMAIN requests = 1..Len(requests)
         /\ \A p \in DOMAIN requests :
              LET c == requests[p]
              IN  /\ c \in Conns /\ phase[c] # "unopened" /\ by[c] \in started
                  /\ by[c] \in Causes /\ by[c][1] \in Nat /\ by[c][1] <= step
  <1>1. requests \in Seq(Conns)
    BY DEF TypeInv, ProxyTypeOK
  <1>2. Len(requests) \in Nat /\ DOMAIN requests = 1..Len(requests)
    BY <1>1
  <1>3. ASSUME NEW p \in DOMAIN requests, NEW c, c = requests[p]
        PROVE  /\ c \in Conns /\ phase[c] # "unopened" /\ by[c] \in started
               /\ by[c] \in Causes /\ by[c][1] \in Nat /\ by[c][1] <= step
    <2>1. c \in Conns
      BY <1>1, <1>3
    <2>2. c \in Recorded
      BY <1>3, Zenon DEF Recorded
    <2>3. phase[c] # "unopened" /\ by[c] \in started
      BY <2>1, <2>2 DEF LogInv, CauseInv
    <2>4. \A cause \in started : cause \in Causes /\ cause[1] \in Nat /\ cause[1] <= step
      BY StepNumbers DEF TypeInv, ThreadTypeOK, Causes, StartedInv
    <2>5. QED
      BY <2>1, <2>3, <2>4
  <1>4. QED
    BY <1>2, <1>3

(* The run's thread: a mark is taken before anything it is for has begun,  *)
(* and a window is cut while the mark still holds.                         *)
LEMMA RequestFitsThread ==
  ASSUME TypeInv, RequestInv, StartedInv, RunThread,
         NEW p \in 1..Len(requests), NEW c \in Conns, by[c] \in started,
         RequestFits(p, c)
  PROVE  RequestFits(p, c)'
  <1> USE DEF RequestFits, Marked
  <1>0. /\ Len(requests) \in Nat /\ p \in Nat /\ p <= Len(requests)
        /\ UNCHANGED <<requests, by, awaited>>
        /\ step \in Nat /\ before \in Nat
        /\ by[c][1] \in Nat /\ by[c][1] <= step
        /\ pc = "next" => by[c][1] < step
        /\ by[c] = <<step, 2>> => attempt = 2
        /\ \A k, a : by[c] = <<k, a>> => by[c][1] = k
    <2>1. /\ Len(requests) \in Nat /\ UNCHANGED <<requests, by, awaited>>
          /\ step \in Nat /\ before \in Nat
      BY LengthsAreNat, ThreadKeepsLogs, StepNumbers DEF TypeInv, StepInv, RequestInv
    <2>2. /\ by[c][1] <= step
          /\ pc = "next" => by[c][1] < step
          /\ by[c] = <<step, 2>> => attempt = 2
      BY DEF StartedInv
    <2>3. by[c] \in Steps \X {1, 2}
      BY DEF TypeInv, ThreadTypeOK, Causes
    <2>4. by[c][1] \in Nat
      BY <2>3, StepNumbers
    <2>5. QED
      BY <2>1, <2>2, <2>4
  <1>1. CASE SliceRequests
    <2>1. /\ obs'[step].req.lo = before /\ obs'[step].req.hi = Len(requests)
          /\ obs'[step].attempt = attempt
      BY <1>1, SliceAdds DEF Observation, Window
    <2>2. pc = "slice" /\ pc' = "next"
      BY <1>1 DEF SliceRequests
    <2>3. c \in awaited =>
            (Within(p, obs'[step].req) <=> by[c] = <<step, obs'[step].attempt>>)
      BY <1>0, <2>1, <2>2 DEF Within
    <2>4. \A k \in Observed' : k = step \/ (k \in Observed /\ obs'[k] = obs[k])
      BY <1>1, SliceAdds
    <2>5. \A k \in Observed' : k < by[c][1] => obs'[k].req.hi < p
      BY <1>0, <2>4
    <2>6. c \in awaited =>
            \A k \in Observed' : Within(p, obs'[k].req) <=> by[c] = <<k, obs'[k].attempt>>
      BY <2>3, <2>4
    <2>7. QED
      BY <1>0, <2>2, <2>5, <2>6 DEF Within
  <1>2. ASSUME obs' = obs,
               \/ before' = Len(requests) /\ by[c] # <<step', attempt'>>
               \/ /\ before' = before
                  /\ Marked' => Marked /\ step' = step /\ attempt' = attempt
        PROVE  RequestFits(p, c)'
    <2>1. Observed' = Observed
      BY <1>2 DEF Observed
    <2>2. \A k \in Observed' : k < by'[c][1] => obs'[k].req.hi < p
      BY <1>0, <1>2, <2>1
    <2>3. Marked' /\ by'[c] = <<step', attempt'>> => before' < p
      BY <1>0, <1>2
    <2>4. c \in awaited' /\ Marked' /\ by'[c] # <<step', attempt'>> => p <= before'
      BY <1>0, <1>2
    <2>5. c \in awaited' =>
            \A k \in Observed' : Within(p, obs'[k].req) <=> by'[c] = <<k, obs'[k].attempt>>
      BY <1>0, <1>2, <2>1
    <2>6. QED
      BY <2>2, <2>3, <2>4, <2>5 DEF Within
  <1>3. CASE HookSteps
    BY <1>0, <1>2, <1>3 DEF HookSteps, HookSkipped, HookSpawned, HookExits,
       HookTimesOut, HookReaped, HookFinishes
  <1>4. CASE StartupSteps
    BY <1>0, <1>2, <1>4 DEF StartupSteps, ServerSpawned, ToolsListed,
       BaselineEvents, BaselineSnapshot
  <1>5. CASE ToolSteps
    BY <1>0, <1>2, <1>5 DEF ToolSteps, ToolCalled, ToolRefused, ToolReturns
  <1>6. CASE WaitedForProxy \/ ReadEvents \/ Snapshot
    BY <1>0, <1>2, <1>6 DEF WaitedForProxy, ReadEvents, Snapshot
  <1>7. CASE RunBreaks \/ AllObserved \/ CloseRun
    BY <1>0, <1>2, <1>7 DEF RunBreaks, AllObserved, CloseRun
  <1>8. QED
    BY ONLY RunThread, <1>1, <1>3, <1>4, <1>5, <1>6, <1>7 DEF RunThread, WindowSteps

(* The others: a request stands where it stood, and one whose answer comes *)
(* to be awaited now is past the windows of all earlier steps.             *)
LEMMA RequestFitsOthers ==
  ASSUME TypeInv, RequestInv, UNCHANGED threadVars, NEW p \in Nat, NEW c \in Conns,
         by'[c] = by[c], RequestFits(p, c),
         c \in awaited' => c \in awaited \/ Foreground(by[c])
  PROVE  RequestFits(p, c)'
  <1>1. Observed' = Observed
    BY DEF threadVars, Observed
  <1>2. CASE c \in awaited' => c \in awaited
    BY <1>1, <1>2 DEF RequestFits, Marked, threadVars, Within
  <1>3. CASE Foreground(by[c])
    <2>1. by[c] = <<step, attempt>> /\ by[c][1] = step
      BY <1>3 DEF Foreground
    <2>2. \A k \in Observed : /\ k < step /\ k \in Nat /\ step \in Nat
                              /\ obs[k].req.hi \in Nat /\ obs[k].req.hi < p
      BY <2>1, StepNumbers DEF TypeInv, StepInv, RequestInv, RequestFits, Observed
    <2>3. \A k \in Observed : /\ ~Within(p, obs[k].req)
                              /\ by[c] # <<k, obs[k].attempt>>
      BY <2>1, <2>2 DEF Within
    <2>4. QED
      BY <1>1, <2>1, <2>3 DEF RequestFits, Marked, threadVars, Within
  <1>4. QED
    BY <1>2, <1>3

(* A request just recorded is past everything, and not answered yet. *)
LEMMA RequestFitsNew ==
  ASSUME TypeInv, RequestInv, UNCHANGED threadVars, NEW c \in Conns, c \notin awaited',
         NEW p, p = Len(requests) + 1
  PROVE  RequestFits(p, c)'
  <1>1. Observed' = Observed
    BY DEF threadVars, Observed
  <1>2. /\ Len(requests) \in Nat /\ before \in Nat /\ before < p
        /\ \A k \in Observed : obs[k].req.hi \in Nat /\ obs[k].req.hi < p
    BY LengthsAreNat DEF TypeInv, RequestInv
  <1>3. QED
    BY <1>1, <1>2 DEF RequestFits, Marked, threadVars

LEMMA RequestsFitStep ==
  ASSUME TypeInv, LogInv, RequestInv, StartedInv, CauseInv, RequestsFit, [RunNext]_allVars
  PROVE  RequestsFit'
  <1> USE RequestType DEF RequestsFit
  <1>1. CASE RunThread /\ UNCHANGED <<requests, by>>
    <2> SUFFICES ASSUME NEW p \in 1..Len(requests)
                 PROVE  RequestFits(p, requests[p])'
      BY <1>1
    <2>1. PICK c \in Conns : c = requests[p] /\ by[c] \in started /\ RequestFits(p, c)
      OBVIOUS
    <2>2. RequestFits(p, c)'
      BY <1>1, <2>1, RequestFitsThread
    <2>3. QED
      BY <1>1, <2>1, <2>2
  <1>2. ASSUME UNCHANGED threadVars, requests' = requests,
               \A c \in Conns : phase[c] # "unopened" => by'[c] = by[c],
               \A c \in Conns : c \in awaited' => c \in awaited \/ Foreground(by[c])
        PROVE  RequestsFit'
    <2> SUFFICES ASSUME NEW p \in 1..Len(requests)
                 PROVE  RequestFits(p, requests[p])'
      BY <1>2
    <2>1. PICK c \in Conns : c = requests[p] /\ phase[c] # "unopened" /\ RequestFits(p, c)
      OBVIOUS
    <2>2. RequestFits(p, c)'
      BY <1>2, <2>1, RequestFitsOthers
    <2>3. QED
      BY <1>2, <2>1, <2>2
  <1>3. ASSUME UNCHANGED <<threadVars, by>>, NEW d \in Conns,
               requests' = Append(requests, d), d \notin awaited',
               \A c \in Conns : c \in awaited' => c \in awaited \/ Foreground(by[c])
        PROVE  RequestsFit'
    <2>1. requests \in Seq(Conns)
      BY DEF TypeInv, ProxyTypeOK
    <2>2. /\ DOMAIN requests' = 1..(Len(requests) + 1)
          /\ \A p \in 1..Len(requests) : requests'[p] = requests[p]
          /\ requests'[Len(requests) + 1] = d
      BY ONLY <1>3, <2>1
    <2> SUFFICES ASSUME NEW p \in 1..(Len(requests) + 1)
                 PROVE  RequestFits(p, requests[p])'
      BY <2>2
    <2>3. CASE p \in 1..Len(requests)
      <3>1. PICK c \in Conns : c = requests'[p] /\ RequestFits(p, c)
        BY <2>2, <2>3
      <3>2. RequestFits(p, c)'
        BY <1>3, <2>3, <3>1, RequestFitsOthers
      <3>3. QED
        BY <3>1, <3>2
    <2>4. CASE p = Len(requests) + 1
      <3>1. RequestFits(p, d)'
        BY <1>3, <2>4, RequestFitsNew
      <3>2. QED
        BY <2>2, <2>4, <3>1
    <2>5. QED
      BY <2>3, <2>4
  <1>4. ASSUME NEW c \in Conns, SendRequest(c), UNCHANGED <<threadVars, requests, awaited>>
        PROVE  RequestsFit'
    <2>1. \A d \in Conns : phase[d] # "unopened" => by'[d] = by[d]
      BY <1>4 DEF SendRequest, Open, Move, TypeInv, PackageTypeOK
    <2>2. QED
      BY <1>2, <1>4, <2>1
  <1>5. CASE ProxyThreads /\ UNCHANGED <<threadVars, by>>
    <2>1. awaited' = awaited \cup {c \in answered' \ answered : Foreground(by[c])}
      BY <1>5 DEF ProxyThreads
    <2>2. \A c \in Conns : c \in awaited' => c \in awaited \/ Foreground(by[c])
      BY <2>1
    <2>3. CASE requests' = requests
      BY <1>2, <1>5, <2>2, <2>3
    <2>4. ASSUME NEW c \in Conns, requests' = Append(requests, c),
                 c \notin answered, answered' = answered
          PROVE  RequestsFit'
      <3>1. c \notin awaited'
        BY <2>1, <2>4 DEF CauseInv
      <3>2. QED
        BY <1>3, <1>5, <2>2, <2>4, <3>1
    <2>5. QED
      BY <1>5, <2>3, <2>4, ThreadsRecordOrAnswer
  <1>6. CASE UNCHANGED <<threadVars, phase, requests, answered, by, awaited>>
    BY <1>2, <1>6
  <1>7. QED
    BY <1>1, <1>4, <1>5, <1>6, ProxySteps

(* A request whose answer an activity was still waiting for is reported    *)
(* for exactly that activity, and of a tool called twice for its retry     *)
(* only, however many handlers, retries and background requests there are. *)
THEOREM AwaitedRequestsAreExact == RunSpec => []AwaitedRequestsExact
  <1> DEFINE Inv == StartedInv /\ CauseInv /\ RequestsFit
  <1>1. RunInit => Inv
    BY DEF RunInit, ProxyInit, StartedInv, CauseInv, RequestsFit
  <1>2. TypeInv /\ MarkInv /\ LogInv /\ Inv /\ [RunNext]_allVars => Inv'
    BY StartedStep, CauseStep, RequestsFitStep DEF MarkInv
  <1>3. Inv => AwaitedRequestsExact
    <2> SUFFICES ASSUME RequestsFit, NEW k \in Observed, NEW p \in DOMAIN requests,
                        requests[p] \in awaited
                 PROVE  Within(p, obs[k].req) <=> by[requests[p]] = <<k, obs[k].attempt>>
      BY DEF AwaitedRequestsExact
    <2>1. QED
      BY DEF RequestsFit, RequestFits
  <1>4. RunSpec => []LogInv
    BY RunUsesProxy, LogInvariant, PTL
  <1> HIDE DEF Inv
  <1>5. QED
    BY <1>1, <1>2, <1>3, <1>4, TypeInvariant, MarkInvInit, MarkInvStep, PTL DEF RunSpec
=============================================================================
