--------------------------- MODULE RunObservation ---------------------------
(***************************************************************************)
(* One confined run of a package version: observe.py, `_single_run` and    *)
(* `_run_install_scripts`, composed with the proxy of SealedProxy, the     *)
(* shim's event log and the run directory.                                 *)
(*                                                                         *)
(* The run's thread goes through numbered steps: the install hooks, then   *)
(* the server's startup, then the declared tools.  For each hook and tool  *)
(* it cuts a window out of three logs that only grow: the requests, the    *)
(* shim's events and the changes made to the run directory.  Whatever lies *)
(* in the window is reported as that activity's doing.  The package's      *)
(* processes meanwhile append to the logs whenever they like.              *)
(*                                                                         *)
(* Data is abstracted to its cause: a request, an event or a change is the *)
(* <<step, attempt>> on whose behalf the package made it.  A snapshot of   *)
(* the directory is the number of changes it reflects, and is atomic.      *)
(***************************************************************************)
EXTENDS SealedProxy

CONSTANTS
  NHooks,               \* lifecycle scripts found by enumerate_install_scripts
  NTools,               \* tools the server declares
  KeyOf,                \* InstallScript.key of each hook, as one hook that has it
  MaxEffects            \* bound: events and directory changes together

ASSUME RunBounds == NHooks \in Nat /\ NTools \in Nat /\ MaxEffects \in Nat

Hooks == 1..NHooks

ASSUME KeyAssumption == KeyOf \in [Hooks -> Hooks]

(* Two copies of one package in the tree have hooks of one key. *)
SameKey(j, k) == j \in Hooks /\ k \in Hooks /\ KeyOf[j] = KeyOf[k]

Startup == NHooks + 1
Tools == (Startup + 1)..(Startup + NTools)
Finish == Startup + NTools + 1
Steps == 1..Finish
Causes == Steps \X {1, 2}

VARIABLES
  pc,                   \* where the run's thread is
  step,                 \* the hook, the startup or the tool it is at
  attempt,              \* 2 in the required-only retry of a tool call
  before,               \* before_requests / before
  cursor,               \* event_cursor
  fsBefore,             \* fs_before
  draft,                \* what has been read so far for the current step
  obs,                  \* observations / per_tool, by the step that made them
  shAlive,              \* the current hook's /bin/sh is running
  pipeHeld,             \* a descendant of it keeps its stdout open
  by,                   \* the cause of each opened connection
  events,               \* the shim's log
  changes,              \* the run directory's history
  started,              \* history: causes that have begun
  awaited               \* history: requests answered while their cause ran

runVars == <<pc, step, attempt, before, cursor, fsBefore, draft, obs,
             shAlive, pipeHeld, by, events, changes, started, awaited>>
allVars == <<proxyVars, runVars>>
envVars == <<by, events, changes, awaited>>

NotYet == [missing |-> TRUE]
NoCause == <<0, 0>>

Window(lo, hi) == [lo |-> lo, hi |-> hi]
EmptyWindow == Window(0, 0)
NoDraft ==
  [ev |-> EmptyWindow, fs |-> EmptyWindow, error |-> FALSE]
Within(i, w) == w.lo < i /\ i <= w.hi

Observed == {k \in Steps : obs[k] # NotYet}

(* The cause the run's thread is blocked on, if it is blocked on one. *)
Foreground(cause) ==
  /\ pc \in {"hook", "startup", "calling"}
  /\ cause = <<step, attempt>>

RunInit ==
  /\ ProxyInit
  /\ pc = "next"
  /\ step = 1
  /\ attempt = 1
  /\ before = 0
  /\ cursor = 0
  /\ fsBefore = 0
  /\ draft = NoDraft
  /\ obs = [k \in Steps |-> NotYet]
  /\ shAlive = FALSE
  /\ pipeHeld = FALSE
  /\ by = [c \in Conns |-> NoCause]
  /\ events = <<>>
  /\ changes = <<>>
  /\ started = {}
  /\ awaited = {}

-----------------------------------------------------------------------------
(* The package's processes.  Anything that has begun may act, now or later: *)
(* what a hook or a call leaves running in the background is not awaited.   *)

SendRequest(c) ==
  /\ Open(c)
  /\ \E cause \in started : by' = [by EXCEPT ![c] = cause]
  /\ UNCHANGED <<pc, step, attempt, before, cursor, fsBefore, draft, obs,
                 shAlive, pipeHeld, events, changes, started, awaited>>

(* shim.cjs appends the line before the operation it reports goes ahead. *)
EmitEvent(cause) ==
  /\ Len(events) + Len(changes) < MaxEffects
  /\ events' = Append(events, [cause |-> cause, prompt |-> Foreground(cause)])
  /\ UNCHANGED <<proxyVars, pc, step, attempt, before, cursor, fsBefore, draft,
                 obs, shAlive, pipeHeld, by, changes, started, awaited>>

ChangeFile(cause) ==
  /\ Len(events) + Len(changes) < MaxEffects
  /\ changes' = Append(changes, [cause |-> cause, prompt |-> Foreground(cause)])
  /\ UNCHANGED <<proxyVars, pc, step, attempt, before, cursor, fsBefore, draft,
                 obs, shAlive, pipeHeld, by, events, started, awaited>>

(* The hook's shell starts a background process that inherits its pipes. *)
HookForks ==
  /\ shAlive /\ ~pipeHeld
  /\ pipeHeld' = TRUE
  /\ UNCHANGED <<proxyVars, pc, step, attempt, before, cursor, fsBefore, draft,
                 obs, shAlive, envVars, started>>

ShellExits ==
  /\ shAlive
  /\ shAlive' = FALSE
  /\ UNCHANGED <<proxyVars, pc, step, attempt, before, cursor, fsBefore, draft,
                 obs, pipeHeld, envVars, started>>

PipeReleased ==
  /\ pipeHeld
  /\ pipeHeld' = FALSE
  /\ UNCHANGED <<proxyVars, pc, step, attempt, before, cursor, fsBefore, draft,
                 obs, shAlive, envVars, started>>

-----------------------------------------------------------------------------
(* _run_install_scripts *)

(* Not the code: skipping without asking whether a hook is left. *)
SkipAnything ==
  /\ pc = "next"
  /\ step' = step + 1
  /\ UNCHANGED <<proxyVars, pc, attempt, before, cursor, fsBefore, draft, obs,
                 shAlive, pipeHeld, envVars, started>>

(* The hook's directory does not exist. *)
HookSkipped ==
  /\ pc = "next"
  /\ step \in Hooks
  /\ step' = step + 1
  /\ UNCHANGED <<proxyVars, pc, attempt, before, cursor, fsBefore, draft, obs,
                 shAlive, pipeHeld, envVars, started>>

(* Mark the request log, snapshot the directory, spawn the shell.  Each of *)
(* the marks concerns one log only, so nothing is lost by taking them and  *)
(* the spawn in one step.                                                  *)
HookSpawned ==
  /\ pc = "next"
  /\ step \in Hooks
  /\ before' = Len(requests)
  /\ fsBefore' = Len(changes)
  /\ shAlive' = TRUE
  /\ started' = started \cup {<<step, 1>>}
  /\ pc' = "hook"
  /\ UNCHANGED <<proxyVars, step, attempt, cursor, draft, obs, pipeHeld, envVars>>

(* communicate() returns once the shell is gone and its pipes are closed. *)
HookFinishes(error) ==
  /\ ~shAlive /\ ~pipeHeld
  /\ draft' = [draft EXCEPT !.error = error]
  /\ WaitStart
  /\ pc' = "waiting"
  /\ UNCHANGED <<step, attempt, before, cursor, fsBefore, obs, shAlive,
                 pipeHeld, envVars, started>>

HookExits == pc = "hook" /\ HookFinishes(FALSE)

(* Not the code: giving the hook up without killing it. *)
HookLeftAlive ==
  /\ pc = "hook"
  /\ shAlive \/ pipeHeld
  /\ pc' = "reaping"
  /\ UNCHANGED <<proxyVars, step, attempt, before, cursor, fsBefore, draft, obs,
                 shAlive, pipeHeld, envVars, started>>

(* TimeoutExpired: kill() reaches the shell, not its descendants. *)
HookTimesOut ==
  /\ pc = "hook"
  /\ shAlive \/ pipeHeld
  /\ shAlive' = FALSE
  /\ pc' = "reaping"
  /\ UNCHANGED <<proxyVars, step, attempt, before, cursor, fsBefore, draft, obs,
                 pipeHeld, envVars, started>>

(* The second communicate(), which has no timeout. *)
HookReaped == pc = "reaping" /\ HookFinishes(TRUE)

-----------------------------------------------------------------------------
(* _single_run: startup, baseline and the loop over the tools *)

ServerSpawned ==
  /\ pc = "next"
  /\ step = Startup
  /\ started' = started \cup {<<step, 1>>}
  /\ pc' = "startup"
  /\ UNCHANGED <<proxyVars, step, attempt, before, cursor, fsBefore, draft, obs,
                 shAlive, pipeHeld, envVars>>

(* initialize() and list_tools() both return. *)
ToolsListed ==
  /\ pc = "startup"
  /\ pc' = "baseline"
  /\ UNCHANGED <<proxyVars, step, attempt, before, cursor, fsBefore, draft, obs,
                 shAlive, pipeHeld, envVars, started>>

(* Not the code: no baseline, so module loading is the first tool's doing. *)
NoBaselineEvents ==
  /\ pc = "baseline"
  /\ pc' = "baseline2"
  /\ UNCHANGED <<proxyVars, step, attempt, before, cursor, fsBefore, draft, obs,
                 shAlive, pipeHeld, envVars, started>>

BaselineEvents ==
  /\ pc = "baseline"
  /\ cursor' = Len(events)
  /\ pc' = "baseline2"
  /\ UNCHANGED <<proxyVars, step, attempt, before, fsBefore, draft, obs,
                 shAlive, pipeHeld, envVars, started>>

BaselineSnapshot ==
  /\ pc = "baseline2"
  /\ fsBefore' = Len(changes)
  /\ step' = step + 1
  /\ pc' = "next"
  /\ UNCHANGED <<proxyVars, attempt, before, cursor, draft, obs, shAlive,
                 pipeHeld, envVars, started>>

(* Not the code: `before` taken once, ahead of the loop. *)
ToolCalledUnmarked ==
  /\ pc = "next"
  /\ step \in Tools
  /\ started' = started \cup {<<step, 1>>}
  /\ pc' = "calling"
  /\ UNCHANGED <<proxyVars, step, attempt, before, cursor, fsBefore, draft, obs,
                 shAlive, pipeHeld, envVars>>

ToolCalled ==
  /\ pc = "next"
  /\ step \in Tools
  /\ before' = Len(requests)
  /\ started' = started \cup {<<step, 1>>}
  /\ pc' = "calling"
  /\ UNCHANGED <<proxyVars, step, attempt, cursor, fsBefore, draft, obs,
                 shAlive, pipeHeld, envVars>>

(* Not the code: the retry without observe.py:395. *)
RetryUnmarked ==
  /\ pc = "calling"
  /\ attempt = 1
  /\ attempt' = 2
  /\ started' = started \cup {<<step, 2>>}
  /\ UNCHANGED <<proxyVars, pc, step, before, cursor, fsBefore, draft, obs,
                 shAlive, pipeHeld, envVars>>

(* McpError on the full argument set: mark again, call with the minimum. *)
ToolRefused ==
  /\ pc = "calling"
  /\ attempt = 1
  /\ attempt' = 2
  /\ before' = Len(requests)
  /\ started' = started \cup {<<step, 2>>}
  /\ UNCHANGED <<proxyVars, pc, step, cursor, fsBefore, draft, obs, shAlive,
                 pipeHeld, envVars>>

(* The call returns; an error is kept only when the retry failed as well. *)
ToolReturns(error) ==
  /\ pc = "calling"
  /\ error => attempt = 2
  /\ draft' = [draft EXCEPT !.error = error]
  /\ WaitStart
  /\ pc' = "waiting"
  /\ UNCHANGED <<step, attempt, before, cursor, fsBefore, obs, shAlive,
                 pipeHeld, envVars, started>>

(* The handshake, a process that cannot be spawned, a log or a tree that   *)
(* cannot be read, any exception but an McpError of a call, ends the run.  *)
RunBreaks ==
  /\ pc \in {"next", "startup", "baseline", "baseline2", "calling",
             "readEvents", "snapshot"}
  /\ step # Finish
  /\ pc' = "closing"
  /\ UNCHANGED <<proxyVars, step, attempt, before, cursor, fsBefore, draft, obs,
                 shAlive, pipeHeld, envVars, started>>

-----------------------------------------------------------------------------
(* Reading one step's window: wait_idle, events, snapshot, requests. *)

(* The result of wait_idle is ignored. *)
WaitedForProxy ==
  /\ pc = "waiting"
  /\ WaitReturned
  /\ pc' = "readEvents"
  /\ UNCHANGED <<step, attempt, before, cursor, fsBefore, draft, obs, shAlive,
                 pipeHeld, envVars, started>>

ReadEvents ==
  /\ pc = "readEvents"
  /\ draft' = [draft EXCEPT !.ev = Window(cursor, Len(events))]
  /\ cursor' = Len(events)
  /\ pc' = "snapshot"
  /\ UNCHANGED <<proxyVars, step, attempt, before, fsBefore, obs, shAlive,
                 pipeHeld, envVars, started>>

(* Not the code: the tool loop without `fs_before = fs_after`. *)
SnapshotNotCarried ==
  /\ pc = "snapshot"
  /\ draft' = [draft EXCEPT !.fs = Window(fsBefore, Len(changes))]
  /\ pc' = "slice"
  /\ UNCHANGED <<proxyVars, step, attempt, before, cursor, fsBefore, obs,
                 shAlive, pipeHeld, envVars, started>>

(* The tool loop carries its snapshot over; the hook loop takes a new one. *)
Snapshot ==
  /\ pc = "snapshot"
  /\ draft' = [draft EXCEPT !.fs = Window(fsBefore, Len(changes))]
  /\ fsBefore' = IF step \in Tools THEN Len(changes) ELSE fsBefore
  /\ pc' = "slice"
  /\ UNCHANGED <<proxyVars, step, attempt, before, cursor, obs, shAlive,
                 pipeHeld, envVars, started>>

Observation ==
  [req |-> Window(before, Len(requests)), ev |-> draft.ev, fs |-> draft.fs,
   error |-> draft.error, attempt |-> attempt]

(* Hooks are kept by their key (observe.py:307): the observation of an     *)
(* earlier hook with the same key is overwritten.                          *)
Kept(k) ==
  IF k = step THEN Observation ELSE IF SameKey(k, step) THEN NotYet ELSE obs[k]

SliceRequests ==
  /\ pc = "slice"
  /\ obs' = [k \in Steps |-> Kept(k)]
  /\ step' = step + 1
  /\ attempt' = 1
  /\ draft' = NoDraft
  /\ pc' = "next"
  /\ UNCHANGED <<proxyVars, before, cursor, fsBefore, shAlive, pipeHeld,
                 envVars, started>>

AllObserved ==
  /\ pc = "next"
  /\ step = Finish
  /\ pc' = "closing"
  /\ UNCHANGED <<proxyVars, step, attempt, before, cursor, fsBefore, draft, obs,
                 shAlive, pipeHeld, envVars, started>>

(* client.close(), then SealedProxy.__exit__. *)
CloseRun ==
  /\ pc = "closing"
  /\ Close
  /\ pc' = "done"
  /\ UNCHANGED <<step, attempt, before, cursor, fsBefore, draft, obs, shAlive,
                 pipeHeld, envVars, started>>

-----------------------------------------------------------------------------
(* The proxy's own threads; a request answered while the activity that made *)
(* it is still being waited for is one that activity may have awaited.      *)
ProxyThreads ==
  /\ AcceptorStep \/ PollStep \/ \E c \in Conns : Reset(c) \/ HandlerStep(c)
  /\ awaited' = awaited \cup {c \in answered' \ answered : Foreground(by[c])}
  /\ UNCHANGED <<pc, step, attempt, before, cursor, fsBefore, draft, obs,
                 shAlive, pipeHeld, by, events, changes, started>>

HookSteps == HookSkipped \/ HookSpawned \/ HookExits \/ HookTimesOut \/ HookReaped

StartupSteps == ServerSpawned \/ ToolsListed \/ BaselineEvents \/ BaselineSnapshot

ToolSteps == \/ ToolCalled \/ ToolRefused
             \/ \E error \in BOOLEAN : ToolReturns(error)

WindowSteps == WaitedForProxy \/ ReadEvents \/ Snapshot \/ SliceRequests

RunThread == HookSteps \/ StartupSteps \/ ToolSteps \/ WindowSteps
               \/ RunBreaks \/ AllObserved \/ CloseRun

PackageSteps ==
  \/ \E c \in Conns : SendRequest(c)
  \/ \E cause \in started : EmitEvent(cause) \/ ChangeFile(cause)
  \/ HookForks \/ ShellExits \/ PipeReleased

RunNext == RunThread \/ ProxyThreads \/ PackageSteps

RunSpec == RunInit /\ [][RunNext]_allVars

(* The run's thread, the timeout of a hook included, and the proxy's       *)
(* threads run.  The server answers or dies: ToolsListed, ToolReturns,     *)
(* ToolRefused and RunBreaks belong to RunThread.  A shell need never exit.*)
FairRunSpec ==
  /\ RunSpec
  /\ WF_allVars(RunThread)
  /\ WF_allVars(ProxyThreads /\ PollStep)

(* Moreover a descendant that holds a hook's pipes lets go of them. *)
FairPipesSpec == FairRunSpec /\ WF_allVars(PipeReleased)

-----------------------------------------------------------------------------
WindowType == [lo : Nat, hi : Nat]
ObservationType ==
  [req : WindowType, ev : WindowType, fs : WindowType,
   error : BOOLEAN, attempt : {1, 2}]
EffectType == [cause : Causes, prompt : BOOLEAN]

RunTypeOK ==
  /\ ProxyTypeOK
  /\ pc \in {"next", "hook", "reaping", "startup", "baseline", "baseline2",
             "calling", "waiting", "readEvents", "snapshot", "slice",
             "closing", "done"}
  /\ step \in Steps
  /\ attempt \in {1, 2}
  /\ before \in Nat /\ cursor \in Nat /\ fsBefore \in Nat
  /\ draft \in [ev : WindowType, fs : WindowType, error : BOOLEAN]
  /\ obs \in [Steps -> ObservationType \cup {NotYet}]
  /\ shAlive \in BOOLEAN /\ pipeHeld \in BOOLEAN
  /\ by \in [Conns -> Causes \cup {NoCause}]
  /\ events \in Seq(EffectType) /\ changes \in Seq(EffectType)
  /\ started \subseteq Causes
  /\ awaited \subseteq Conns

(* No request, event or change is ever reported for two activities, and an *)
(* activity's window never reaches back before that of an earlier one: the *)
(* index arithmetic of before/cursor/fs_before over hooks, skipped hooks,  *)
(* the baseline, retries and tools keeps all three channels apart.         *)
Precedes(w, v) == w.hi <= v.lo

WindowsInOrder ==
  \A j, k \in Observed :
    j < k => /\ Precedes(obs[j].req, obs[k].req)
             /\ Precedes(obs[j].ev, obs[k].ev)
             /\ Precedes(obs[j].fs, obs[k].fs)

(* What an activity did while it was being waited for is reported for it   *)
(* and for nothing else: not charged to the first tool when it was module  *)
(* loading (observe.py:378), not to the next hook.  And every hook and     *)
(* tool that the run has put behind it is reported, unless it was a hook   *)
(* and a later hook with the same key (observe.py:307) took its place,     *)
(* which leaves what the earlier one did reported for nobody.              *)
Behind(k) == k \in Hooks \cup Tools /\ k < step /\ <<k, 1>> \in started

Reported(k) == k \in Observed \/ \E j \in Observed : k < j /\ SameKey(j, k)

PromptEffectsExact ==
  /\ \A k \in Observed :
       /\ \A i \in DOMAIN events :
            events[i].prompt => (Within(i, obs[k].ev) <=> events[i].cause[1] = k)
       /\ \A i \in DOMAIN changes :
            changes[i].prompt => (Within(i, obs[k].fs) <=> changes[i].cause[1] = k)
  /\ \A k \in Steps : Behind(k) => Reported(k)

(* A request whose answer came while its activity was still being waited   *)
(* for is reported for exactly that activity, and for a retried tool only  *)
(* when the retry made it: this needs the proxy to record before it        *)
(* answers and the retry to mark the log again (observe.py:395).           *)
AwaitedRequestsExact ==
  \A k \in Observed, i \in DOMAIN requests :
    requests[i] \in awaited =>
      (Within(i, obs[k].req) <=> by[requests[i]] = <<k, obs[k].attempt>>)

(* The run ends, however its hooks and its server behave, as long as the   *)
(* server answers or dies and no descendant holds a hook's pipes for ever: *)
(* a shell that never exits is killed by the timeout.                      *)
RunEnds == <>(pc = "done")

-----------------------------------------------------------------------------
(* observe.py:257 and SECURITY.md:38: a hook runs under "a timeout".         *)
HookIsBounded == (pc = "hook") ~> (pc \notin {"hook", "reaping"})
=============================================================================
