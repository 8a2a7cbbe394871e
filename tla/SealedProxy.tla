----------------------------- MODULE SealedProxy -----------------------------
(***************************************************************************)
(* proxy/sealed.py: the recording proxy a confined package talks to.       *)
(*                                                                         *)
(* Three kinds of thread share `_requests` and `_active` under `_lock`:    *)
(* the acceptor (`_serve`), one handler per connection (`_handle`), and    *)
(* the run's own thread, which polls both in `wait_idle`.  A step of this  *)
(* module is one critical section, or one blocking call, of one of them.   *)
(*                                                                         *)
(* What a request says (host, path, headers, body) is abstracted to the    *)
(* connection that carried it; parsing is a step that either yields a      *)
(* request or does not.  Time is abstracted: the settle interval and the   *)
(* deadline of `wait_idle` may pass at any poll.                           *)
(***************************************************************************)
EXTENDS Integers, Sequences, FiniteSets

CONSTANT Conns          \* one element per connection a confined process opens

ASSUME ConnsFinite == IsFiniteSet(Conns)

VARIABLES
  phase,                \* where each connection is on its way through the proxy
  requests,             \* SealedProxy._requests: recorded requests, oldest first
  active,               \* SealedProxy._active: handlers between entry and finally
  answered,             \* history: requests whose answer was written out
  stop,                 \* SealedProxy._stop, set by close()
  acceptor,             \* the thread in _serve
  waitPc,               \* the caller of wait_idle
  lastCount,            \* wait_idle's last_count
  stable,               \* wait_idle's stable_since is not None
  stableCount           \* history: log length when stable_since was last set

proxyVars == <<phase, requests, active, answered, stop, acceptor,
               waitPc, lastCount, stable, stableCount>>
waitVars == <<waitPc, lastCount, stable, stableCount>>

Phases == {"unopened", "queued", "accepted", "parsing", "tunnel",
           "recorded", "leaving", "gone"}

Recorded == {requests[i] : i \in DOMAIN requests}

(* Connections whose handler has counted itself and not yet left. *)
InFlight == {c \in Conns : phase[c] \in {"parsing", "tunnel", "recorded", "leaving"}}

ProxyInit ==
  /\ phase = [c \in Conns |-> "unopened"]
  /\ requests = <<>>
  /\ active = 0
  /\ answered = {}
  /\ stop = FALSE
  /\ acceptor = "testing"
  /\ waitPc = "out"
  /\ lastCount = -1
  /\ stable = FALSE
  /\ stableCount = -1

Move(c, from, to) ==
  /\ phase[c] \in from
  /\ phase' = [phase EXCEPT ![c] = to]

-----------------------------------------------------------------------------
(* The kernel and the acceptor thread. *)

(* A confined process connects: the kernel completes the handshake and     *)
(* queues the connection before any Python code runs.  After close() this  *)
(* works only while the acceptor is still blocked on the old socket.       *)
Open(c) ==
  /\ ~stop \/ acceptor = "blocked"
  /\ Move(c, {"unopened"}, "queued")
  /\ UNCHANGED <<requests, active, answered, stop, acceptor, waitVars>>

(* The top of the loop in _serve: leave, or block in accept(). *)
TestStop ==
  /\ acceptor = "testing"
  /\ acceptor' = IF stop THEN "returned" ELSE "blocked"
  /\ UNCHANGED <<phase, requests, active, answered, stop, waitVars>>

(* Not the code: _serve handling a connection itself, in its own thread. *)
AcceptOneAtATime(c) ==
  /\ acceptor = "blocked"
  /\ \A d \in Conns : phase[d] \in {"unopened", "queued", "gone"}
  /\ Move(c, {"queued"}, "accepted")
  /\ acceptor' = "testing"
  /\ UNCHANGED <<requests, active, answered, stop, waitVars>>

(* accept() returns and the handler thread is started; it has not run yet. *)
Accept(c) ==
  /\ acceptor = "blocked"
  /\ Move(c, {"queued"}, "accepted")
  /\ acceptor' = "testing"
  /\ UNCHANGED <<requests, active, answered, stop, waitVars>>

(* accept() raises OSError, and the thread returns for good: the socket was *)
(* closed between test and call, or the process is out of descriptors, or  *)
(* the peer gave up first.  The listening socket may be open still.        *)
AcceptFails ==
  /\ acceptor = "blocked"
  /\ acceptor' = "returned"
  /\ UNCHANGED <<phase, requests, active, answered, stop, waitVars>>

(* A connection still queued when the listening socket goes is reset. *)
Reset(c) ==
  /\ stop
  /\ acceptor # "blocked"
  /\ Move(c, {"queued"}, "gone")
  /\ UNCHANGED <<requests, active, answered, stop, acceptor, waitVars>>

-----------------------------------------------------------------------------
(* One handler thread. *)

Count(c) ==
  /\ Move(c, {"accepted"}, "parsing")
  /\ active' = active + 1
  /\ UNCHANGED <<requests, answered, stop, acceptor, waitVars>>

(* A CONNECT request: agree to it, then terminate TLS and parse again. *)
Tunnel(c) ==
  /\ Move(c, {"parsing"}, "tunnel")
  /\ UNCHANGED <<requests, active, answered, stop, acceptor, waitVars>>

(* A complete request was parsed: _respond records it before answering. *)
Record(c) ==
  /\ Move(c, {"parsing", "tunnel"}, "recorded")
  /\ requests' = Append(requests, c)
  /\ UNCHANGED <<active, answered, stop, acceptor, waitVars>>

(* Not the code: _respond answering before it records. *)
RespondFirst(c) ==
  /\ Move(c, {"parsing", "tunnel", "recorded"}, "leaving")
  /\ answered' = answered \cup {c}
  /\ UNCHANGED <<requests, active, stop, acceptor, waitVars>>

Respond(c) ==
  /\ Move(c, {"recorded"}, "leaving")
  /\ answered' = answered \cup {c}
  /\ UNCHANGED <<requests, active, stop, acceptor, waitVars>>

(* Not the code: the except clause uncounting what finally uncounts again. *)
AbandonUncounts(c) ==
  /\ Move(c, {"parsing", "tunnel", "recorded"}, "leaving")
  /\ active' = active - 1
  /\ UNCHANGED <<requests, answered, stop, acceptor, waitVars>>

(* Nothing parseable came (EOF, malformed, a 30 s socket timeout), the TLS *)
(* handshake or its certificate failed, or the answer could not be sent.   *)
Abandon(c) ==
  /\ Move(c, {"parsing", "tunnel", "recorded"}, "leaving")
  /\ UNCHANGED <<requests, active, answered, stop, acceptor, waitVars>>

(* Not the code: a return that skips the finally clause's decrement. *)
LeaveCounted(c) ==
  /\ Move(c, {"leaving"}, "gone")
  /\ UNCHANGED <<requests, active, answered, stop, acceptor, waitVars>>

(* The finally clause. *)
Leave(c) ==
  /\ Move(c, {"leaving"}, "gone")
  /\ active' = active - 1
  /\ UNCHANGED <<requests, answered, stop, acceptor, waitVars>>

-----------------------------------------------------------------------------
(* The thread of the run: close() and wait_idle(). *)

Close ==
  /\ waitPc = "out"
  /\ ~stop
  /\ stop' = TRUE
  /\ UNCHANGED <<phase, requests, active, answered, acceptor, waitVars>>

WaitStart ==
  /\ ~stop
  /\ waitPc = "out"
  /\ waitPc' = "polling"
  /\ lastCount' = -1
  /\ stable' = FALSE
  /\ stableCount' = -1
  /\ UNCHANGED <<phase, requests, active, answered, stop, acceptor>>

SampleIsSame == active = 0 /\ Len(requests) = lastCount

(* Not the code: stable_since left set when the sample changes. *)
PollBusyStaysStable ==
  /\ waitPc = "polling"
  /\ ~SampleIsSame
  /\ lastCount' = Len(requests)
  /\ UNCHANGED <<phase, requests, active, answered, stop, acceptor,
                 waitPc, stable, stableCount>>

PollBusy ==
  /\ waitPc = "polling"
  /\ ~SampleIsSame
  /\ stable' = FALSE
  /\ lastCount' = Len(requests)
  /\ UNCHANGED <<phase, requests, active, answered, stop, acceptor,
                 waitPc, stableCount>>

PollSettling ==
  /\ waitPc = "polling"
  /\ SampleIsSame
  /\ ~stable
  /\ stable' = TRUE
  /\ stableCount' = Len(requests)
  /\ UNCHANGED <<phase, requests, active, answered, stop, acceptor,
                 waitPc, lastCount>>

(* The settle interval has passed: wait_idle returns True. *)
PollSettled ==
  /\ waitPc = "polling"
  /\ SampleIsSame
  /\ stable
  /\ waitPc' = "quiet"
  /\ UNCHANGED <<phase, requests, active, answered, stop, acceptor,
                 lastCount, stable, stableCount>>

(* The deadline has passed: wait_idle returns False. *)
WaitExpire ==
  /\ waitPc = "polling"
  /\ waitPc' = "gaveup"
  /\ UNCHANGED <<phase, requests, active, answered, stop, acceptor,
                 lastCount, stable, stableCount>>

(* The caller takes the result, wait_idle's locals are gone, and it may     *)
(* call again later.                                                       *)
WaitReturned ==
  /\ waitPc \in {"quiet", "gaveup"}
  /\ waitPc' = "out"
  /\ lastCount' = -1
  /\ stable' = FALSE
  /\ stableCount' = -1
  /\ UNCHANGED <<phase, requests, active, answered, stop, acceptor>>

-----------------------------------------------------------------------------
AcceptorStep == TestStop \/ AcceptFails \/ \E c \in Conns : Accept(c)

HandlerStep(c) ==
  Count(c) \/ Tunnel(c) \/ Record(c) \/ Respond(c) \/ Abandon(c) \/ Leave(c)

PollStep == PollBusy \/ PollSettling \/ PollSettled \/ WaitExpire

ProxyNext ==
  \/ AcceptorStep
  \/ \E c \in Conns : Open(c) \/ Reset(c) \/ HandlerStep(c)
  \/ Close
  \/ PollStep
  \/ WaitStart
  \/ WaitReturned

ProxySpec == ProxyInit /\ [][ProxyNext]_proxyVars

(* Threads run, and wait_idle polls until it returns.  The 30 s timeout is  *)
(* one of each recv(), so a peer that goes on sending keeps its handler    *)
(* reading for as long as it likes: the steps that end the reading are not *)
(* fair.  Nobody has to open or to close, and accept() need not fail.      *)
Reading(c) == phase[c] \in {"parsing", "tunnel"}

OwnStep(c) == Count(c) \/ Leave(c) \/ (~Reading(c) /\ (Respond(c) \/ Abandon(c)))

FairProxySpec ==
  /\ ProxySpec
  /\ WF_proxyVars(TestStop \/ \E c \in Conns : Accept(c))
  /\ \A c \in Conns : WF_proxyVars(OwnStep(c))
  /\ WF_proxyVars(PollStep)

-----------------------------------------------------------------------------
ProxyTypeOK ==
  /\ phase \in [Conns -> Phases]
  /\ requests \in Seq(Conns)
  /\ active \in Nat
  /\ answered \subseteq Conns
  /\ stop \in BOOLEAN
  /\ acceptor \in {"testing", "blocked", "returned"}
  /\ waitPc \in {"out", "polling", "quiet", "gaveup"}
  /\ lastCount \in Nat \cup {-1}
  /\ stable \in BOOLEAN
  /\ stableCount \in Nat \cup {-1}

(* `_active` is what wait_idle trusts instead of looking at the threads:   *)
(* on every path through `_handle`, exceptions included, it counts exactly *)
(* the handlers that are between their first and their last statement.     *)
ActiveCounts == active = Cardinality(InFlight)

(* When wait_idle returns True (sealed.py:161), no counted handler is      *)
(* mid-flight and the log is the one the settle interval began with:       *)
(* nothing was recorded while wait_idle believed the proxy was quiet.      *)
QuietIsIdle ==
  [][(waitPc = "polling" /\ waitPc' = "quiet")
       => InFlight = {} /\ Len(requests) = stableCount]_proxyVars

(* The abstract log: the three kinds of thread together implement a log    *)
(* that is append-only and duplicate-free, in which every answered request *)
(* is present and no abandoned one ever appears.                           *)
DroppedConns == {c \in Conns : phase[c] \in {"leaving", "gone"}} \ Recorded

Log == INSTANCE RequestLog WITH
         submitted <- {c \in Conns : phase[c] # "unopened"},
         log <- requests,
         dropped <- DroppedConns

ImplementsLog == Log!LogSpec

(* A connection the kernel has queued is handed to a handler, and every     *)
(* handler ends and gives its count back, whatever the other connections   *)
(* do (sealed.py:176-204), unless the peer keeps this very handler reading *)
(* for ever.  Nobody takes a connection after close(), or once an error of *)
(* accept() has ended the acceptor (sealed.py:180).                        *)
QueuedIsServed ==
  \A c \in Conns :
    \/ <>[]Reading(c)
    \/ /\ (phase[c] = "queued")
             ~> (phase[c] # "queued" \/ stop \/ acceptor = "returned")
       /\ (phase[c] = "accepted") ~> (phase[c] = "gone")

=============================================================================
