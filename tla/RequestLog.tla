----------------------------- MODULE RequestLog -----------------------------
(***************************************************************************)
(* What SealedProxy promises the rest of mcpgap, with every thread and     *)
(* every lock taken away: a log of outbound requests that only grows, in   *)
(* which a request appears at most once, and from which a request that was *)
(* answered is never missing.  A request may also be dropped (the          *)
(* connection was malformed or abandoned); then it never appears.          *)
(***************************************************************************)
EXTENDS Sequences, FiniteSets

CONSTANT Conns          \* one element per connection a confined process opens

VARIABLES
  submitted,            \* connections the package has opened
  log,                  \* SealedProxy.requests, oldest first
  answered,             \* requests whose answer the package was sent
  dropped               \* requests that will never be recorded

logVars == <<submitted, log, answered, dropped>>

Logged == {log[i] : i \in DOMAIN log}

LogInit ==
  /\ submitted = {}
  /\ log = <<>>
  /\ answered = {}
  /\ dropped = {}

Submit(c) ==
  /\ c \notin submitted
  /\ submitted' = submitted \cup {c}
  /\ UNCHANGED <<log, answered, dropped>>

Keep(c) ==
  /\ c \in submitted \ (Logged \cup dropped)
  /\ log' = Append(log, c)
  /\ UNCHANGED <<submitted, answered, dropped>>

Answer(c) ==
  /\ c \in Logged \ answered
  /\ answered' = answered \cup {c}
  /\ UNCHANGED <<submitted, log, dropped>>

Drop(c) ==
  /\ c \in submitted \ (Logged \cup dropped)
  /\ dropped' = dropped \cup {c}
  /\ UNCHANGED <<submitted, log, answered>>

LogNext == \E c \in Conns : Submit(c) \/ Keep(c) \/ Answer(c) \/ Drop(c)

LogSpec == LogInit /\ [][LogNext]_logVars
=============================================================================
