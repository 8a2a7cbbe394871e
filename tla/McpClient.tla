------------------------------ MODULE McpClient ------------------------------
(***************************************************************************)
(* mcpclient.py: StdioMcpClient, the JSON-RPC client that drives one MCP   *)
(* server over the pipes of a child process, and the way observe.py uses   *)
(* it: initialize, list_tools, then call_tool for each tool, close.        *)
(*                                                                         *)
(* The server is a foreign program.  It reads requests in order, logs to   *)
(* stderr, answers in any order and perhaps more than once, prints noise   *)
(* and notifications, may ask something of the client (under AskIds), and  *)
(* may close stdout or exit at any time.  A process it has started may     *)
(* have inherited its pipes, and may print to stdout and outlive it.  A    *)
(* line on stdout is its kind and id; results carry the method answered.   *)
(***************************************************************************)
EXTENDS Integers, Sequences, FiniteSets

CONSTANTS
  Versions,             \* how many protocol versions the client tries
  Calls,                \* how many tool calls follow the handshake
  AskIds,               \* ids the server gives to requests of its own
  LogLines,             \* stderr lines the server prints for each request
  PipeCap,              \* capacity of the stderr pipe
  MaxExtra,             \* bound: lines on stdout beyond one reply per request
  MaxUnread             \* bound: lines on stdout the client has not read

Ids == 1..(Versions + Calls + 1)

ASSUME McpBounds ==
  /\ Versions \in Nat \ {0} /\ PipeCap \in Nat \ {0} /\ MaxUnread \in Nat \ {0}
  /\ Calls \in Nat /\ LogLines \in Nat /\ MaxExtra \in Nat /\ AskIds \subseteq Ids \cup {0}

Methods == {"initialize", "tools/list", "tools/call"}
Requests == [id : Ids, method : Methods]

VARIABLES
  stage,                \* what the client's caller is doing
  pc,                   \* where in request() or notify() the client is
  outcome,              \* how it ended, or "running"
  version,              \* index into SUPPORTED_PROTOCOL_VERSIONS
  called,               \* tool calls made
  nextId,               \* _next_id
  toServer,             \* stdin pipe: requests the server has not read
  fromServer,           \* stdout pipe: lines the client has not read
  extra,                \* lines it has printed beyond one reply per request
  received,             \* requests the server has read
  unanswered,           \* those of them it has not answered
  serverUp,             \* process.poll() is None
  stdoutOpen,           \* the server has not closed its stdout
  held,                 \* a descendant of the server has the pipes as well
  toLog,                \* stderr lines the server must print before answering
  stderrPipe,           \* stderr lines not yet drained
  taken                 \* history: replies request() returned or raised

clientVars == <<stage, pc, outcome, version, called, nextId, taken>>
serverVars == <<received, unanswered, serverUp, stdoutOpen, held, toLog>>
pipeVars == <<toServer, fromServer, extra, stderrPipe>>
mcpVars == <<clientVars, serverVars, pipeVars>>

Method == CASE stage = "initialize" -> "initialize"
            [] stage = "list" -> "tools/list"
            [] OTHER -> "tools/call"

(* The id of the request being waited for: request_id. *)
Want == nextId - 1

McpInit ==
  /\ stage = "initialize" /\ pc = "start" /\ outcome = "running"
  /\ version = 1 /\ called = 0 /\ nextId = 1
  /\ toServer = <<>> /\ fromServer = <<>> /\ extra = 0
  /\ received = {} /\ unanswered = {}
  /\ serverUp = TRUE /\ stdoutOpen = TRUE /\ held = FALSE
  /\ toLog = 0 /\ stderrPipe = 0
  /\ taken = {}

-----------------------------------------------------------------------------
(* What an McpError, another exception or a result does to the caller. *)

Raise(how) ==
  /\ outcome' = how
  /\ pc' = "done"
  /\ UNCHANGED <<stage, version, called>>

(* Not the code: an initialize that fails is not retried. *)
McpErrorGivesUp ==
  \/ /\ stage \in {"initialize", "notify", "list"}
     /\ Raise("HandshakeError")
  \/ /\ stage = "call"
     /\ called' = called + 1
     /\ pc' = "start"
     /\ UNCHANGED <<stage, outcome, version>>

(* initialize() catches McpError and tries the next version, unless the    *)
(* server is gone or there is none; _single_run catches it around a call.  *)
McpError ==
  \/ /\ stage = "initialize"
     /\ \/ /\ serverUp /\ version < Versions
           /\ version' = version + 1
           /\ pc' = "start"
           /\ UNCHANGED <<stage, outcome, called>>
        \/ /\ ~serverUp \/ version = Versions
           /\ Raise("HandshakeError")
  \/ /\ stage \in {"notify", "list"}
     /\ Raise("McpError")
  \/ /\ stage = "call"
     /\ called' = called + 1
     /\ pc' = "start"
     /\ UNCHANGED <<stage, outcome, version>>

Result ==
  /\ pc' = "start"
  /\ stage' = CASE stage = "initialize" -> "notify"
                [] stage = "list" -> "call"
                [] OTHER -> stage
  /\ called' = IF stage = "call" THEN called + 1 ELSE called
  /\ UNCHANGED <<outcome, version>>

(* initialize() and list_tools() look into the result: one that is not an  *)
(* object, or a tool without a name, raises.                               *)
ResultMisfits == stage \in {"initialize", "list"} /\ Raise("AttributeError")

-----------------------------------------------------------------------------
(* request() and notify() *)

(* Not the code: one call too many. *)
BeginPastEnd ==
  /\ pc = "start"
  /\ stage = "call" => called <= Calls
  /\ nextId' = IF stage = "notify" THEN nextId ELSE nextId + 1
  /\ pc' = "check"
  /\ UNCHANGED <<stage, outcome, version, called, taken, serverVars, pipeVars>>

(* A new request takes the next id; a notification has none. *)
Begin ==
  /\ pc = "start"
  /\ stage = "call" => called < Calls
  /\ nextId' = IF stage = "notify" THEN nextId ELSE nextId + 1
  /\ pc' = "check"
  /\ UNCHANGED <<stage, outcome, version, called, taken, serverVars, pipeVars>>

(* _send asks process.poll() first ... *)
SendChecks ==
  /\ pc = "check"
  /\ \/ /\ serverUp
        /\ pc' = "write"
        /\ UNCHANGED <<stage, outcome, version, called>>
     \/ /\ ~serverUp
        /\ McpError
  /\ UNCHANGED <<nextId, taken, serverVars, pipeVars>>

(* ... and writes afterwards: the server may have exited in between, and   *)
(* then the pipe still takes the request if somebody else can read it.     *)
SendWrites ==
  /\ pc = "write"
  /\ serverUp \/ held
  /\ IF stage = "notify"
       THEN /\ stage' = "list"
            /\ pc' = "start"
            /\ UNCHANGED toServer
       ELSE /\ toServer' = Append(toServer, [id |-> Want, method |-> Method])
            /\ pc' = "read"
            /\ UNCHANGED stage
  /\ UNCHANGED <<outcome, version, called, nextId, taken, serverVars,
                 fromServer, extra, stderrPipe>>

SendBreaks ==
  /\ pc = "write"
  /\ ~serverUp
  /\ Raise("BrokenPipeError")
  /\ UNCHANGED <<nextId, taken, serverVars, pipeVars>>

Line == Head(fromServer)

(* Not the code: the next result or error is the reply, whatever its id. *)
AnyReply == Line.kind \in {"result", "error", "ask"}

(* An id is enough: a line with the awaited id is taken for the reply, and *)
(* it is an error if it has an "error" member.                             *)
IsReply == Line.kind \in {"result", "error", "ask"} /\ Line.id = Want

ReadLine ==
  /\ pc = "read"
  /\ fromServer # <<>>
  /\ fromServer' = Tail(fromServer)
  /\ UNCHANGED <<nextId, serverVars, toServer, extra, stderrPipe>>

(* Not JSON, a notification, or a reply to some other request. *)
ReadSkips ==
  /\ ReadLine
  /\ ~IsReply /\ Line.kind # "scalar"
  /\ UNCHANGED <<stage, pc, outcome, version, called, taken>>

(* JSON but not an object, so payload.get does not exist; bytes that are   *)
(* not UTF-8 raise a ValueError, with the same consequence.                *)
ReadChokes ==
  /\ ReadLine
  /\ Line.kind = "scalar"
  /\ Raise("AttributeError")
  /\ UNCHANGED taken

ReadReply ==
  /\ ReadLine
  /\ IsReply
  /\ taken' = taken \cup {[id |-> Want, method |-> Method, line |-> Line]}
  /\ \/ Line.kind = "error" /\ McpError
     \/ Line.kind # "error" /\ Result
     \/ Line.kind # "error" /\ ResultMisfits

(* Not the code: end of file read as an empty result. *)
ReadEofAsEmpty ==
  /\ pc = "read"
  /\ fromServer = <<>>
  /\ ~serverUp \/ ~stdoutOpen
  /\ Result
  /\ UNCHANGED <<nextId, taken, serverVars, pipeVars>>

(* readline() sees the end only once nobody has the pipe open any more. *)
ReadEof ==
  /\ pc = "read"
  /\ fromServer = <<>>
  /\ ~serverUp \/ ~stdoutOpen
  /\ ~held
  /\ McpError
  /\ UNCHANGED <<nextId, taken, serverVars, pipeVars>>

(* All tools called: _single_run returns. *)
Return ==
  /\ pc = "start"
  /\ stage = "call"
  /\ called = Calls
  /\ Raise("returned")
  /\ UNCHANGED <<nextId, taken, serverVars, pipeVars>>

(* close(): stdin closed, SIGTERM, and SIGKILL if that does not help. *)
CloseClient ==
  /\ pc = "done"
  /\ pc' = "closed"
  /\ serverUp' = FALSE
  /\ UNCHANGED <<stage, outcome, version, called, nextId, taken, received,
                 unanswered, stdoutOpen, held, toLog, pipeVars>>

(* Not the code: stderr read only once the exchange is over. *)
DrainAtEnd ==
  /\ pc = "closed"
  /\ stderrPipe > 0
  /\ stderrPipe' = stderrPipe - 1
  /\ UNCHANGED <<clientVars, serverVars, toServer, fromServer, extra>>

(* The drain thread keeps the stderr pipe from filling up. *)
Drain ==
  /\ stderrPipe > 0
  /\ stderrPipe' = stderrPipe - 1
  /\ UNCHANGED <<clientVars, serverVars, toServer, fromServer, extra>>

-----------------------------------------------------------------------------
(* The server process. *)

ServerReads ==
  /\ serverUp
  /\ toServer # <<>>
  /\ toServer' = Tail(toServer)
  /\ received' = received \cup {Head(toServer)}
  /\ unanswered' = unanswered \cup {Head(toServer)}
  /\ toLog' = toLog + LogLines
  /\ UNCHANGED <<clientVars, serverUp, stdoutOpen, held, fromServer, extra,
                 stderrPipe>>

(* A write to a full stderr pipe blocks the whole process. *)
ServerLogs ==
  /\ serverUp
  /\ toLog > 0
  /\ stderrPipe < PipeCap
  /\ toLog' = toLog - 1
  /\ stderrPipe' = stderrPipe + 1
  /\ UNCHANGED <<clientVars, received, unanswered, serverUp, stdoutOpen, held,
                 toServer, fromServer, extra>>

(* A process that shares stdout prints when it likes. *)
PrintLine(line) ==
  /\ (serverUp /\ stdoutOpen /\ toLog = 0) \/ held
  /\ Len(fromServer) < MaxUnread
  /\ fromServer' = Append(fromServer, line)
  /\ UNCHANGED <<clientVars, received, serverUp, stdoutOpen, held, toLog,
                 toServer, stderrPipe>>

ServerAnswers(r) ==
  /\ r \in unanswered
  /\ \E kind \in {"result", "error"} :
       PrintLine([kind |-> kind, id |-> r.id, method |-> r.method])
  /\ unanswered' = unanswered \ {r}
  /\ UNCHANGED extra

(* Extra lines: a reply repeated, a request, a notification, noise. *)
ServerChatters ==
  /\ extra < MaxExtra
  /\ \/ \E r \in received \ unanswered :
          PrintLine([kind |-> "result", id |-> r.id, method |-> r.method])
     \/ \E id \in AskIds :
          PrintLine([kind |-> "ask", id |-> id, method |-> "none"])
     \/ \E kind \in {"note", "noise", "scalar"} :
          PrintLine([kind |-> kind, id |-> 0, method |-> "none"])
  /\ extra' = extra + 1
  /\ UNCHANGED unanswered

ServerClosesStdout ==
  /\ serverUp /\ stdoutOpen
  /\ stdoutOpen' = FALSE
  /\ UNCHANGED <<clientVars, received, unanswered, serverUp, held, toLog, pipeVars>>

ServerExits ==
  /\ serverUp
  /\ serverUp' = FALSE
  /\ UNCHANGED <<clientVars, received, unanswered, stdoutOpen, held, toLog, pipeVars>>

(* The server starts a process that inherits its pipes ... *)
ServerForks ==
  /\ serverUp /\ stdoutOpen /\ ~held
  /\ held' = TRUE
  /\ UNCHANGED <<clientVars, received, unanswered, serverUp, stdoutOpen, toLog, pipeVars>>

(* ... which exits, or closes them. *)
PipesReleased ==
  /\ held
  /\ held' = FALSE
  /\ UNCHANGED <<clientVars, received, unanswered, serverUp, stdoutOpen, toLog, pipeVars>>

-----------------------------------------------------------------------------
ClientStep ==
  Begin \/ SendChecks \/ SendWrites \/ SendBreaks \/ ReadSkips \/ ReadChokes
    \/ ReadReply \/ ReadEof \/ Return \/ CloseClient

ServerWorks == ServerReads \/ ServerLogs \/ \E r \in Requests : ServerAnswers(r)

McpNext == ClientStep \/ Drain \/ ServerWorks \/ ServerChatters
             \/ ServerClosesStdout \/ ServerExits \/ ServerForks \/ PipesReleased

McpSpec == McpInit /\ [][McpNext]_mcpVars

(* The client and its drain thread run, and a server that can work does: a *)
(* server that never answers would block the client, which has no timeout. *)
(* Nothing is assumed of the processes that the server started.            *)
FairMcpSpec ==
  /\ McpSpec
  /\ WF_mcpVars(ClientStep)
  /\ WF_mcpVars(Drain)
  /\ WF_mcpVars(ServerReads)
  /\ WF_mcpVars(ServerLogs)
  /\ WF_mcpVars(serverUp /\ stdoutOpen /\ \E r \in Requests : ServerAnswers(r))

-----------------------------------------------------------------------------
Lines == [kind : {"result", "error", "ask", "note", "noise", "scalar"},
          id : Ids \cup {0}, method : Methods \cup {"none"}]

McpTypeOK ==
  /\ stage \in {"initialize", "notify", "list", "call"}
  /\ pc \in {"start", "check", "write", "read", "done", "closed"}
  /\ outcome \in {"running", "returned", "HandshakeError", "McpError",
                  "BrokenPipeError", "AttributeError"}
  /\ version \in 1..Versions
  /\ called \in 0..Calls
  /\ nextId \in 1..(Versions + Calls + 2)
  /\ toServer \in Seq(Requests)
  /\ fromServer \in Seq(Lines)
  /\ extra \in Nat
  /\ received \subseteq Requests /\ unanswered \subseteq received
  /\ serverUp \in BOOLEAN /\ stdoutOpen \in BOOLEAN /\ held \in BOOLEAN
  /\ toLog \in Nat /\ stderrPipe \in 0..PipeCap
  /\ taken \subseteq [id : Ids, method : Methods, line : Lines]

(* Whatever the server repeats, reorders or mixes in, the reply that       *)
(* request() returns or raises for is the server's reply to that very      *)
(* request: ids are never reused, across version retries and calls, so an  *)
(* old answer cannot be taken for a new one (mcpclient.py:116).            *)
RepliesMatch ==
  \A t \in taken : t.line.id = t.id /\ t.line.method = t.method

(* mcpclient.py:15: "A failed handshake raises `HandshakeError`.  It must   *)
(* never be mistaken for a server that merely has no tools": once the       *)
(* client has a list of tools, the server has completed an initialize and   *)
(* answered tools/list, neither with an error.                              *)
Completed(method) ==
  \E t \in taken : t.method = method /\ t.line.kind = "result" /\ t.line.method = method

ToolsAreLearned ==
  stage = "call" => Completed("initialize") /\ Completed("tools/list")

(* HandshakeError is raised for a reason: the server is gone, or every      *)
(* supported version was tried and refused, each under an id of its own.    *)
HandshakeErrorJustified ==
  outcome = "HandshakeError" =>
    ~serverUp \/ ~stdoutOpen
      \/ Cardinality({t \in taken : t.line.kind = "error"}) = Versions

(* A client of a server that works, dies or closes stdout comes to an end: *)
(* the server never blocks for ever on the stderr it prints                *)
(* (mcpclient.py:65).  Except that, when the server is gone, a process it  *)
(* started that keeps its stdout open keeps the client reading for as long *)
(* (mcpclient.py:93).                                                      *)
ClientFinishes == <>(pc = "closed") \/ <>[]held

=============================================================================
