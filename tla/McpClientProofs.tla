--------------------------- MODULE McpClientProofs ---------------------------
(***************************************************************************)
(* Proofs about McpClient, for any number of protocol versions and calls   *)
(* and any pipe.  RepliesMatch and ToolsAreLearned need a server that gives *)
(* its own requests ids the client does not use: McpAsking shows what one  *)
(* that does not can do.  The rest holds against any server.               *)
(***************************************************************************)
EXTENDS McpClient, FiniteSetTheorems, TLAPS

Elems(s) == {s[i] : i \in 1..Len(s)}

(* The requests that were ever written.                                    *)
Sent == Elems(toServer) \cup received
Asking == pc \in {"check", "write", "read"}

(* An id is taken for each version tried, for the list and for each call.  *)
CountInv ==
  /\ stage = "initialize" /\ pc = "start" => nextId <= version
  /\ stage = "initialize" /\ Asking => nextId <= version + 1
  /\ stage = "notify" \/ (stage = "list" /\ pc = "start") => nextId <= version + 1
  /\ stage = "list" /\ Asking => nextId <= version + 2
  /\ stage = "call" /\ pc = "start" => nextId <= version + 2 + called
  /\ stage = "call" /\ Asking => called < Calls /\ nextId <= version + 3 + called
  /\ stage # "notify" /\ Asking => nextId >= 2

(* Ids are fresh: two requests with one id are one request, the request    *)
(* about to be written has a new one, the one waited for was written.      *)
SentInv ==
  /\ \A r \in Sent : r.id < nextId
  /\ \A r, s \in Sent : r.id = s.id => r.method = s.method
  /\ pc \in {"check", "write"} /\ stage # "notify" => \A r \in Sent : r.id < Want
  /\ pc = "read" => stage # "notify" /\ \E r \in Sent : r.id = Want /\ r.method = Method

(* What the server has printed answers something it has read.              *)
SaidInv ==
  \A line \in Elems(fromServer) :
    /\ line.kind \in {"result", "error"} =>
         \E r \in received : r.id = line.id /\ r.method = line.method
    /\ line.kind = "ask" => line.id \in AskIds

(* What the handshake has led to so far.                                   *)
LearnedInv ==
  /\ stage # "initialize" => Completed("initialize")
  /\ stage = "call" => Completed("tools/list")

BaseInv == McpTypeOK /\ CountInv /\ SentInv /\ SaidInv
McpInv == BaseInv /\ RepliesMatch /\ LearnedInv

-----------------------------------------------------------------------------
LEMMA HeadTail ==
  ASSUME NEW S, NEW s \in Seq(S), s # <<>>
  PROVE  /\ Head(s) \in S /\ Head(s) \in Elems(s)
         /\ Tail(s) \in Seq(S) /\ Elems(Tail(s)) \subseteq Elems(s)
<1>1. Len(s) \in Nat \ {0} /\ Head(s) = s[1] /\ Tail(s) \in Seq(S)
  OBVIOUS
<1>2. Len(Tail(s)) = Len(s) - 1 /\ \A i \in 1..Len(Tail(s)) : Tail(s)[i] = s[i + 1]
  OBVIOUS
<1>3. \A i \in 1..Len(Tail(s)) : i + 1 \in 1..Len(s)
  BY <1>1, <1>2
<1>4. QED
  BY <1>1, <1>2, <1>3 DEF Elems

LEMMA Appended ==
  ASSUME NEW S, NEW s \in Seq(S), NEW x \in S
  PROVE  Append(s, x) \in Seq(S) /\ Elems(Append(s, x)) = Elems(s) \cup {x}
<1>1. /\ Len(s) \in Nat /\ Len(Append(s, x)) = Len(s) + 1 /\ Append(s, x) \in Seq(S)
      /\ \A i \in 1..Len(s) : Append(s, x)[i] = s[i]
      /\ Append(s, x)[Len(s) + 1] = x
  OBVIOUS
<1>2. \A i \in 1..(Len(s) + 1) : i \in 1..Len(s) \/ i = Len(s) + 1
  BY <1>1
<1>3. QED
  BY <1>1, <1>2 DEF Elems

(* What request() waits for can be an id and a method.                     *)
LEMMA WantIsId ==
  ASSUME McpTypeOK, CountInv, Asking, stage # "notify"
  PROVE  Want \in Ids /\ Method \in Methods
<1>1. nextId \in 1..(Versions + Calls + 2) /\ nextId >= 2
  BY DEF McpTypeOK, CountInv
<1>2. Want \in Ids
  BY <1>1, McpBounds DEF Want, Ids
<1>3. Method \in Methods
  BY DEF Method, Methods
<1>4. QED
  BY <1>2, <1>3

LEMMA LineRead ==
  ASSUME McpTypeOK, ReadLine
  PROVE  /\ Line \in Lines /\ Line \in Elems(fromServer)
         /\ fromServer' \in Seq(Lines) /\ Elems(fromServer') \subseteq Elems(fromServer)
BY HeadTail DEF McpTypeOK, ReadLine, Line

(* The reply is a line of the server and, as the server's own requests     *)
(* have other ids, an answer to the very request that is waited for.       *)
LEMMA ReplyIsOurs ==
  ASSUME BaseInv, ReadReply, AskIds \cap Ids = {}
  PROVE  /\ Line \in Lines /\ Line.kind \in {"result", "error"}
         /\ Line.id = Want /\ Line.method = Method /\ Want \in Ids /\ Method \in Methods
<1>1. Line \in Lines /\ Line \in Elems(fromServer)
  BY LineRead DEF BaseInv, ReadReply
<1>2. pc = "read" /\ stage # "notify" /\ Want \in Ids /\ Method \in Methods
  BY WantIsId DEF BaseInv, SentInv, ReadReply, ReadLine, Asking
<1>3. Line.kind \in {"result", "error", "ask"} /\ Line.id = Want
  BY DEF ReadReply, IsReply
<1>4. Line.kind # "ask"
  BY <1>1, <1>2, <1>3 DEF BaseInv, SaidInv
<1>5. PICK r \in received : r.id = Line.id /\ r.method = Line.method
  BY <1>1, <1>3, <1>4 DEF BaseInv, SaidInv
<1>6. r \in Sent
  BY DEF Sent
<1>7. PICK q \in Sent : q.id = Want /\ q.method = Method
  BY <1>2 DEF BaseInv, SentInv
<1>8. QED
  BY <1>1, <1>2, <1>3, <1>4, <1>5, <1>6, <1>7 DEF BaseInv, SentInv

(* What a step of the client may do to its own variables.                  *)
CallerOK ==
  /\ stage \in {"initialize", "notify", "list", "call"}
  /\ pc \in {"start", "check", "write", "read", "done", "closed"}
  /\ outcome \in {"running", "returned", "HandshakeError", "McpError",
                  "BrokenPipeError", "AttributeError"}
  /\ version \in 1..Versions /\ called \in 0..Calls
  /\ nextId \in 1..(Versions + Calls + 2)

LEMMA RaiseStep ==
  ASSUME CallerOK, CountInv, NEW how, Raise(how), nextId' = nextId,
         how \in {"returned", "HandshakeError", "McpError", "BrokenPipeError", "AttributeError"}
  PROVE  CallerOK' /\ CountInv' /\ pc' = "done" /\ stage' = stage
<1>1. pc' = "done" /\ outcome' = how /\ UNCHANGED <<stage, version, called, nextId>>
  BY DEF Raise
<1>2. QED
  BY <1>1 DEF CallerOK, CountInv, Asking

LEMMA ErrorStep ==
  ASSUME CallerOK, CountInv, McpError, Asking, nextId' = nextId
  PROVE  CallerOK' /\ CountInv' /\ pc' \in {"start", "done"} /\ stage' = stage
<1>1. CASE stage = "initialize" /\ ~Raise("HandshakeError")
  <2>1. /\ version < Versions /\ version' = version + 1 /\ pc' = "start"
        /\ UNCHANGED <<stage, outcome, called, nextId>>
    BY <1>1 DEF McpError
  <2>2. QED
    BY <1>1, <2>1, McpBounds DEF CallerOK, CountInv, Asking
<1>2. CASE Raise("HandshakeError") \/ Raise("McpError")
  BY <1>2, RaiseStep
<1>3. CASE stage = "call"
  <2>1. called' = called + 1 /\ pc' = "start" /\ UNCHANGED <<stage, outcome, version, nextId>>
    BY <1>3 DEF McpError
  <2>2. QED
    BY <1>3, <2>1, McpBounds DEF CallerOK, CountInv, Asking
<1>4. QED
  BY <1>1, <1>2, <1>3 DEF McpError

LEMMA ResultStep ==
  ASSUME CallerOK, CountInv, Result, Asking, stage # "notify", nextId' = nextId
  PROVE  CallerOK' /\ CountInv' /\ pc' = "start"
<1>1. pc' = "start" /\ UNCHANGED <<outcome, version, nextId>>
  BY DEF Result
<1>2. CASE stage = "initialize"
  <2>1. stage' = "notify" /\ called' = called
    BY <1>2 DEF Result
  <2>2. QED
    BY <1>1, <1>2, <2>1 DEF CallerOK, CountInv, Asking
<1>3. CASE stage = "list"
  <2>1. stage' = "call" /\ called' = called
    BY <1>3 DEF Result
  <2>2. QED
    BY <1>1, <1>3, <2>1 DEF CallerOK, CountInv, Asking
<1>4. CASE stage = "call"
  <2>1. stage' = "call" /\ called' = called + 1
    BY <1>4 DEF Result
  <2>2. QED
    BY <1>1, <1>4, <2>1, McpBounds DEF CallerOK, CountInv, Asking
<1>5. QED
  BY <1>2, <1>3, <1>4 DEF CallerOK

LEMMA ClientCounts ==
  ASSUME McpTypeOK, CountInv, SentInv, McpNext
  PROVE  CallerOK' /\ CountInv'
<1>1. CallerOK
  BY DEF McpTypeOK, CallerOK
<1>2. CASE Begin
  <2>1. /\ pc = "start" /\ pc' = "check" /\ UNCHANGED <<stage, outcome, version, called>>
        /\ nextId' = IF stage = "notify" THEN nextId ELSE nextId + 1
        /\ stage = "call" => called < Calls
    BY <1>2 DEF Begin
  <2>2. nextId <= Versions + Calls + 1 \/ stage = "notify"
    BY <1>1, <2>1, McpBounds DEF CallerOK, CountInv
  <2>3. CallerOK'
    BY <1>1, <2>1, <2>2, McpBounds DEF CallerOK
  <2>4. CountInv'
    BY <1>1, <2>1 DEF CallerOK, CountInv, Asking
  <2>5. QED
    BY <2>3, <2>4
<1>3. CASE SendChecks
  <2>1. CASE McpError
    BY <1>1, <1>3, <2>1, ErrorStep DEF SendChecks, Asking
  <2>2. CASE ~McpError
    BY <1>1, <1>3, <2>2 DEF SendChecks, CallerOK, CountInv, Asking
  <2>3. QED
    BY <2>1, <2>2
<1>4. CASE SendWrites
  BY <1>1, <1>4 DEF SendWrites, CallerOK, CountInv, Asking
<1>5. CASE SendBreaks
  BY <1>1, <1>5, RaiseStep DEF SendBreaks
<1>6. CASE ReadSkips
  BY <1>1, <1>6 DEF ReadSkips, ReadLine, CallerOK, CountInv, Asking
<1>7. CASE ReadChokes
  BY <1>1, <1>7, RaiseStep DEF ReadChokes, ReadLine
<1>8. CASE ReadReply
  <2>1. Asking /\ stage # "notify" /\ nextId' = nextId
    BY <1>8 DEF ReadReply, ReadLine, Asking, SentInv
  <2>2. McpError \/ Result \/ Raise("AttributeError")
    BY <1>8 DEF ReadReply, ResultMisfits
  <2>3. QED
    BY <1>1, <2>1, <2>2, ErrorStep, ResultStep, RaiseStep
<1>9. CASE ReadEof
  BY <1>1, <1>9, ErrorStep DEF ReadEof, Asking
<1>10. CASE Return
  BY <1>1, <1>10, RaiseStep DEF Return
<1>11. CASE CloseClient
  BY <1>1, <1>11 DEF CloseClient, CallerOK, CountInv, Asking
<1>12. CASE Drain \/ ServerWorks \/ ServerChatters \/ ServerClosesStdout \/ ServerExits
              \/ ServerForks \/ PipesReleased
  <2>1. UNCHANGED clientVars
    BY <1>12 DEF Drain, ServerWorks, ServerReads, ServerLogs, ServerAnswers, ServerChatters,
                 ServerClosesStdout, ServerExits, ServerForks, PipesReleased, PrintLine
  <2>2. QED
    BY <1>1, <2>1 DEF clientVars, CallerOK, CountInv, Asking
<1>13. QED
  BY ONLY McpNext, <1>2, <1>3, <1>4, <1>5, <1>6, <1>7, <1>8, <1>9, <1>10, <1>11, <1>12
  DEF McpNext, ClientStep
PipesOK ==
  /\ toServer \in Seq(Requests) /\ fromServer \in Seq(Lines) /\ extra \in Nat
  /\ received \subseteq Requests /\ unanswered \subseteq received
  /\ serverUp \in BOOLEAN /\ stdoutOpen \in BOOLEAN /\ held \in BOOLEAN
  /\ toLog \in Nat /\ stderrPipe \in 0..PipeCap

PipesSame == UNCHANGED <<toServer, fromServer, received, taken>>

(* Most steps leave alone what was written, read, printed and taken.       *)
LEMMA SameSteps ==
  ASSUME McpTypeOK,
         \/ Begin \/ SendChecks \/ SendBreaks \/ ReadEof \/ Return \/ CloseClient \/ Drain
         \/ ServerLogs \/ ServerClosesStdout \/ ServerExits \/ ServerForks \/ PipesReleased
  PROVE  PipesSame /\ PipesOK'
<1>1. PipesOK
  BY DEF McpTypeOK, PipesOK
<1>2. CASE Begin \/ SendChecks \/ SendBreaks \/ ReadEof \/ Return
  BY <1>1, <1>2 DEF Begin, SendChecks, SendBreaks, ReadEof, Return, serverVars, pipeVars,
                    PipesSame, PipesOK
<1>3. CASE CloseClient \/ ServerClosesStdout \/ ServerExits \/ ServerForks \/ PipesReleased
  BY <1>1, <1>3 DEF CloseClient, ServerClosesStdout, ServerExits, ServerForks,
                    PipesReleased, clientVars, pipeVars,
                    PipesSame, PipesOK
<1>4. CASE Drain \/ ServerLogs
  BY <1>1, <1>4, McpBounds DEF Drain, ServerLogs, clientVars, serverVars, PipesSame, PipesOK
<1>5. QED
  BY <1>2, <1>3, <1>4

LEMMA WriteStep ==
  ASSUME BaseInv, SendWrites
  PROVE  /\ PipesOK' /\ UNCHANGED <<fromServer, received, taken, nextId>>
         /\ \/ stage = "notify" /\ toServer' = toServer /\ pc' = "start"
            \/ /\ stage # "notify" /\ pc' = "read" /\ stage' = stage
               /\ Elems(toServer') = Elems(toServer) \cup {[id |-> Want, method |-> Method]}
<1>1. PipesOK /\ pc = "write"
  BY DEF BaseInv, McpTypeOK, PipesOK, SendWrites
<1>2. UNCHANGED <<taken, nextId, serverVars, fromServer, extra, stderrPipe>>
  BY DEF SendWrites
<1>3. CASE stage = "notify"
  BY <1>1, <1>2, <1>3 DEF SendWrites, serverVars, PipesOK
<1>4. CASE stage # "notify"
  <2>1. Want \in Ids /\ Method \in Methods
    BY <1>1, <1>4, WantIsId DEF BaseInv, Asking
  <2>2. [id |-> Want, method |-> Method] \in Requests
    BY <2>1 DEF Requests
  <2>3. /\ toServer' = Append(toServer, [id |-> Want, method |-> Method])
        /\ pc' = "read" /\ stage' = stage
    BY <1>4 DEF SendWrites
  <2>4. /\ toServer' \in Seq(Requests)
        /\ Elems(toServer') = Elems(toServer) \cup {[id |-> Want, method |-> Method]}
    BY <1>1, <2>2, <2>3, Appended DEF PipesOK
  <2>5. QED
    BY <1>1, <1>2, <1>4, <2>3, <2>4 DEF serverVars, PipesOK
<1>5. QED
  BY <1>3, <1>4

LEMMA ReadStep ==
  ASSUME McpTypeOK, ReadLine
  PROVE  /\ PipesOK' /\ UNCHANGED <<toServer, received, nextId>>
         /\ Elems(fromServer') \subseteq Elems(fromServer)
<1>1. PipesOK
  BY DEF McpTypeOK, PipesOK
<1>2. fromServer' \in Seq(Lines) /\ Elems(fromServer') \subseteq Elems(fromServer)
  BY LineRead
<1>3. UNCHANGED <<nextId, serverVars, toServer, extra, stderrPipe>>
  BY DEF ReadLine
<1>4. QED
  BY <1>1, <1>2, <1>3 DEF PipesOK, serverVars

LEMMA ServerReadStep ==
  ASSUME McpTypeOK, ServerReads
  PROVE  /\ PipesOK' /\ UNCHANGED <<clientVars, fromServer>>
         /\ Sent' \subseteq Sent /\ received \subseteq received' /\ Sent \subseteq Sent'
<1>1. PipesOK
  BY DEF McpTypeOK, PipesOK
<1>2. /\ toServer # <<>> /\ toServer' = Tail(toServer)
      /\ received' = received \cup {Head(toServer)}
      /\ unanswered' = unanswered \cup {Head(toServer)}
      /\ toLog' = toLog + LogLines
      /\ UNCHANGED <<clientVars, serverUp, stdoutOpen, held, fromServer, extra, stderrPipe>>
  BY DEF ServerReads
<1>3. /\ Head(toServer) \in Requests /\ Head(toServer) \in Elems(toServer)
      /\ toServer' \in Seq(Requests) /\ Elems(toServer') \subseteq Elems(toServer)
  BY <1>1, <1>2, HeadTail DEF PipesOK
<1>4. Elems(toServer) \subseteq Elems(toServer') \cup {Head(toServer)}
  <2>1. ASSUME NEW i \in 1..Len(toServer), i # 1
        PROVE  toServer[i] \in Elems(toServer')
    <3>1. Len(toServer) \in Nat /\ Len(toServer') = Len(toServer) - 1 /\ toServer'[i - 1] = toServer[i]
      BY <1>1, <1>2, <2>1 DEF PipesOK
    <3>2. i - 1 \in 1..Len(toServer')
      BY <2>1, <3>1
    <3>3. QED
      BY <3>1, <3>2 DEF Elems
  <2>2. toServer[1] = Head(toServer)
    BY <1>1, <1>2 DEF PipesOK
  <2>3. QED
    BY <2>1, <2>2 DEF Elems
<1>5. PipesOK'
  BY <1>1, <1>2, <1>3, McpBounds DEF PipesOK
<1>6. QED
  BY <1>2, <1>3, <1>4, <1>5 DEF Sent

(* A line that may be printed.                                             *)
Sayable(line) ==
  /\ line.kind \in {"result", "error"} =>
       \E r \in received : r.id = line.id /\ r.method = line.method
  /\ line.kind = "ask" => line.id \in AskIds

LEMMA PrintStep ==
  ASSUME McpTypeOK, SaidInv, NEW line \in Lines, Sayable(line), PrintLine(line),
         unanswered' \subseteq unanswered, extra' \in Nat
  PROVE  /\ PipesOK' /\ SaidInv' /\ UNCHANGED <<clientVars, toServer, received>>
<1>1. PipesOK
  BY DEF McpTypeOK, PipesOK
<1>2. /\ fromServer' = Append(fromServer, line)
      /\ UNCHANGED <<clientVars, received, serverUp, stdoutOpen, held, toLog, toServer, stderrPipe>>
  BY DEF PrintLine
<1>3. fromServer' \in Seq(Lines) /\ Elems(fromServer') = Elems(fromServer) \cup {line}
  BY <1>1, <1>2, Appended DEF PipesOK
<1>4. PipesOK'
  BY <1>1, <1>2, <1>3 DEF PipesOK
<1>5. SaidInv'
  BY <1>2, <1>3 DEF SaidInv, Sayable
<1>6. QED
  BY <1>2, <1>4, <1>5

LEMMA SpeakStep ==
  ASSUME McpTypeOK, SaidInv, (\E r \in Requests : ServerAnswers(r)) \/ ServerChatters
  PROVE  PipesOK' /\ SaidInv' /\ UNCHANGED <<clientVars, toServer, received>>
<1>1. received \subseteq Requests /\ unanswered \subseteq received /\ extra \in Nat
  BY DEF McpTypeOK
<1>2. ASSUME NEW r \in received, NEW kind \in {"result", "error"}
      PROVE  LET line == [kind |-> kind, id |-> r.id, method |-> r.method]
             IN  line \in Lines /\ Sayable(line)
  BY <1>1, <1>2 DEF Requests, Lines, Sayable
<1>3. ASSUME NEW r \in Requests, ServerAnswers(r)
      PROVE  PipesOK' /\ SaidInv' /\ UNCHANGED <<clientVars, toServer, received>>
  <2>1. r \in received /\ unanswered' \subseteq unanswered /\ extra' \in Nat
    BY <1>1, <1>3 DEF ServerAnswers
  <2>2. PICK kind \in {"result", "error"} :
          PrintLine([kind |-> kind, id |-> r.id, method |-> r.method])
    BY <1>3 DEF ServerAnswers
  <2>3. QED
    BY <1>2, <2>1, <2>2, PrintStep
<1>4. CASE ServerChatters
  <2>1. unanswered' = unanswered /\ extra' \in Nat
    BY <1>1, <1>4 DEF ServerChatters
  <2>2. ASSUME NEW r \in received, PrintLine([kind |-> "result", id |-> r.id, method |-> r.method])
        PROVE  PipesOK' /\ SaidInv' /\ UNCHANGED <<clientVars, toServer, received>>
    BY <1>2, <2>1, <2>2, PrintStep
  <2>3. ASSUME NEW id \in AskIds, PrintLine([kind |-> "ask", id |-> id, method |-> "none"])
        PROVE  PipesOK' /\ SaidInv' /\ UNCHANGED <<clientVars, toServer, received>>
    <3>1. LET line == [kind |-> "ask", id |-> id, method |-> "none"]
          IN  line \in Lines /\ Sayable(line)
      BY McpBounds DEF Lines, Sayable
    <3>2. QED
      BY <2>1, <2>3, <3>1, PrintStep
  <2>4. ASSUME NEW kind \in {"note", "noise", "scalar"},
               PrintLine([kind |-> kind, id |-> 0, method |-> "none"])
        PROVE  PipesOK' /\ SaidInv' /\ UNCHANGED <<clientVars, toServer, received>>
    <3>1. LET line == [kind |-> kind, id |-> 0, method |-> "none"]
          IN  line \in Lines /\ Sayable(line)
      BY DEF Lines, Sayable
    <3>2. QED
      BY <2>1, <2>4, <3>1, PrintStep
  <2>5. QED
    BY <1>4, <2>2, <2>3, <2>4 DEF ServerChatters
<1>5. QED
  BY <1>3, <1>4
-----------------------------------------------------------------------------
TakenOK == taken \subseteq [id : Ids, method : Methods, line : Lines]

LEMMA TypeParts == McpTypeOK <=> CallerOK /\ PipesOK /\ TakenOK
BY DEF McpTypeOK, CallerOK, PipesOK, TakenOK

(* Where the client is after a step that only returns or raises.           *)
LEMMA Moves ==
  ASSUME BaseInv
  PROVE  /\ ReadReply => pc' \in {"start", "done"}
         /\ ReadEof => pc' \in {"start", "done"} /\ stage' = stage
         /\ SendChecks => stage' = stage /\ pc' \in {"write", "start", "done"}
<1>1. CallerOK /\ CountInv
  BY TypeParts DEF BaseInv
<1>2. CASE ReadReply
  <2>1. Asking /\ stage # "notify" /\ nextId' = nextId /\ pc = "read"
    BY <1>2 DEF ReadReply, ReadLine, Asking, BaseInv, SentInv
  <2>2. (McpError \/ Result \/ Raise("AttributeError")) /\ ~ReadEof /\ ~SendChecks
    BY <1>2, <2>1 DEF ReadReply, ReadEof, ReadLine, SendChecks, ResultMisfits
  <2>3. QED
    BY <1>1, <2>1, <2>2, ErrorStep, ResultStep, RaiseStep
<1>3. CASE ReadEof
  <2>1. ~ReadReply /\ ~SendChecks /\ Asking /\ nextId' = nextId /\ McpError
    BY <1>3 DEF ReadReply, ReadEof, ReadLine, SendChecks, Asking
  <2>2. QED
    BY <1>1, <2>1, ErrorStep
<1>4. CASE SendChecks
  <2>1. ~ReadReply /\ ~ReadEof /\ Asking /\ nextId' = nextId
    BY <1>4 DEF ReadReply, ReadEof, ReadLine, SendChecks, Asking
  <2>2. CASE McpError
    BY <1>1, <2>1, <2>2, ErrorStep
  <2>3. CASE ~McpError
    BY <1>4, <2>1, <2>3 DEF SendChecks
  <2>4. QED
    BY <2>2, <2>3
<1>5. QED
  BY <1>2, <1>3, <1>4

LEMMA SentStep ==
  ASSUME BaseInv, McpNext
  PROVE  SentInv'
<1>1. /\ McpTypeOK /\ SentInv /\ SaidInv /\ CallerOK
      /\ \A r \in Sent : r.id \in Int
  <2>1. McpTypeOK /\ SentInv /\ SaidInv /\ CallerOK /\ PipesOK
    BY TypeParts DEF BaseInv
  <2>2. Sent \subseteq Requests
    BY <2>1 DEF PipesOK, Sent, Elems
  <2>3. QED
    BY <2>1, <2>2, McpBounds DEF Requests, Ids
<1>2. CASE Begin
  <2>1. /\ Sent' = Sent /\ pc' = "check" /\ stage' = stage
        /\ nextId' = IF stage = "notify" THEN nextId ELSE nextId + 1
    BY <1>1, <1>2, SameSteps DEF Begin, Sent, PipesSame, Elems
  <2>2. QED
    BY <1>1, <2>1 DEF SentInv, Want, CallerOK
<1>3. CASE SendChecks
  <2>1. Sent' = Sent /\ stage' = stage /\ pc' \in {"write", "start", "done"} /\ nextId' = nextId
        /\ pc = "check"
    BY <1>1, <1>3, Moves, SameSteps DEF SendChecks, Sent, PipesSame, Elems
  <2>2. QED
    BY <1>1, <2>1 DEF SentInv, Want
<1>4. CASE SendWrites
  <2>1. CASE stage = "notify"
    <3>1. Sent' = Sent /\ nextId' = nextId /\ pc' = "start"
      BY <1>4, <2>1, WriteStep DEF Sent, Elems
    <3>2. QED
      BY <1>1, <3>1 DEF SentInv
  <2>2. CASE stage # "notify"
    <3>1. /\ Sent' = Sent \cup {[id |-> Want, method |-> Method]}
          /\ nextId' = nextId /\ stage' = stage /\ pc' = "read"
      BY <1>4, <2>2, WriteStep DEF Sent
    <3>2. \A r \in Sent : r.id < Want
      BY <1>1, <1>4, <2>2 DEF SentInv, SendWrites
    <3>3. Want < nextId /\ Want' = Want /\ Method' = Method /\ Want \in Int
      BY <1>1, <3>1 DEF Want, Method, CallerOK
    <3>4. \A r \in Sent' : r.id < nextId'
      BY <1>1, <3>1, <3>2, <3>3 DEF SentInv
    <3>5. \A r, s \in Sent' : r.id = s.id => r.method = s.method
      <4>1. \A r \in Sent : r.id # Want
        BY <1>1, <3>2, <3>3
      <4>2. QED
        BY <1>1, <3>1, <4>1 DEF SentInv
    <3>6. \E r \in Sent' : r.id = Want' /\ r.method = Method'
      <4> DEFINE new == [id |-> Want, method |-> Method]
      <4>1. new \in Sent' /\ new.id = Want /\ new.method = Method
        BY <3>1
      <4> HIDE DEF new
      <4>2. QED
        BY <3>3, <4>1
    <3>7. QED
      BY <2>2, <3>1, <3>4, <3>5, <3>6 DEF SentInv
  <2>3. QED
    BY <2>1, <2>2
<1>5. CASE ReadSkips \/ ReadChokes \/ ReadReply
  <2>1. ReadLine
    BY <1>5 DEF ReadSkips, ReadChokes, ReadReply
  <2>2. Sent' = Sent /\ nextId' = nextId
    BY <1>1, <2>1, ReadStep DEF Sent, Elems
  <2>3. pc' \in {"start", "done"} \/ (UNCHANGED <<pc, stage>>)
    BY <1>5, Moves DEF ReadSkips, ReadChokes, Raise
  <2>4. QED
    BY <1>1, <2>2, <2>3 DEF SentInv, Want, Method
<1>6. CASE SendBreaks \/ ReadEof \/ Return \/ CloseClient
  <2>1. Sent' = Sent /\ nextId' = nextId
    BY <1>1, <1>6, SameSteps DEF SendBreaks, ReadEof, Return, CloseClient, Sent, PipesSame, Elems
  <2>2. pc' \in {"start", "done", "closed"}
    BY <1>6, Moves DEF SendBreaks, Return, CloseClient, Raise
  <2>3. QED
    BY <1>1, <2>1, <2>2 DEF SentInv
<1>7. CASE Drain \/ ServerLogs \/ ServerClosesStdout \/ ServerExits \/ ServerForks \/ PipesReleased
  <2>1. Sent' = Sent
    BY <1>1, <1>7, SameSteps DEF Sent, PipesSame, Elems
  <2>2. UNCHANGED clientVars
    BY <1>7 DEF Drain, ServerLogs, ServerClosesStdout, ServerExits, ServerForks, PipesReleased
  <2>3. QED
    BY <1>1, <2>1, <2>2 DEF SentInv, Want, Method, clientVars
<1>8. CASE ServerReads
  <2>1. Sent' = Sent /\ UNCHANGED clientVars
    BY <1>1, <1>8, ServerReadStep
  <2>2. QED
    BY <1>1, <2>1 DEF SentInv, Want, Method, clientVars
<1>9. CASE (\E r \in Requests : ServerAnswers(r)) \/ ServerChatters
  <2>1. Sent' = Sent /\ UNCHANGED clientVars
    BY <1>1, <1>9, SpeakStep DEF Sent, Elems
  <2>2. QED
    BY <1>1, <2>1 DEF SentInv, Want, Method, clientVars
<1>10. QED
  BY ONLY McpNext, <1>2, <1>3, <1>4, <1>5, <1>6, <1>7, <1>8, <1>9
  DEF McpNext, ClientStep, ServerWorks

LEMMA PipesStep ==
  ASSUME BaseInv, McpNext
  PROVE  PipesOK' /\ SaidInv'
<1>1. McpTypeOK /\ SaidInv
  BY DEF BaseInv
<1>2. CASE SendWrites
  BY <1>1, <1>2, WriteStep DEF SaidInv, Elems
<1>3. CASE ReadSkips \/ ReadChokes \/ ReadReply
  <2>1. ReadLine
    BY <1>3 DEF ReadSkips, ReadChokes, ReadReply
  <2>2. QED
    BY <1>1, <2>1, ReadStep DEF SaidInv
<1>4. CASE ServerReads
  <2>1. PipesOK' /\ received \subseteq received' /\ fromServer' = fromServer
    BY <1>1, <1>4, ServerReadStep
  <2>2. QED
    BY <1>1, <2>1 DEF SaidInv, Elems
<1>5. CASE (\E r \in Requests : ServerAnswers(r)) \/ ServerChatters
  BY <1>1, <1>5, SpeakStep
<1>6. CASE \/ Begin \/ SendChecks \/ SendBreaks \/ ReadEof \/ Return \/ CloseClient \/ Drain
           \/ ServerLogs \/ ServerClosesStdout \/ ServerExits \/ ServerForks \/ PipesReleased
  BY <1>1, <1>6, SameSteps DEF PipesSame, SaidInv, Elems
<1>7. QED
  BY ONLY McpNext, <1>2, <1>3, <1>4, <1>5, <1>6 DEF McpNext, ClientStep, ServerWorks

(* Only a reply is remembered, and only a notification moves the handshake *)
(* on without one.                                                         *)
LEMMA TakenStep ==
  ASSUME BaseInv, McpNext
  PROVE  /\ TakenOK'
         /\ ~ReadReply => taken' = taken /\ (stage' = stage \/ (stage = "notify" /\ stage' = "list"))
<1>1. McpTypeOK /\ TakenOK
  BY TypeParts DEF BaseInv
<1>2. CASE ReadReply
  <2>1. Line \in Lines
    BY <1>1, <1>2, LineRead DEF ReadReply
  <2>2. pc = "read" /\ Want \in Ids /\ Method \in Methods
    BY <1>2, WantIsId DEF BaseInv, SentInv, ReadReply, ReadLine, Asking
  <2>3. taken' = taken \cup {[id |-> Want, method |-> Method, line |-> Line]}
    BY <1>2 DEF ReadReply
  <2>4. QED
    BY <1>1, <1>2, <2>1, <2>2, <2>3 DEF TakenOK
<1>3. CASE ~ReadReply
  <2>1. taken' = taken /\ (stage' = stage \/ (stage = "notify" /\ stage' = "list"))
    <3>1. CASE Begin \/ SendWrites
      BY <3>1 DEF Begin, SendWrites
    <3>2. CASE SendChecks \/ ReadEof
      BY <3>2, Moves DEF SendChecks, ReadEof
    <3>3. CASE SendBreaks \/ ReadSkips \/ ReadChokes \/ Return \/ CloseClient
      BY <3>3 DEF SendBreaks, ReadSkips, ReadChokes, Return, CloseClient, Raise
    <3>4. CASE Drain \/ ServerLogs \/ ServerClosesStdout \/ ServerExits \/ ServerForks
                    \/ PipesReleased \/ ServerReads
      BY <3>4 DEF Drain, ServerLogs, ServerClosesStdout, ServerExits,
                  ServerForks, PipesReleased, ServerReads, clientVars
    <3>5. CASE (\E r \in Requests : ServerAnswers(r)) \/ ServerChatters
      BY <1>1, <3>5, SpeakStep DEF clientVars, BaseInv
    <3>6. QED
      BY ONLY McpNext, <1>3, <3>1, <3>2, <3>3, <3>4, <3>5 DEF McpNext, ClientStep, ServerWorks
  <2>2. QED
    BY <1>1, <1>3, <2>1 DEF TakenOK
<1>4. QED
  BY <1>2, <1>3

(* The types, the ids and the pipes hold against any server.               *)
LEMMA BaseInductive == McpSpec => []BaseInv
<1>1. McpInit => BaseInv
  <2>1. McpInit => CallerOK /\ PipesOK /\ TakenOK
    <3>1. McpInit => CallerOK /\ TakenOK
      BY McpBounds DEF McpInit, CallerOK, TakenOK
    <3>2. McpInit => /\ toServer = <<>> /\ fromServer = <<>> /\ extra = 0
                     /\ received = {} /\ unanswered = {} /\ toLog = 0 /\ stderrPipe = 0
      BY DEF McpInit
    <3>3. McpInit => serverUp \in BOOLEAN /\ stdoutOpen \in BOOLEAN /\ held \in BOOLEAN
      BY DEF McpInit
    <3>4. McpInit => PipesOK
      BY ONLY <3>2, <3>3, McpBounds DEF PipesOK
    <3>5. QED
      BY <3>1, <3>4
  <2>2. McpInit => CountInv /\ SentInv /\ SaidInv
    BY DEF McpInit, CountInv, Asking, SentInv, Sent, Elems, SaidInv
  <2>3. QED
    BY <2>1, <2>2, TypeParts DEF BaseInv
<1>2. BaseInv /\ [McpNext]_mcpVars => BaseInv'
  <2>1. ASSUME BaseInv, McpNext PROVE BaseInv'
    <3>1. CallerOK' /\ CountInv'
      BY <2>1, ClientCounts DEF BaseInv
    <3>2. PipesOK' /\ SaidInv' /\ SentInv' /\ TakenOK'
      BY <2>1, PipesStep, SentStep, TakenStep
    <3>3. McpTypeOK'
      BY <3>1, <3>2 DEF McpTypeOK, CallerOK, PipesOK, TakenOK
    <3>4. QED
      BY <3>1, <3>2, <3>3 DEF BaseInv
  <2>2. ASSUME BaseInv, UNCHANGED mcpVars PROVE BaseInv'
    BY <2>2 DEF mcpVars, clientVars, serverVars, pipeVars, BaseInv, McpTypeOK, CountInv, Asking,
                SentInv, Sent, Elems, Want, Method, SaidInv
  <2>3. QED
    BY <2>1, <2>2
<1>3. QED
  BY <1>1, <1>2, PTL DEF McpSpec

HistoryInv == TakenOK /\ RepliesMatch /\ LearnedInv

LEMMA HistoryStep ==
  ASSUME McpInv, McpNext, AskIds \cap Ids = {}
  PROVE  HistoryInv'
<1>1. HistoryInv /\ McpTypeOK /\ CallerOK
  BY TypeParts DEF McpInv, BaseInv, HistoryInv
<1>2. CASE ReadReply
  <2>1. /\ Line \in Lines /\ Line.kind \in {"result", "error"}
        /\ Line.id = Want /\ Line.method = Method /\ Want \in Ids /\ Method \in Methods
    BY <1>2, ReplyIsOurs DEF McpInv
  <2>2. taken' = taken \cup {[id |-> Want, method |-> Method, line |-> Line]}
    BY <1>2 DEF ReadReply
  <2>3. TakenOK' /\ RepliesMatch'
    BY <1>1, <2>1, <2>2 DEF HistoryInv, TakenOK, RepliesMatch
  <2>4. \A method \in Methods : Completed(method) => Completed(method)'
    BY <2>2 DEF Completed
  <2>5. CASE Line.kind = "error"
    <3>1. McpError
      BY <1>2, <2>5 DEF ReadReply
    <3>2. stage' = stage
      BY <3>1 DEF McpError, Raise
    <3>3. LearnedInv'
      BY <1>1, <2>4, <3>2 DEF HistoryInv, LearnedInv, Methods
    <3>4. QED
      BY <2>3, <3>3 DEF HistoryInv
  <2>8. CASE Raise("AttributeError")
    <3>1. stage' = stage
      BY <2>8 DEF Raise
    <3>2. LearnedInv'
      BY <1>1, <2>4, <3>1 DEF HistoryInv, LearnedInv, Methods
    <3>3. QED
      BY <2>3, <3>2 DEF HistoryInv
  <2>6. CASE Line.kind = "result" /\ Result
    <3>1. \E t \in taken' : t.method = Method /\ t.line.kind = "result" /\ t.line.method = Method
      <4> DEFINE new == [id |-> Want, method |-> Method, line |-> Line]
      <4>1. new \in taken' /\ new.method = Method /\ new.line = Line
        BY <2>2
      <4> HIDE DEF new
      <4>2. QED
        BY <2>1, <2>6, <4>1
    <3>2. stage' = CASE stage = "initialize" -> "notify" [] stage = "list" -> "call" [] OTHER -> stage
      BY <2>6 DEF Result
    <3>3. CASE stage = "initialize"
      <4>1. Method = "initialize" /\ stage' = "notify"
        BY <3>2, <3>3 DEF Method
      <4>2. Completed("initialize")'
        BY <3>1, <4>1 DEF Completed
      <4>3. QED
        BY <2>3, <4>1, <4>2 DEF HistoryInv, LearnedInv
    <3>4. CASE stage = "list"
      <4>1. Method = "tools/list" /\ stage' = "call"
        BY <3>2, <3>4 DEF Method
      <4>2. Completed("tools/list")'
        BY <3>1, <4>1 DEF Completed
      <4>3. Completed("initialize")'
        BY <1>1, <2>4, <3>4 DEF HistoryInv, LearnedInv, Methods
      <4>4. QED
        BY <2>3, <4>1, <4>2, <4>3 DEF HistoryInv, LearnedInv
    <3>5. CASE stage \notin {"initialize", "list"}
      BY <1>1, <2>3, <2>4, <3>2, <3>5 DEF HistoryInv, LearnedInv, Methods
    <3>6. QED
      BY <3>3, <3>4, <3>5
  <2>7. QED
    BY <1>2, <2>1, <2>5, <2>6, <2>8 DEF ReadReply, ResultMisfits
<1>3. CASE ~ReadReply
  <2>1. taken' = taken /\ (stage' = stage \/ (stage = "notify" /\ stage' = "list"))
    BY <1>3, TakenStep DEF McpInv
  <2>2. QED
    BY <1>1, <2>1 DEF HistoryInv, TakenOK, RepliesMatch, LearnedInv, Completed
<1>4. QED
  BY <1>2, <1>3

LEMMA McpInductive ==
  ASSUME AskIds \cap Ids = {}
  PROVE  McpSpec => []McpInv
<1>1. McpInit => RepliesMatch /\ LearnedInv
  BY DEF McpInit, RepliesMatch, LearnedInv
<1>2. BaseInv /\ RepliesMatch /\ LearnedInv /\ [McpNext]_mcpVars => (RepliesMatch /\ LearnedInv)'
  <2>1. ASSUME McpInv, McpNext PROVE (RepliesMatch /\ LearnedInv)'
    BY <2>1, HistoryStep DEF HistoryInv
  <2>2. ASSUME RepliesMatch, LearnedInv, UNCHANGED mcpVars PROVE (RepliesMatch /\ LearnedInv)'
    BY <2>2 DEF mcpVars, clientVars, RepliesMatch, LearnedInv, Completed
  <2>3. QED
    BY <2>1, <2>2 DEF McpInv
<1>3. McpSpec => [](RepliesMatch /\ LearnedInv)
  BY <1>1, <1>2, BaseInductive, PTL DEF McpSpec
<1>4. BaseInv /\ RepliesMatch /\ LearnedInv => McpInv
  BY DEF McpInv
<1>5. QED
  BY <1>3, <1>4, BaseInductive, PTL

(* mcpclient.py:116: however late, repeated or mixed up the lines of the   *)
(* server are, the reply taken for a request is the reply to it.           *)
THEOREM RepliesAreOurs ==
  ASSUME AskIds \cap Ids = {}
  PROVE  McpSpec => []RepliesMatch
<1>1. McpInv => RepliesMatch
  BY DEF McpInv
<1>2. QED
  BY <1>1, McpInductive, PTL

(* mcpclient.py:15: no tool is called unless the server has completed an   *)
(* initialize and listed its tools.                                        *)
THEOREM NoToolsWithoutHandshake ==
  ASSUME AskIds \cap Ids = {}
  PROVE  McpSpec => []ToolsAreLearned
<1>1. McpInv => ToolsAreLearned
  BY DEF McpInv, LearnedInv, ToolsAreLearned
<1>2. QED
  BY <1>1, McpInductive, PTL

(* The state is well typed, against any server; ids stay within one per    *)
(* version, list and call.                                                 *)
THEOREM McpTypeCorrect == McpSpec => []McpTypeOK
<1>1. BaseInv => McpTypeOK
  BY DEF BaseInv
<1>2. QED
  BY <1>1, BaseInductive, PTL
-----------------------------------------------------------------------------
(* Why a handshake fails.                                                  *)
Refused == {t \in taken : t.line.kind = "error"}
Gone == ~serverUp \/ ~stdoutOpen

(* Every reply has an id of its own, so the refusals can be counted: while *)
(* the server is there, one for each version tried before this one.        *)
RefusedInv ==
  /\ IsFiniteSet(taken)
  /\ \A t \in taken : t.id < nextId
  /\ Asking /\ stage # "notify" => \A t \in taken : t.id < Want
  /\ outcome # "running" => pc \in {"done", "closed"}
  /\ stage = "initialize" /\ outcome = "running" => Gone \/ Cardinality(Refused) = version - 1
  /\ outcome = "HandshakeError" => Gone \/ Cardinality(Refused) = Versions

LEMMA GoneStays ==
  ASSUME McpNext, Gone
  PROVE  Gone'
<1>1. CASE ClientStep
  BY <1>1 DEF ClientStep, Begin, SendChecks, SendWrites, SendBreaks, ReadSkips, ReadChokes, ReadReply,
              ReadLine, ReadEof, Return, CloseClient, serverVars, Gone
<1>2. CASE Drain \/ ServerReads \/ ServerLogs \/ ServerClosesStdout \/ ServerExits
             \/ ServerForks \/ PipesReleased
  BY <1>2 DEF Drain, ServerReads, ServerLogs, ServerClosesStdout, ServerExits,
              ServerForks, PipesReleased, serverVars, Gone
<1>3. CASE (\E r \in Requests : ServerAnswers(r)) \/ ServerChatters
  BY <1>3 DEF ServerAnswers, ServerChatters, PrintLine, Gone
<1>4. QED
  BY <1>1, <1>2, <1>3 DEF McpNext, ServerWorks

(* A refusal under a new id is one more.                                   *)
LEMMA OneMore ==
  ASSUME IsFiniteSet(taken), NEW t, \A u \in taken : u.id # t.id, taken' = taken \cup {t}
  PROVE  /\ IsFiniteSet(taken')
         /\ Cardinality(Refused) \in Nat
         /\ t.line.kind = "error" => Cardinality(Refused') = Cardinality(Refused) + 1
<1>1. t \notin taken
  OBVIOUS
<1>2. IsFiniteSet(taken') /\ IsFiniteSet(Refused)
  BY FS_AddElement, FS_Subset DEF Refused
<1>3. Cardinality(Refused) \in Nat
  BY <1>2, FS_CardinalityType
<1>4. ASSUME t.line.kind = "error" PROVE Cardinality(Refused') = Cardinality(Refused) + 1
  <2>1. Refused' = Refused \cup {t} /\ t \notin Refused
    BY <1>1, <1>4 DEF Refused
  <2>2. QED
    BY <1>2, <2>1, FS_AddElement
<1>5. QED
  BY <1>2, <1>3, <1>4

LEMMA RefusedStep ==
  ASSUME BaseInv, RefusedInv, McpNext
  PROVE  RefusedInv'
<1>1. /\ CallerOK /\ SentInv /\ TakenOK /\ (Gone => Gone')
      /\ ~ReadReply => taken' = taken /\ Refused' = Refused
      /\ \A t \in taken : t.id \in Int
  <2>1. CallerOK /\ SentInv /\ TakenOK
    BY TypeParts DEF BaseInv
  <2>2. \A t \in taken : t.id \in Int
    BY <2>1, McpBounds DEF TakenOK, Ids
  <2>3. QED
    BY <2>1, <2>2, GoneStays, TakenStep DEF Refused
<1>2. CASE Begin
  <2>1. /\ ~ReadReply /\ pc' = "check" /\ UNCHANGED <<stage, outcome, version>> /\ outcome = "running"
        /\ nextId' = IF stage = "notify" THEN nextId ELSE nextId + 1
    BY <1>2 DEF Begin, ReadReply, ReadLine, RefusedInv
  <2>2. QED
    BY <1>1, <2>1 DEF RefusedInv, Want, CallerOK
<1>3. CASE SendChecks
  <2>1. ~ReadReply /\ nextId' = nextId /\ outcome = "running" /\ pc = "check"
    BY <1>3 DEF SendChecks, ReadReply, ReadLine, RefusedInv
  <2>2. CASE serverUp
    <3>1. pc' = "write" /\ UNCHANGED <<stage, outcome, version>>
      BY <1>3, <2>2 DEF SendChecks
    <3>2. QED
      BY <1>1, <2>1, <3>1 DEF RefusedInv, Want, Asking
  <2>3. CASE ~serverUp
    <3>1. Gone' /\ McpError
      BY <1>1, <1>3, <2>3 DEF SendChecks, Gone
    <3>2. pc' \in {"start", "done"} /\ (outcome' # "running" => pc' = "done")
      BY <2>1, <3>1 DEF McpError, Raise
    <3>3. QED
      BY <1>1, <2>1, <3>1, <3>2 DEF RefusedInv, Asking
  <2>4. QED
    BY <2>2, <2>3
<1>4. CASE SendWrites
  <2>1. ~ReadReply /\ nextId' = nextId /\ outcome = "running" /\ UNCHANGED <<outcome, version>> /\ pc = "write"
    BY <1>4 DEF SendWrites, ReadReply, ReadLine, RefusedInv
  <2>2. \/ stage = "notify" /\ stage' = "list" /\ pc' = "start"
        \/ stage' = stage /\ stage # "notify" /\ pc' = "read"
    BY <1>4 DEF SendWrites
  <2>3. QED
    BY <1>1, <2>1, <2>2 DEF RefusedInv, Want, Asking
<1>5. CASE SendBreaks \/ ReadChokes \/ Return
  <2>1. /\ ~ReadReply /\ nextId' = nextId /\ pc' = "done" /\ stage' = stage
        /\ outcome' \in {"BrokenPipeError", "AttributeError", "returned"}
    BY <1>5 DEF SendBreaks, ReadChokes, Return, Raise, ReadReply, ReadLine, IsReply
  <2>2. QED
    BY <1>1, <2>1 DEF RefusedInv, Asking
<1>6. CASE ReadReply
  <2> DEFINE t == [id |-> Want, method |-> Method, line |-> Line]
  <2>1. /\ pc = "read" /\ stage # "notify" /\ Asking /\ nextId' = nextId /\ outcome = "running"
        /\ taken' = taken \cup {t} /\ t.id = Want /\ t.line = Line
    BY <1>1, <1>6 DEF ReadReply, ReadLine, Asking, SentInv, RefusedInv
  <2>2. Want < nextId /\ Want \in Int /\ \A u \in taken : u.id < Want
    BY <1>1, <2>1 DEF Want, CallerOK, RefusedInv
  <2> HIDE DEF t
  <2>3. \A u \in taken : u.id # t.id
    BY <1>1, <2>1, <2>2
  <2>4. /\ IsFiniteSet(taken') /\ Cardinality(Refused) \in Nat
        /\ Line.kind = "error" => Cardinality(Refused') = Cardinality(Refused) + 1
    BY <2>1, <2>3, OneMore DEF RefusedInv
  <2>5. \A u \in taken' : u.id < nextId'
    BY <2>1, <2>2 DEF RefusedInv
  <2>9. CASE Raise("AttributeError")
    <3>1. pc' = "done" /\ outcome' = "AttributeError" /\ stage' = stage
      BY <2>9 DEF Raise
    <3>2. QED
      BY <2>1, <2>4, <2>5, <3>1 DEF RefusedInv, Asking
  <2>6. CASE Line.kind # "error" /\ Result
    <3>1. Result
      BY <2>6
    <3>2. pc' = "start" /\ outcome' = outcome /\ stage' # "initialize"
      BY <1>1, <2>1, <3>1 DEF Result, CallerOK
    <3>3. QED
      BY <2>1, <2>4, <2>5, <3>2 DEF RefusedInv, Asking
  <2>7. CASE Line.kind = "error"
    <3>1. McpError
      BY <1>6, <2>7 DEF ReadReply
    <3>2. CASE stage = "initialize" /\ ~Raise("HandshakeError")
      <4>1. version' = version + 1 /\ pc' = "start" /\ UNCHANGED <<stage, outcome>>
        BY <3>1, <3>2 DEF McpError
      <4>2. Gone' \/ Cardinality(Refused') = version' - 1
        BY <1>1, <2>1, <2>4, <2>7, <3>2, <4>1 DEF RefusedInv, CallerOK
      <4>3. QED
        BY <2>1, <2>4, <2>5, <4>1, <4>2 DEF RefusedInv, Asking
    <3>3. CASE stage = "initialize" /\ Raise("HandshakeError")
      <4>1. /\ pc' = "done" /\ outcome' = "HandshakeError"
            /\ ~serverUp \/ version = Versions
        BY <3>1, <3>3 DEF McpError, Raise
      <4>2. Gone' \/ Cardinality(Refused') = Versions
        BY <1>1, <2>1, <2>4, <2>7, <3>3, <4>1 DEF RefusedInv, CallerOK, Gone
      <4>3. QED
        BY <2>1, <2>4, <2>5, <4>1, <4>2 DEF RefusedInv, Asking
    <3>4. CASE stage # "initialize"
      <4>1. /\ stage' = stage /\ pc' \in {"start", "done"} /\ outcome' # "HandshakeError"
            /\ outcome' # "running" => pc' = "done"
        BY <2>1, <3>1, <3>4 DEF McpError, Raise
      <4>2. QED
        BY <2>1, <2>4, <2>5, <3>4, <4>1 DEF RefusedInv, Asking
    <3>5. QED
      BY <3>2, <3>3, <3>4
  <2>8. QED
    BY <1>6, <2>6, <2>7, <2>9 DEF ReadReply, ResultMisfits
<1>7. CASE ReadEof
  <2>1. ~ReadReply /\ nextId' = nextId /\ outcome = "running" /\ Gone /\ McpError
    BY <1>7 DEF ReadEof, ReadReply, ReadLine, RefusedInv, Gone
  <2>2. pc' \in {"start", "done"} /\ (outcome' # "running" => pc' = "done")
    BY <2>1 DEF McpError, Raise
  <2>3. QED
    BY <1>1, <2>1, <2>2 DEF RefusedInv, Asking
<1>8. CASE CloseClient
  <2>1. ~ReadReply /\ nextId' = nextId /\ pc' = "closed" /\ Gone'
    BY <1>8 DEF CloseClient, ReadReply, ReadLine, Gone
  <2>2. QED
    BY <1>1, <2>1 DEF RefusedInv, Asking
<1>9. ASSUME UNCHANGED clientVars
      PROVE  RefusedInv'
  <2>1. taken' = taken /\ Refused' = Refused
    BY <1>9 DEF clientVars, Refused
  <2>2. QED
    BY <1>1, <1>9, <2>1 DEF RefusedInv, clientVars, Want, Asking
<1>10. CASE ReadSkips
  <2>1. ~ReadReply /\ UNCHANGED clientVars
    BY <1>10 DEF ReadSkips, ReadLine, ReadReply, clientVars
  <2>2. QED
    BY <1>9, <2>1
<1>11. CASE Drain \/ ServerWorks \/ ServerChatters \/ ServerClosesStdout \/ ServerExits
              \/ ServerForks \/ PipesReleased
  <2>1. UNCHANGED clientVars
    BY <1>11 DEF Drain, ServerWorks, ServerReads, ServerLogs, ServerAnswers, ServerChatters,
                 ServerClosesStdout, ServerExits, ServerForks, PipesReleased, PrintLine
  <2>2. QED
    BY <1>9, <2>1
<1>12. QED
  BY ONLY McpNext, <1>2, <1>3, <1>4, <1>5, <1>6, <1>7, <1>8, <1>10, <1>11 DEF McpNext, ClientStep

(* mcpclient.py:146, against any server: HandshakeError is raised when the *)
(* server is gone or has refused every version there is.                   *)
THEOREM FailedHandshakes == McpSpec => []HandshakeErrorJustified
<1>1. McpInit => RefusedInv
  <2>1. McpInit => Refused = {} /\ taken = {} /\ version - 1 = 0
    BY DEF McpInit, Refused
  <2>2. QED
    BY <2>1, FS_EmptySet DEF McpInit, RefusedInv, Asking
<1>2. BaseInv /\ RefusedInv /\ [McpNext]_mcpVars => RefusedInv'
  <2>1. ASSUME RefusedInv, UNCHANGED mcpVars PROVE RefusedInv'
    BY <2>1 DEF mcpVars, clientVars, serverVars, RefusedInv, Refused, Gone, Want, Asking
  <2>2. QED
    BY <2>1, RefusedStep
<1>3. RefusedInv => HandshakeErrorJustified
  BY DEF RefusedInv, HandshakeErrorJustified, Gone, Refused
<1>4. QED
  BY <1>1, <1>2, <1>3, BaseInductive, PTL DEF McpSpec
=============================================================================
