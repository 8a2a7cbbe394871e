---------------------------- MODULE HttpRequest -----------------------------
(***************************************************************************)
(* sealed.py, `_read_until`, `_parse_request` and `_dechunk`: one request  *)
(* read from a socket that hands out the bytes in pieces of any size.      *)
(*                                                                         *)
(* A stream is a sequence of units: "nl" is CR LF, "0" is that character,  *)
(* a size line is one unit, which may as well occur in the data.           *)
(* Sizes and limits count units, where the code counts bytes.  A piece     *)
(* that ends inside a unit satisfies none of the tests of the code, so     *)
(* pieces end between units.                                               *)
(***************************************************************************)
EXTENDS Integers, Sequences, SequencesExt

CONSTANTS
  Requests,             \* what a client sends, see RequestType
  Units,                \* what a stream consists of, see above
  Sizes,                \* what int(_, 16) makes of a size line
  ZeroAtEnd,            \* the units whose last character is "0"
  MaxHeader,            \* _MAX_HEADER_BYTES
  MaxBody               \* _MAX_BODY_BYTES

ASSUME HttpBounds == MaxHeader \in Nat /\ MaxBody \in Nat

ASSUME SizesAssumption ==
  /\ Sizes \in [DOMAIN Sizes -> Nat] /\ DOMAIN Sizes \subseteq Units \ {"nl"} /\ "nl" \in Units
  /\ "0" \in DOMAIN Sizes \cap ZeroAtEnd /\ Sizes["0"] = 0

VARIABLES
  request,              \* what the client is sending
  pos,                  \* units received so far
  phase,                \* where _parse_request is
  body,                 \* the body it returned
  cut                   \* history: the client closed before the end

httpVars == <<request, pos, phase, body, cut>>

RequestType ==
  [stream : Seq(Units),            \* the bytes, header section first
   head : {"ok", "noTarget", "badLength"},
   framing : {"chunked", "length"},
   length : Int,                    \* Content-Length; 0 when there is none
   meant : Seq(Units),             \* the body the client means to send
   chunks : Seq(Seq(Units)),       \* the parts it sends that in
   trailer : Seq(Units)]           \* header lines after the last chunk

NoBody == <<>>
Got == SubSeq(request.stream, 1, pos)

(* Units up to and including the first empty line, 0 without one.          *)
HeaderEnd(s) ==
  LET ends == {i \in 2..Len(s) : s[i] = "nl" /\ s[i - 1] = "nl"} IN
  IF ends = {} THEN 0 ELSE Min(ends)

Rest(s) == SubSeq(s, HeaderEnd(s) + 1, Len(s))

(* A chunk on the wire: its size, a line break, its data, a line break.    *)
Chunk(data) == <<CHOOSE z \in DOMAIN Sizes : Sizes[z] = Len(data), "nl">> \o data \o <<"nl">>

(* A client ends its header section and chunks a body as HTTP has it.      *)
ASSUME ClientsAssumption ==
  \A r \in Requests :
    /\ r \in RequestType /\ HeaderEnd(r.stream) # 0
    /\ r.framing = "chunked" =>
         /\ \A i \in DOMAIN r.chunks : \E z \in DOMAIN Sizes : Sizes[z] = Len(r.chunks[i]) /\ Sizes[z] # 0
         /\ Rest(r.stream) = FlattenSeq([i \in DOMAIN r.chunks |-> Chunk(r.chunks[i])])
                               \o (<<"0", "nl">> \o r.trailer \o <<"nl">>)
         /\ r.meant = FlattenSeq(r.chunks)

HttpInit ==
  /\ request \in Requests
  /\ pos = 0
  /\ phase = "head"
  /\ body = NoBody
  /\ cut = FALSE

-----------------------------------------------------------------------------
(* Not the code: any empty line ends a chunked body.                       *)
EndsWithBlank(s) == Len(s) > 1 /\ s[Len(s)] = "nl" /\ s[Len(s) - 1] = "nl"

(* Not the code: the last size line must follow another line.              *)
EndsAfterLine(s) ==
  Len(s) > 3 /\ s[Len(s) - 3] = "nl" /\ s[Len(s) - 2] = "0" /\ EndsWithBlank(s)

(* body.endswith(b"0\r\n\r\n")                                             *)
EndsChunks(s) ==
  /\ Len(s) > 2
  /\ s[Len(s)] = "nl" /\ s[Len(s) - 1] = "nl" /\ s[Len(s) - 2] \in ZeroAtEnd

(* s[from:to], whose end may lie beyond that of s.                         *)
Slice(s, from, to) == SubSeq(s, from, IF to <= Len(s) THEN to ELSE Len(s))

(* A whole line that is a size other than zero.                            *)
IsSize(s, i) ==
  /\ i <= Len(s) /\ s[i] \in DOMAIN Sizes /\ Sizes[s[i]] # 0
  /\ i < Len(s) => s[i + 1] = "nl"

(* Not the code: the line break after the data is kept.                    *)
ChunkWithBreak(s, p) ==
  IF ~IsSize(s, p.at) THEN p
  ELSE [at |-> p.at + Sizes[s[p.at]] + 3, out |-> p.out \o Slice(s, p.at + 2, p.at + 2 + Sizes[s[p.at]])]

(* One turn of the loop of _dechunk, which ends at a size of zero, at a    *)
(* line that is no size, and at the end of the data.                       *)
NextChunk(s, p) ==
  IF ~IsSize(s, p.at) THEN p
  ELSE [at |-> p.at + Sizes[s[p.at]] + 3, out |-> p.out \o Slice(s, p.at + 2, p.at + 1 + Sizes[s[p.at]])]

_dechunk(s) ==
  LET after[k \in 0..Len(s)] ==                \* what k turns leave
        IF k = 0 THEN [at |-> 1, out |-> <<>>] ELSE NextChunk(s, after[k - 1])
  IN  after[Len(s)].out

-----------------------------------------------------------------------------
(* How many units the next recv may return at most; 0 when the loop the    *)
(* code is in is over.                                                     *)
Want == Min({request.length, MaxBody})

Asks ==
  CASE phase = "head" /\ HeaderEnd(Got) = 0 /\ pos <= MaxHeader -> Len(request.stream)
    [] phase = "chunked" /\ ~EndsChunks(Rest(Got)) -> Len(request.stream)
    [] phase = "length" /\ Len(Rest(Got)) < Want -> Want - Len(Rest(Got))
    [] OTHER -> 0

Receive ==
  /\ Asks > 0
  /\ pos' \in (pos + 1)..Min({pos + Asks, Len(request.stream)})
  /\ UNCHANGED <<request, phase, body, cut>>

(* The client closes its end, or goes away in the middle.                  *)
Closes ==
  /\ Asks > 0
  /\ cut' = TRUE
  /\ \/ /\ phase = "head"
        /\ phase' = "refused"
        /\ UNCHANGED body
     \/ /\ phase \in {"chunked", "length"}
        /\ phase' = "parsed"
        /\ body' = IF phase = "chunked" THEN _dechunk(Rest(Got)) ELSE Rest(Got)
  /\ UNCHANGED <<request, pos>>

(* recv waits 30 s in vain; the exception drops the connection.            *)
TimesOut ==
  /\ Asks > 0
  /\ phase' = "dropped"
  /\ UNCHANGED <<request, pos, body, cut>>

HeaderTooLarge ==
  /\ phase = "head" /\ HeaderEnd(Got) = 0 /\ pos > MaxHeader
  /\ phase' = "dropped"
  /\ UNCHANGED <<request, pos, body, cut>>

(* No second word in the request line: None.  int() of a Content-Length    *)
(* that is not a number raises.                                            *)
HeaderRead ==
  /\ phase = "head" /\ HeaderEnd(Got) # 0
  /\ phase' = CASE request.head = "noTarget" -> "refused"
                [] request.head = "badLength" -> "dropped"
                [] OTHER -> request.framing
  /\ UNCHANGED <<request, pos, body, cut>>

BodyRead ==
  /\ phase \in {"chunked", "length"} /\ Asks = 0
  /\ phase' = "parsed"
  /\ body' = IF phase = "chunked" THEN _dechunk(Rest(Got)) ELSE Rest(Got)
  /\ UNCHANGED <<request, pos, cut>>

HttpNext == Receive \/ Closes \/ TimesOut \/ HeaderTooLarge \/ HeaderRead \/ BodyRead

HttpSpec == HttpInit /\ [][HttpNext]_httpVars

-----------------------------------------------------------------------------
Payload == Rest(request.stream)

(* The last three units of a chunked body occur nowhere earlier, so that   *)
(* no cut can make a beginning of it look complete.                        *)
OneEnd ==
  request.framing = "chunked" =>
    /\ request.trailer = <<>>
    /\ \A n \in 3..(Len(Payload) - 1) :
         ~(Payload[n - 2] \in ZeroAtEnd /\ Payload[n - 1] = "nl" /\ Payload[n] = "nl")

(* A body with a length is all that follows on the connection, and the     *)
(* length is true and within the limit.                                    *)
TrueLength ==
  request.framing = "length" =>
    Payload = request.meant /\ request.length = Len(Payload) /\ request.length <= MaxBody

(* sealed.py:57: however the bytes are cut into pieces, a request that     *)
(* arrived whole is recorded with the body that was sent, so two runs that *)
(* receive it in different pieces record the same.                         *)
BodyIsWhatWasSent ==
  phase = "parsed" /\ ~cut /\ OneEnd /\ TrueLength => body = request.meant

(* Whatever is recorded of a request that the client cut short, that lies  *)
(* about its length or exceeds the limit, or whose data looks like its own *)
(* end, is a beginning of what was sent and nothing else.                  *)
BodyIsABeginning ==
  phase = "parsed" =>
    IsPrefix(body, IF request.framing = "chunked" THEN request.meant ELSE Payload)

(* Once all has arrived the parser is not left waiting for more, which     *)
(* would end in its timeout and lose the request unrecorded.               *)
WholeRequestSuffices ==
  pos = Len(request.stream) /\ OneEnd /\ TrueLength => Asks = 0
=============================================================================
