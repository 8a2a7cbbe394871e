--------------------------- MODULE MCHttpRequest ----------------------------
(***************************************************************************)
(* Requests for HttpRequest.                                               *)
(***************************************************************************)
EXTENDS HttpRequest

Head1 == <<"POST", "nl", "nl">>
Plain(payload, length, meant) ==
  [stream |-> Head1 \o payload, head |-> "ok", framing |-> "length",
   length |-> length, meant |-> meant, chunks |-> <<>>, trailer |-> <<>>]
Chunked(payload, chunks, trailer) ==
  [stream |-> Head1 \o payload, head |-> "ok", framing |-> "chunked",
   length |-> 0, meant |-> FlattenSeq(chunks), chunks |-> chunks, trailer |-> trailer]

MCSizes == [n \in {"0", "1", "2", "10"} |->
              CASE n = "0" -> 0 [] n = "1" -> 1 [] n = "2" -> 2 [] n = "10" -> 16]
EndChunk == <<"0", "nl", "nl">>
Sixteen == <<"nl">> \o [i \in 1..15 |-> "a"]

MCRequests == {
  Plain(<<>>, 0, <<>>), Plain(<<"a", "nl", "b">>, 3, <<"a", "nl", "b">>),
  Plain(<<"a", "b", "c", "d", "e">>, 5, <<"a", "b", "c", "d", "e">>),  \* over the limit
  Plain(<<"a", "b">>, 3, <<"a", "b">>),                                \* promises more
  Plain(<<"a", "b", "c">>, 2, <<"a", "b">>),                           \* something follows
  Plain(<<"a">>, -1, <<"a">>),
  [Plain(<<"a">>, 0, <<>>) EXCEPT !.head = "noTarget"],
  [Plain(<<"a">>, 0, <<>>) EXCEPT !.head = "badLength"],
  [Plain(<<>>, 0, <<>>) EXCEPT !.stream = <<"POST", "h", "h", "h", "h", "nl", "nl">>],
  Chunked(EndChunk, <<>>, <<>>),
  Chunked(<<"2", "nl", "a", "b", "nl", "1", "nl", "c", "nl">> \o EndChunk, << <<"a", "b">>, <<"c">> >>, <<>>),
  Chunked(<<"2", "nl", "nl", "nl", "nl">> \o EndChunk, << <<"nl", "nl">> >>, <<>>),
  Chunked(<<"10", "nl">> \o Sixteen \o <<"nl">> \o EndChunk, <<Sixteen>>, <<>>),  \* "10" CRLF CRLF
  Chunked(<<"2", "nl", "0", "nl", "nl", "1", "nl", "b", "nl">> \o EndChunk,
          << <<"0", "nl">>, <<"b">> >>, <<>>),
  Chunked(<<"1", "nl", "a", "nl", "0", "nl", "x", "nl", "nl">>, << <<"a">> >>, <<"x", "nl">>) }
=============================================================================
