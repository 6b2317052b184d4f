----------------------------- MODULE MCLogTool -----------------------------
(***************************************************************************)
(* Inputs for LogTool: the wire format of HTTP/1.1 messages, written as an *)
(* encoder, and bytes that are not of that format.                         *)
(***************************************************************************)
EXTENDS LogTool

EndOfLine == <<CR, LF>>

FieldWire(field) == field.name \o <<":", SP>> \o field.value \o EndOfLine
FieldsWire(fields) == FlattenSeq([i \in DOMAIN fields |-> FieldWire(fields[i])])

RequestLineWire(m) ==
  m.verb \o <<SP>> \o m.url \o <<SP, "H", "TTP/1.1">> \o EndOfLine
StatusLineWire(m) ==
  <<"H", "TTP/1.1", SP, m.status>>
    \o (IF m.url = <<>> THEN <<>> ELSE <<SP>> \o m.url) \o EndOfLine

ChunkWire(chunk) ==
  <<Numerals[Len(chunk) + 1]>> \o EndOfLine \o chunk \o EndOfLine

BodyWire(m) ==
  IF m.framing = "chunked"
  THEN FlattenSeq([i \in DOMAIN m.body |-> ChunkWire(m.body[i])])
         \o <<"0">> \o EndOfLine \o FieldsWire(m.trailers) \o EndOfLine
  ELSE FlattenSeq(m.body)

HeadWire(m) ==
  (IF m.type = "request" THEN RequestLineWire(m) ELSE StatusLineWire(m))
    \o FieldsWire(m.fields) \o EndOfLine

Wire(messages) ==
  FlattenSeq([i \in DOMAIN messages |->
                HeadWire(messages[i]) \o BodyWire(messages[i])])

-----------------------------------------------------------------------------
Field(name, value) == [name |-> name, value |-> value]

Length(n) == Field(<<"content-", "length">>, n)
ChunkedCoding == Field(<<"transfer-", "encoding">>, <<"chu", "nked">>)
Host == Field(<<"Host">>, <<"h">>)
Connection(value) == Field(<<"conn", "ection">>, value)
Upgrade == Field(<<"up", "grade">>, <<"ws">>)

Request(verb, target, fields, body) ==
  [type |-> "request", verb |-> verb,
   method |-> IF verb = <<"H", "EAD">> THEN "HEAD" ELSE verb[1],
   version |-> "1.1", status |-> "0", url |-> target, fields |-> fields,
   framing |-> "length", body |-> body, trailers |-> <<>>]
Response(status, reason, fields, body) ==
  [type |-> "response", verb |-> <<>>, method |-> "none", version |-> "1.1",
   status |-> status, url |-> reason, fields |-> fields,
   framing |-> "length", body |-> body, trailers |-> <<>>]
InChunks(m, trailers) == [m EXCEPT !.framing = "chunked", !.trailers = trailers]

Get == Request(<<"GET">>, <<"/", "a">>, <<Host>>, <<>>)
GetLong == Request(<<"GET">>, <<"/", "l", "o", "n", "g">>, <<>>, <<>>)
HeadRequest == Request(<<"H", "EAD">>, <<"/">>, <<>>, <<>>)
Connect == Request(<<"CONNECT">>, <<"host">>, <<>>, <<>>)
\* A body may look like the start of a message.
Post == Request(<<"POST">>, <<"/">>, <<Length(<<"2">>)>>, <<<<"GET", LF>>>>)
Leading == Request(<<"POST">>, <<"/">>, <<Length(<<"0", "1">>)>>, <<<<CR>>>>)
Ok == Response("200", <<"OK">>, <<Length(<<"1">>)>>, <<<<"b">>>>)
Empty == Response("200", <<>>, <<Length(<<"0">>)>>, <<>>)
NoContent == Response("204", <<"No", SP, "Content">>, <<>>, <<>>)
UntilEof == Response("200", <<>>, <<>>, <<<<"b1", "b2">>>>)
Chunks == InChunks(Response("200", <<>>, <<ChunkedCoding>>,
                            <<<<"c1", "c2">>, <<LF>>>>), <<Host>>)
SmallChunk == InChunks(Response("200", <<>>, <<ChunkedCoding>>, <<<<"c">>>>), <<>>)
\* Both framings are announced: the length is ignored.
BothFramings == InChunks(Request(<<"POST">>, <<"/">>,
                  <<Length(<<"9">>), ChunkedCoding>>, <<<<"c">>>>), <<>>)
\* The fields behind the last chunk do not announce another body.
TrailingFraming == InChunks(Request(<<"POST">>, <<"/">>, <<ChunkedCoding>>,
                              <<<<"c">>>>), <<Length(<<"1">>), ChunkedCoding>>)
Upgraded == Request(<<"GET">>, <<"/">>,
              <<Connection(<<"keep-", "alive", ",", SP, "up", "grade">>), Upgrade>>,
              <<>>)
UpgradedPost == Request(<<"POST">>, <<"/">>,
                  <<Upgrade, Connection(<<"up", "grade">>), Length(<<"2">>)>>,
                  <<<<"b1", "b2">>>>)
Closes == Request(<<"GET">>, <<"/">>,
            <<Connection(<<"clo", "se", ",", "x", ",", SP, "y">>)>>, <<>>)
Options == Request(<<"GET">>, <<"/">>,
             <<Connection(<<"keep-", "x", ",", "clo", "se", SP, "z">>)>>, <<>>)

\* Every input is cut once at every place, and a short one twice.
Short == 20
CutsOf(bytes) == IF Len(bytes) <= Short THEN 2 ELSE 1

Input(bytes, messages, kind) ==
  [wire |-> bytes, messages |-> messages, calls |-> Stream(messages),
   kind |-> kind, cuts |-> CutsOf(bytes)]

Complete(messages) == Input(Wire(messages), messages, "complete")

\* The last n bytes are missing.
CutOff(messages, n) ==
  Input(SubSeq(Wire(messages), 1, Len(Wire(messages)) - n), messages, "cut off")

\* The first i bytes of messages, and then one that does not fit.
Malformed(messages, i) ==
  Input(SubSeq(Wire(messages), 1, i) \o <<"bad">>, messages, "malformed")

-----------------------------------------------------------------------------
\* What the encoder does not write.
GetLine == RequestLineWire(Get)
Bare(m) == [m EXCEPT !.fields = <<>>]
With(m, fields) == [m EXCEPT !.fields = fields]

\* A value goes on in the next line: it is reported in two parts.
Folded ==
  [wire |-> GetLine \o <<"Host", ":", "h", CR, LF, SP, "i", CR, LF, CR, LF>>,
   messages |-> <<With(Get, <<Field(<<"Host">>, <<"h", SP, "i">>)>>)>>,
   calls |-> RequestLine(Get)
     \o <<Callback("header_field", <<"Host">>), Callback("header_value", <<"h">>),
          Callback("header_value", <<SP, "i">>), HeadersComplete, MessageComplete>>,
   kind |-> "complete", cuts |-> 2]
\* The options of a connection go on in the next line.
FoldedOptions ==
  [wire |-> GetLine \o <<"up", "grade", ":", "ws", CR, LF, "conn", "ection", ":",
              "x", ",", CR, LF, SP, "up", "grade", CR, LF, CR, LF>>,
   messages |-> <<With(Get, <<Upgrade, Connection(<<"x", ",", SP, "up", "grade">>)>>)>>,
   calls |-> RequestLine(Get)
     \o <<Name(Upgrade), Value(Upgrade), Callback("header_field", <<"conn", "ection">>),
          Callback("header_value", <<"x", ",">>),
          Callback("header_value", <<SP, "up", "grade">>),
          HeadersComplete, MessageComplete>>,
   kind |-> "complete", cuts |-> 1]
\* An empty value, and one that starts in the next line.
EmptyValue ==
  Input(GetLine \o <<"Host", ":", CR, LF, "Host", ":", SP, LF, SP, "h", CR, LF,
                     CR, LF>>,
        <<With(Get, <<Field(<<"Host">>, <<>>), Host>>)>>, "complete")
\* Line feeds alone, empty lines before a message, more spaces than needed.
LineFeeds ==
  Input(<<CR, LF, "GET", SP, SP, "/", "a", SP, SP, "H", "TTP/1.1", LF,
          "Host", ":", "h", LF, LF>>, <<Get>>, "complete")
StatusLineFeeds ==
  Input(<<"H", "TTP/1.1", SP, SP, "204", LF, LF,
          "H", "TTP/1.1", SP, "204", SP, "x", LF, LF,
          "H", "TTP/1.1", SP, "204", SP, LF, LF,
          "H", "TTP/1.1", SP, "204", SP, CR, LF, CR, LF>>,
        LET bare == [NoContent EXCEPT !.url = <<>>]
        IN  <<bare, [NoContent EXCEPT !.url = <<"x">>], bare, bare>>, "complete")
\* No version: HTTP/0.9.
Old ==
  Input(<<"GET", SP, "/", LF, LF, "GET", SP, "/", CR, LF, CR, LF>>,
        LET old == [Bare(Get) EXCEPT !.url = <<"/">>, !.version = "0.9"]
        IN  <<old, old>>, "complete")
\* A size of two digits, with an extension.
Extension ==
  Input(HeadWire(SmallChunk)
          \o <<"0", "1", SP, "x", CR, LF, "c", CR, LF, "0", ";", CR, LF, CR, LF>>,
        <<SmallChunk>>, "complete")
SpacesInValues ==
  LET m == [With(SmallChunk, <<Field(<<"transfer-", "encoding">>, <<"chu", "nked", SP>>),
                               Field(<<"content-", "length">>, <<"1", SP>>)>>)
              EXCEPT !.url = <<"OK">>]
  IN  Complete(<<m>>)
\* Names and values that only begin like those the parser knows.
Lookalikes ==
  LET m == With(Empty, <<Field(<<"content-", "type">>, <<"x">>),
                         Field(<<"transfer-", "encoding">>, <<"chu", "x">>),
                         Field(<<"transfer-", "encoding">>, <<"chu", "nked", "x">>),
                         Length(<<"0">>)>>)
  IN  Complete(<<m>>)

\* Too long, by digits or by value.
TooLong ==
  {Input(RequestLineWire(Post) \o FieldWire(Length(<<"9", "9">>)),
         <<With(Post, <<Length(<<"9", "9">>)>>)>>, "malformed"),
   Input(HeadWire(SmallChunk) \o <<"1", "e", CR, LF, "c">>, <<SmallChunk>>,
         "malformed")}

BadFields ==
  {Input(GetLine \o <<"Host", ":", CR, "bad">>,
         <<With(Get, <<Field(<<"Host">>, <<>>)>>)>>, "malformed"),
   Input(GetLine \o <<"content-", "length", ":", "1", CR, LF, SP, "1", CR, LF>>,
         <<With(Get, <<Length(<<"1">>)>>)>>, "malformed")}

AllMalformed ==
  {Malformed(<<Get>>, i) : i \in 0 .. 10 \union 14 .. 16}
    \union {Malformed(<<Empty>>, i) : i \in 1 .. 14}
    \union {Malformed(<<SmallChunk>>, i) :
              i \in 16 .. 18 \union 20 .. 26}
    \union {Malformed(<<NoContent>>, 4)}
    \union TooLong \union BadFields

AllCutOff ==
  {CutOff(<<Get, Ok>>, n) : n \in {1, 2, 20}} \union {CutOff(<<Chunks>>, 2)}

AllComplete ==
  {Complete(messages) : messages \in
     {<<Get, Empty>>, <<HeadRequest, GetLong>>, <<Connect, Get>>, <<Connect, Empty>>,
      <<Post, Ok>>, <<Leading, Post>>, <<NoContent, UntilEof>>, <<Chunks>>, <<SmallChunk, Get>>,
      <<BothFramings>>, <<TrailingFraming, Get>>,
      <<Upgraded, Empty>>, <<UpgradedPost, Ok>>,
      <<Closes>>, <<Options>>}}
    \union {Folded, FoldedOptions, EmptyValue, LineFeeds, StatusLineFeeds, Old, Extension,
            SpacesInValues, Lookalikes}

ConnectInputs == {Complete(<<Connect, Get>>)}

AllInputs == AllComplete \union AllCutOff \union AllMalformed
=============================================================================
