----------------------------- MODULE HttpParser -----------------------------
(***************************************************************************)
(* http_parser_execute of http_parser.c: the automaton that finds messages *)
(* in a stream that is cut into reads anywhere, and calls the tool back.   *)
(*                                                                         *)
(* The bytes of a stream are grouped into atoms: a constant word, a name,  *)
(* a text or a part of one, a digit, a single separator.  A read ends      *)
(* between any two atoms; the states of the code between the letters of    *)
(* one atom are collapsed into the state before it.  "bad" is a byte that  *)
(* is allowed nowhere in a head.                                           *)
(*                                                                         *)
(* One step is one case of the code's switch.  A case either consumes the  *)
(* byte it looked at, or goes to another case with it (REEXECUTE).         *)
(***************************************************************************)
EXTENDS Naturals, Sequences, Callbacks

CONSTANT ULLONG_MAX  \* the largest content_length, standing for "none"

ASSUME WidthAssumption == ULLONG_MAX \in Nat /\ ULLONG_MAX >= 16

VARIABLES
  parser,     \* struct http_parser
  executing,  \* http_parser_execute has been called and not returned
  data,       \* the bytes of the call, from the one it looks at
  marks,      \* the marks that are set, each with the bytes from there on
  cb          \* the callback made by the last step

vars == <<parser, executing, data, marks, cb>>

-----------------------------------------------------------------------------
CR == "\r"
LF == "\n"
SP == " "

Methods == {"GET", "POST", "CONNECT"}
Statuses == {"100", "200", "204", "304"}
Separators == {CR, LF, SP, ":", ",", ";", "bad"}

IsToken(ch) == ch \notin Separators
IsUrlChar(ch) == ch \notin {SP, CR, LF, "bad"}

Numerals == <<"0", "1", "2", "3", "4", "5", "6", "7", "8", "9",
              "a", "b", "c", "d", "e", "f">>
IsNum(ch) == \E i \in 1 .. 10 : Numerals[i] = ch
IsHex(ch) == \E i \in 1 .. 16 : Numerals[i] = ch
Unhex(ch) == (CHOOSE i \in 1 .. 16 : Numerals[i] = ch) - 1

NoCallback == Callback("none", <<>>)
NoMarks == [k \in {} |-> <<>>]

\* http_parser_init with HTTP_BOTH, which all the tools use.
Initialised ==
  [type |-> "HTTP_BOTH", state |-> "s_start_req_or_res", flags |-> {},
   content_length |-> 0, header_state |-> "h_general", method |-> "DELETE",
   status_code |-> "0", version |-> "0.0", upgrade |-> FALSE,
   http_errno |-> "HPE_OK"]

Init ==
  /\ parser = Initialised
  /\ executing = FALSE
  /\ data = <<>>
  /\ marks = NoMarks
  /\ cb = NoCallback

-----------------------------------------------------------------------------
\* How a case ends.
To(s) == [parser EXCEPT !.state = s]
Ch == Head(data)
In(s) == executing /\ data # <<>> /\ parser.state = s

Marked(k) == [j \in DOMAIN marks \union {k} |->
                IF j \in DOMAIN marks THEN marks[j] ELSE <<>>]
Unmarked(k) == [j \in DOMAIN marks \ {k} |-> marks[j]]

Advance(next, kept) ==
  /\ parser' = next
  /\ data' = Tail(data)
  /\ marks' = [k \in DOMAIN kept |-> Append(kept[k], Ch)]
  /\ UNCHANGED executing

Consume(next) == Advance(next, marks) /\ cb' = NoCallback
MarkAndConsume(k, next) == Advance(next, Marked(k)) /\ cb' = NoCallback

Reexecute(next) ==
  /\ parser' = next
  /\ cb' = NoCallback
  /\ UNCHANGED <<executing, data, marks>>

\* CALLBACK_DATA, which consumes the byte, and CALLBACK_DATA_NOADVANCE.
CallbackFor(k) == IF k \in DOMAIN marks THEN Callback(k, marks[k]) ELSE NoCallback

CallbackData(k, next) == cb' = CallbackFor(k) /\ Advance(next, Unmarked(k))

CallbackDataNoAdvance(k, next) ==
  /\ cb' = CallbackFor(k)
  /\ parser' = next
  /\ marks' = Unmarked(k)
  /\ UNCHANGED <<executing, data>>

Fail(errno) ==
  /\ parser' = [parser EXCEPT !.http_errno = errno]
  /\ executing' = FALSE
  /\ marks' = NoMarks
  /\ cb' = NoCallback
  /\ UNCHANGED data

\* CALLBACK_NOTIFY(message_complete).  The tools' callbacks initialise the
\* parser again, over whatever state and flags the caller had set.
MessageCompleteKeepsParser ==
  /\ parser' = [To("s_start_req_or_res") EXCEPT !.header_state = "h_general"]
  /\ cb' = MessageComplete
MessageCompletes ==
  /\ parser' = Initialised
  /\ cb' = MessageComplete

-----------------------------------------------------------------------------
\* The call.  A mark is set at the start of the buffer when it starts within
\* a text.
TextOf(s) == CASE s = "s_header_field" -> {"header_field"}
               [] s = "s_header_value" -> {"header_value"}
               [] s = "s_req_path" -> {"url"}
               [] s = "s_res_status" -> {"status"}
               [] OTHER -> {}

MarksAtStartNoValue(s) == [k \in TextOf(s) \ {"header_value"} |-> <<>>]
MarksAtStart(s) == [k \in TextOf(s) |-> <<>>]

\* In an error state nothing is done and 0 returned.
Execute(bytes) ==
  /\ ~executing
  /\ executing' = (parser.http_errno = "HPE_OK")
  /\ data' = bytes
  /\ marks' = IF executing' THEN MarksAtStart(parser.state) ELSE NoMarks
  /\ cb' = NoCallback
  /\ UNCHANGED parser

\* The call with a length of 0.
ExecuteEof ==
  /\ ~executing
  /\ IF parser.http_errno # "HPE_OK" \/ parser.state = "s_start_req_or_res"
     THEN parser' = parser /\ cb' = NoCallback
     ELSE IF parser.state = "s_body_identity_eof" THEN MessageCompletes
     ELSE /\ parser' = [parser EXCEPT !.http_errno = "HPE_INVALID_EOF_STATE"]
          /\ cb' = NoCallback
  /\ UNCHANGED <<executing, data, marks>>

\* The buffer ends: a callback for the mark that is left, if there is one.
BufferEnds ==
  /\ executing
  /\ data = <<>>
  /\ cb' = IF DOMAIN marks = {} THEN NoCallback
           ELSE LET k == CHOOSE k \in DOMAIN marks : TRUE
                IN  Callback(k, marks[k])
  /\ marks' = NoMarks
  /\ executing' = FALSE
  /\ UNCHANGED <<parser, data>>

-----------------------------------------------------------------------------
\* The start line.
Fresh(next) == [next EXCEPT !.flags = {}, !.content_length = ULLONG_MAX]

StartReqOrRes ==
  /\ In("s_start_req_or_res")
  /\ \/ Ch \in {CR, LF} /\ Consume(parser)
     \/ Ch = "H" /\ Consume(Fresh(To("s_res_or_resp_H")))
     \/ /\ Ch \notin {CR, LF, "H"}
        /\ Reexecute(Fresh([To("s_start_req") EXCEPT !.type = "HTTP_REQUEST"]))

ResOrRespH ==
  /\ In("s_res_or_resp_H")
  /\ \/ /\ Ch = "TTP/1.1"
        /\ Consume([To("s_res_http_minor") EXCEPT !.type = "HTTP_RESPONSE",
                                                  !.version = "1.1"])
     \/ /\ Ch = "EAD"
        /\ Consume([To("s_req_method") EXCEPT !.type = "HTTP_REQUEST",
                                              !.method = "HEAD"])
     \/ Ch \notin {"TTP/1.1", "EAD"} /\ Fail("HPE_INVALID_CONSTANT")

ResHttpMinor ==
  /\ In("s_res_http_minor")
  /\ IF Ch = SP THEN Consume(To("s_res_first_status_code"))
                ELSE Fail("HPE_INVALID_VERSION")

ResFirstStatusCode ==
  /\ In("s_res_first_status_code")
  /\ \/ Ch = SP /\ Consume(parser)
     \/ /\ Ch \in Statuses
        /\ Consume([To("s_res_status_code") EXCEPT !.status_code = Ch])
     \/ Ch \notin Statuses \union {SP} /\ Fail("HPE_INVALID_STATUS")

ResStatusCode ==
  /\ In("s_res_status_code")
  /\ \/ Ch = SP /\ Consume(To("s_res_status_start"))
     \/ Ch = CR /\ Consume(To("s_res_line_almost_done"))
     \/ Ch = LF /\ Consume(To("s_header_field_start"))
     \/ Ch \notin {SP, CR, LF} /\ Fail("HPE_INVALID_STATUS")

ResStatusStart ==
  /\ In("s_res_status_start")
  /\ \/ Ch = CR /\ Consume(To("s_res_line_almost_done"))
     \/ Ch = LF /\ Consume(To("s_header_field_start"))
     \/ Ch \notin {CR, LF} /\ MarkAndConsume("status", To("s_res_status"))

ResStatus ==
  /\ In("s_res_status")
  /\ \/ Ch = CR /\ CallbackData("status", To("s_res_line_almost_done"))
     \/ Ch = LF /\ CallbackData("status", To("s_header_field_start"))
     \/ Ch \notin {CR, LF} /\ Consume(parser)

ResLineAlmostDone ==
  /\ In("s_res_line_almost_done")
  /\ IF Ch = LF THEN Consume(To("s_header_field_start")) ELSE Fail("HPE_STRICT")

StartReq ==
  /\ In("s_start_req")
  /\ IF Ch \in Methods
     THEN Consume([Fresh(To("s_req_method")) EXCEPT !.method = Ch])
     ELSE Fail("HPE_INVALID_METHOD")

ReqMethod ==
  /\ In("s_req_method")
  /\ IF Ch = SP THEN Consume(To("s_req_spaces_before_url"))
                ELSE Fail("HPE_INVALID_METHOD")

\* s_req_path stands for all the states of a URL.
ReqSpacesBeforeUrl ==
  /\ In("s_req_spaces_before_url")
  /\ \/ Ch = SP /\ Consume(parser)
     \/ IsUrlChar(Ch) /\ MarkAndConsume("url", To("s_req_path"))
     \/ Ch # SP /\ ~IsUrlChar(Ch) /\ Fail("HPE_INVALID_URL")

ReqUrl ==
  /\ In("s_req_path")
  /\ \/ Ch = SP /\ CallbackData("url", To("s_req_http_start"))
     \/ /\ Ch \in {CR, LF}
        /\ CallbackData("url",
             [To(IF Ch = CR THEN "s_req_line_almost_done" ELSE "s_header_field_start")
                EXCEPT !.version = "0.9"])
     \/ IsUrlChar(Ch) /\ Consume(parser)
     \/ Ch = "bad" /\ Fail("HPE_INVALID_URL")

ReqHttpStart ==
  /\ In("s_req_http_start")
  /\ \/ Ch = "H" /\ Consume(To("s_req_http_H"))
     \/ Ch = SP /\ Consume(parser)
     \/ Ch \notin {"H", SP} /\ Fail("HPE_INVALID_CONSTANT")

ReqHttpH ==
  /\ In("s_req_http_H")
  /\ IF Ch = "TTP/1.1"
     THEN Consume([To("s_req_http_minor") EXCEPT !.version = "1.1"])
     ELSE Fail("HPE_STRICT")

ReqHttpMinor ==
  /\ In("s_req_http_minor")
  /\ \/ Ch = CR /\ Consume(To("s_req_line_almost_done"))
     \/ Ch = LF /\ Consume(To("s_header_field_start"))
     \/ Ch \notin {CR, LF} /\ Fail("HPE_INVALID_VERSION")

ReqLineAlmostDone ==
  /\ In("s_req_line_almost_done")
  /\ IF Ch = LF THEN Consume(To("s_header_field_start"))
                ELSE Fail("HPE_LF_EXPECTED")

-----------------------------------------------------------------------------
\* Header fields.  header_state tells how much of a name, or of a value,
\* that the parser understands has been seen.
NameTable ==
  {<<"none", "content-", "h_matching_content_length">>,
   <<"h_matching_content_length", "length", "h_content_length">>,
   <<"none", "transfer-", "h_matching_transfer_encoding">>,
   <<"h_matching_transfer_encoding", "encoding", "h_transfer_encoding">>,
   <<"none", "conn", "h_matching_connection">>,
   <<"h_matching_connection", "ection", "h_connection">>,
   <<"none", "up", "h_matching_upgrade">>,
   <<"h_matching_upgrade", "grade", "h_upgrade">>}

ValueTable ==
  {<<"h_transfer_encoding", "chu", "h_matching_transfer_encoding_chunked">>,
   <<"h_matching_transfer_encoding_chunked", "nked",
     "h_transfer_encoding_chunked">>,
   <<"h_connection", "keep-", "h_matching_connection_keep_alive">>,
   <<"h_matching_connection_keep_alive", "alive", "h_connection_keep_alive">>,
   <<"h_connection", "clo", "h_matching_connection_close">>,
   <<"h_matching_connection_close", "se", "h_connection_close">>,
   <<"h_connection", "up", "h_matching_connection_upgrade">>,
   <<"h_matching_connection_upgrade", "grade", "h_connection_upgrade">>}

Matched(table, from, ch, otherwise) ==
  IF \E row \in table : row[1] = from /\ row[2] = ch
  THEN (CHOOSE row \in table : row[1] = from /\ row[2] = ch)[3]
  ELSE otherwise

HeaderFieldStart ==
  /\ In("s_header_field_start")
  /\ \/ Ch = CR /\ Consume(To("s_headers_almost_done"))
     \/ Ch = LF /\ Reexecute(To("s_headers_almost_done"))
     \/ /\ IsToken(Ch)
        /\ MarkAndConsume("header_field",
             [To("s_header_field") EXCEPT !.header_state =
                Matched(NameTable, "none", Ch, "h_general")])
     \/ /\ Ch \notin {CR, LF} /\ ~IsToken(Ch)
        /\ Fail("HPE_INVALID_HEADER_TOKEN")

HeaderField ==
  /\ In("s_header_field")
  /\ \/ /\ IsToken(Ch)
        /\ Consume([parser EXCEPT !.header_state =
                      Matched(NameTable, @, Ch, "h_general")])
     \/ Ch = ":" /\ CallbackData("header_field", To("s_header_value_discard_ws"))
     \/ Ch # ":" /\ ~IsToken(Ch) /\ Fail("HPE_INVALID_HEADER_TOKEN")

\* s_header_value_start, to which s_header_value_discard_ws falls through.
StartsValue ==
  LET h == parser.header_state
      next(state) == [To("s_header_value") EXCEPT !.header_state = state]
  IN  \/ /\ h = "h_upgrade"
         /\ MarkAndConsume("header_value",
              [next("h_general") EXCEPT !.flags = @ \union {"F_UPGRADE"}])
      \/ /\ h = "h_content_length"
         /\ IF IsNum(Ch)
            THEN MarkAndConsume("header_value",
                   [next(h) EXCEPT !.content_length = Unhex(Ch)])
            ELSE Fail("HPE_INVALID_CONTENT_LENGTH")
      \/ /\ h = "h_connection"
         /\ MarkAndConsume("header_value",
              next(Matched(ValueTable, h, Ch, "h_matching_connection_token")))
      \/ /\ h = "h_matching_connection_token_start"
         /\ MarkAndConsume("header_value", next(h))
      \/ /\ h \notin {"h_upgrade", "h_content_length", "h_connection",
                      "h_matching_connection_token_start"}
         /\ MarkAndConsume("header_value",
              next(Matched(ValueTable, h, Ch, "h_general")))

HeaderValueStart == In("s_header_value_start") /\ StartsValue

HeaderValueDiscardWs ==
  /\ In("s_header_value_discard_ws")
  /\ \/ Ch = SP /\ Consume(parser)
     \/ Ch = CR /\ Consume(To("s_header_value_discard_ws_almost_done"))
     \/ Ch = LF /\ Consume(To("s_header_value_discard_lws"))
     \/ Ch \notin {SP, CR, LF} /\ StartsValue

\* The value in which h_state is looked for.
FlagOf(h) == CASE h = "h_connection_keep_alive" -> {"F_CONNECTION_KEEP_ALIVE"}
               [] h = "h_connection_close" -> {"F_CONNECTION_CLOSE"}
               [] h = "h_connection_upgrade" -> {"F_CONNECTION_UPGRADE"}
               [] OTHER -> {}

FlagAtEnd(h) == IF h = "h_transfer_encoding_chunked" THEN {"F_CHUNKED"} ELSE FlagOf(h)

\* In a Connection value, the options between commas.
NextOption(h, ch) ==
  CASE h = "h_matching_connection_token_start" ->
         IF ch = SP THEN h
         ELSE Matched(ValueTable, "h_connection", ch,
                IF IsToken(ch) THEN "h_matching_connection_token" ELSE "h_general")
    [] h = "h_matching_connection_token" ->
         IF ch = "," THEN "h_matching_connection_token_start" ELSE h
    [] FlagOf(h) # {} ->
         IF ch = "," THEN "h_matching_connection_token_start"
         ELSE IF ch = SP THEN h ELSE "h_matching_connection_token"
    [] OTHER -> Matched(ValueTable, h, ch, "h_matching_connection_token")

InConnection(h) ==
  \/ h \in {"h_matching_connection_token_start", "h_matching_connection_token",
            "h_matching_connection_keep_alive", "h_matching_connection_close",
            "h_matching_connection_upgrade"}
  \/ FlagOf(h) # {}

\* With the check for overflow before the digit is taken in.
Digit(base, ch) == parser.content_length * base + Unhex(ch)
OverflowsNever(base) == FALSE
Overflows(base) == (ULLONG_MAX - base) \div base < parser.content_length

\* A digit more; uint64_t wraps at ULLONG_MAX + 1.
LengthDigit(base, next) ==
  IF Overflows(base) THEN Fail("HPE_INVALID_CONTENT_LENGTH")
  ELSE Consume([next EXCEPT !.content_length =
                  Digit(base, Ch) % (ULLONG_MAX + 1)])

HeaderValue ==
  LET h == parser.header_state
      next(state) == [parser EXCEPT !.header_state = state]
  IN  /\ In("s_header_value")
      /\ \/ Ch = CR /\ CallbackData("header_value", To("s_header_almost_done"))
         \/ /\ Ch = LF
            /\ CallbackDataNoAdvance("header_value", To("s_header_almost_done"))
         \/ /\ Ch \notin {CR, LF} /\ h = "h_content_length"
            /\ IF Ch = SP THEN Consume(parser)
               ELSE IF IsNum(Ch) THEN LengthDigit(10, parser)
               ELSE Fail("HPE_INVALID_CONTENT_LENGTH")
         \/ /\ Ch \notin {CR, LF} /\ InConnection(h)
            /\ Consume([next(NextOption(h, Ch)) EXCEPT !.flags =
                          IF Ch = "," THEN @ \union FlagOf(h) ELSE @])
         \/ /\ Ch \notin {CR, LF} /\ h = "h_transfer_encoding_chunked"
            /\ Consume(next(IF Ch = SP THEN h ELSE "h_general"))
         \/ /\ Ch \notin {CR, LF}
            /\ h \in {"h_general", "h_matching_transfer_encoding_chunked"}
            /\ Consume(next(Matched(ValueTable, h, Ch, "h_general")))

HeaderAlmostDone ==
  /\ In("s_header_almost_done")
  /\ IF Ch = LF THEN Consume(To("s_header_value_lws")) ELSE Fail("HPE_STRICT")

\* The flags of a value are set at its end.
HeaderDone ==
  [To("s_header_field_start") EXCEPT !.flags =
     @ \union FlagAtEnd(parser.header_state)]

HeaderValueLwsKeepsState ==
  /\ In("s_header_value_lws")
  /\ IF Ch = SP THEN Reexecute(parser) ELSE Reexecute(HeaderDone)
\* A line that starts with a space goes on with the value before it.
HeaderValueLws ==
  /\ In("s_header_value_lws")
  /\ IF Ch = SP THEN Reexecute(To("s_header_value_start")) ELSE Reexecute(HeaderDone)

HeaderValueDiscardWsAlmostDone ==
  /\ In("s_header_value_discard_ws_almost_done")
  /\ IF Ch = LF THEN Consume(To("s_header_value_discard_lws"))
                ELSE Fail("HPE_STRICT")

\* The value was empty.
HeaderValueDiscardLws ==
  /\ In("s_header_value_discard_lws")
  /\ IF Ch = SP THEN Consume(To("s_header_value_discard_ws"))
     ELSE /\ cb' = Callback("header_value", <<>>)
          /\ parser' = HeaderDone
          /\ UNCHANGED <<executing, data, marks>>

-----------------------------------------------------------------------------
\* The end of the head, and what follows it.
HeadersAlmostDone ==
  /\ In("s_headers_almost_done")
  /\ \/ Ch # LF /\ Fail("HPE_STRICT")
     \/ Ch = LF /\ "F_TRAILING" \in parser.flags /\ Reexecute(To("s_message_done"))
     \/ /\ Ch = LF /\ "F_TRAILING" \notin parser.flags
        /\ parser' = [To("s_headers_done") EXCEPT !.upgrade =
                        \/ {"F_UPGRADE", "F_CONNECTION_UPGRADE"} \subseteq parser.flags
                        \/ parser.method = "CONNECT"]
        /\ cb' = HeadersComplete
        /\ UNCHANGED <<executing, data, marks>>

Chunked == "F_CHUNKED" \in parser.flags

\* http_message_needs_eof
NeedsEofWhateverStatus ==
  /\ parser.type # "HTTP_REQUEST"
  /\ ~Chunked
  /\ parser.content_length = ULLONG_MAX
NeedsEof ==
  /\ parser.type # "HTTP_REQUEST"
  /\ parser.status_code \notin {"100", "204", "304"}
  /\ ~Chunked
  /\ parser.content_length = ULLONG_MAX

\* The line feed that ends the head.  The tools' on_headers_complete never
\* asks to skip the body.
HeadersDone ==
  LET hasBody == Chunked \/ parser.content_length \notin {0, ULLONG_MAX}
      otherProtocol == parser.upgrade /\ (parser.method = "CONNECT" \/ ~hasBody)
      ends == /\ ~Chunked
              /\ \/ parser.content_length = 0
                 \/ parser.content_length = ULLONG_MAX /\ ~NeedsEof
  IN  /\ In("s_headers_done")
      /\ data' = Tail(data)
      /\ \/ /\ otherProtocol
            /\ MessageCompletes
            /\ executing' = FALSE
            /\ marks' = NoMarks
         \/ /\ ~otherProtocol /\ ends
            /\ MessageCompletes
            /\ UNCHANGED <<executing, marks>>
         \/ /\ ~otherProtocol /\ ~ends
            /\ parser' = To(IF Chunked THEN "s_chunk_size_start"
                            ELSE IF NeedsEof THEN "s_body_identity_eof"
                            ELSE "s_body_identity")
            /\ cb' = NoCallback
            /\ UNCHANGED <<executing, marks>>

\* to_read: what is left of the body, or of the buffer.
ToRead == IF parser.content_length < Len(data) THEN parser.content_length
          ELSE Len(data)

MarkBody(n) == [k \in DOMAIN marks \union {"body"} |->
                  (IF k \in DOMAIN marks THEN marks[k] ELSE <<>>)
                    \o SubSeq(data, 1, n)]

ReadBody(n, state) ==
  /\ parser' = [To(state) EXCEPT !.content_length = @ - n]
  /\ marks' = MarkBody(n)
  /\ data' = SubSeq(data, n + 1, Len(data))
  /\ cb' = NoCallback
  /\ UNCHANGED executing

\* The last byte of a body is looked at again, by s_message_done.
BodyIdentity ==
  /\ In("s_body_identity")
  /\ IF parser.content_length > Len(data)
     THEN ReadBody(ToRead, "s_body_identity")
     ELSE /\ parser' = [To("s_message_done") EXCEPT !.content_length = 0]
          /\ cb' = Callback("body", MarkBody(ToRead)["body"])
          /\ marks' = Unmarked("body")
          /\ data' = SubSeq(data, ToRead, Len(data))
          /\ UNCHANGED executing

BodyIdentityEof ==
  /\ In("s_body_identity_eof")
  /\ marks' = MarkBody(Len(data))
  /\ data' = <<>>
  /\ cb' = NoCallback
  /\ UNCHANGED <<parser, executing>>

\* upgrade is looked at after the callback.
MessageDone ==
  /\ In("s_message_done")
  /\ MessageCompletes
  /\ data' = Tail(data)
  /\ executing' = ~parser'.upgrade
  /\ UNCHANGED marks

ChunkSizeStart ==
  /\ In("s_chunk_size_start")
  /\ IF IsHex(Ch)
     THEN Consume([To("s_chunk_size") EXCEPT !.content_length = Unhex(Ch)])
     ELSE Fail("HPE_INVALID_CHUNK_SIZE")

ChunkSize ==
  /\ In("s_chunk_size")
  /\ \/ Ch = CR /\ Consume(To("s_chunk_size_almost_done"))
     \/ Ch \in {";", SP} /\ Consume(To("s_chunk_parameters"))
     \/ IsHex(Ch) /\ LengthDigit(16, parser)
     \/ /\ Ch \notin {CR, ";", SP} /\ ~IsHex(Ch)
        /\ Fail("HPE_INVALID_CHUNK_SIZE")

ChunkParameters ==
  /\ In("s_chunk_parameters")
  /\ Consume(IF Ch = CR THEN To("s_chunk_size_almost_done") ELSE parser)

\* A chunk of size 0 is the last, and trailing header fields follow it.
ChunkSizeAlmostDone ==
  /\ In("s_chunk_size_almost_done")
  /\ \/ Ch # LF /\ Fail("HPE_STRICT")
     \/ /\ Ch = LF /\ parser.content_length = 0
        /\ Consume([To("s_header_field_start") EXCEPT
                      !.flags = @ \union {"F_TRAILING"}])
     \/ Ch = LF /\ parser.content_length # 0 /\ Consume(To("s_chunk_data"))

ChunkData ==
  /\ In("s_chunk_data")
  /\ ReadBody(ToRead, IF parser.content_length = ToRead
                      THEN "s_chunk_data_almost_done" ELSE "s_chunk_data")

ChunkDataAlmostDone ==
  /\ In("s_chunk_data_almost_done")
  /\ IF Ch = CR THEN CallbackData("body", To("s_chunk_data_done"))
                ELSE Fail("HPE_STRICT")

ChunkDataDone ==
  /\ In("s_chunk_data_done")
  /\ IF Ch = LF THEN Consume(To("s_chunk_size_start")) ELSE Fail("HPE_STRICT")

-----------------------------------------------------------------------------
StartLine ==
  \/ StartReqOrRes \/ ResOrRespH
  \/ ResHttpMinor \/ ResFirstStatusCode \/ ResStatusCode \/ ResStatusStart
  \/ ResStatus \/ ResLineAlmostDone
  \/ StartReq \/ ReqMethod \/ ReqSpacesBeforeUrl \/ ReqUrl
  \/ ReqHttpStart \/ ReqHttpH \/ ReqHttpMinor \/ ReqLineAlmostDone

Fields ==
  \/ HeaderFieldStart \/ HeaderField
  \/ HeaderValueDiscardWs \/ HeaderValueDiscardWsAlmostDone
  \/ HeaderValueDiscardLws \/ HeaderValueStart \/ HeaderValue
  \/ HeaderAlmostDone \/ HeaderValueLws
  \/ HeadersAlmostDone \/ HeadersDone

Body ==
  \/ BodyIdentity \/ BodyIdentityEof \/ MessageDone
  \/ ChunkSizeStart \/ ChunkSize \/ ChunkParameters \/ ChunkSizeAlmostDone
  \/ ChunkData \/ ChunkDataAlmostDone \/ ChunkDataDone

\* One step of http_parser_execute.
Step == StartLine \/ Fields \/ Body \/ BufferEnds

-----------------------------------------------------------------------------
\* A text that the buffer cuts is reported once: no two marks are set.
OneMark == \A j, k \in DOMAIN marks : j = k

\* The length of a body is known and not 0 while it is read, and the message
\* is chunked as long as there are chunks.
ChunkStates == {"s_chunk_size_start", "s_chunk_size", "s_chunk_parameters",
                "s_chunk_size_almost_done", "s_chunk_data",
                "s_chunk_data_almost_done", "s_chunk_data_done"}

BodyIsKnown ==
  /\ parser.state \in {"s_body_identity", "s_chunk_data"} =>
       parser.content_length \notin {0, ULLONG_MAX}
  /\ parser.state = "s_chunk_data_almost_done" => parser.content_length = 0
  /\ parser.state \in ChunkStates => Chunked

\* The states that the switch within s_header_value has a case for.
InnerCases == {"h_general", "h_content_length", "h_transfer_encoding_chunked",
               "h_matching_transfer_encoding_chunked"}
InnerCaseExists ==
  parser.state = "s_header_value" =>
    parser.header_state \in InnerCases \/ InConnection(parser.header_state)

\* The assertions of http_parser_execute: a length that wrapped, a flag that
\* the fields behind the last chunk or a callback took away, a mark that was
\* left behind would break them, in a later call if need be.
ParserAssertions == OneMark /\ BodyIsKnown /\ InnerCaseExists

-----------------------------------------------------------------------------
(***************************************************************************)
(* The types, and the invariant behind the assertions.                     *)
(***************************************************************************)
States ==
  {"s_start_req_or_res", "s_res_or_resp_H", "s_res_http_minor",
   "s_res_first_status_code", "s_res_status_code", "s_res_status_start",
   "s_res_status", "s_res_line_almost_done", "s_start_req", "s_req_method",
   "s_req_spaces_before_url", "s_req_path", "s_req_http_start",
   "s_req_http_H", "s_req_http_minor", "s_req_line_almost_done",
   "s_header_field_start", "s_header_field", "s_header_value_discard_ws",
   "s_header_value_discard_ws_almost_done", "s_header_value_discard_lws",
   "s_header_value_start", "s_header_value", "s_header_almost_done",
   "s_header_value_lws", "s_headers_almost_done", "s_headers_done",
   "s_body_identity", "s_body_identity_eof", "s_message_done"}
     \union ChunkStates

HeaderStates == {"h_general", "h_matching_connection_token",
                 "h_matching_connection_token_start"}
  \union {row[3] : row \in NameTable \union ValueTable}

Flags == {"F_CHUNKED", "F_CONNECTION_KEEP_ALIVE", "F_CONNECTION_CLOSE",
          "F_CONNECTION_UPGRADE", "F_TRAILING", "F_UPGRADE"}

Errnos ==
  {"HPE_OK", "HPE_INVALID_EOF_STATE", "HPE_INVALID_VERSION",
   "HPE_INVALID_STATUS", "HPE_INVALID_METHOD", "HPE_INVALID_URL",
   "HPE_LF_EXPECTED", "HPE_INVALID_HEADER_TOKEN",
   "HPE_INVALID_CONTENT_LENGTH", "HPE_INVALID_CHUNK_SIZE",
   "HPE_INVALID_CONSTANT", "HPE_STRICT"}

MethodNames == Methods \union {"HEAD", "DELETE"}
StatusCodes == Statuses \union {"0"}
Versions == {"0.0", "0.9", "1.1"}

Parsers ==
  [type : {"HTTP_BOTH", "HTTP_REQUEST", "HTTP_RESPONSE"}, state : States,
   flags : SUBSET Flags, content_length : 0 .. ULLONG_MAX,
   header_state : HeaderStates, method : MethodNames,
   status_code : StatusCodes, version : Versions, upgrade : BOOLEAN,
   http_errno : Errnos]

ParserTypeOK ==
  /\ parser \in Parsers
  /\ executing \in BOOLEAN
  /\ data \in Text
  /\ marks \in [DOMAIN marks -> Text] /\ DOMAIN marks \subseteq Data
  /\ cb.cb \in Data \union {"none", "headers_complete", "message_complete"}
  /\ cb.at \in Text

\* Which mark can be set: that of the text the state is within, and that of
\* a body up to the callback for it.
BodyStates == {"s_body_identity", "s_body_identity_eof", "s_chunk_data",
               "s_chunk_data_almost_done"}
MarkOf(s) == TextOf(s) \union (IF s \in BodyStates THEN {"body"} ELSE {})

MarksOK == IF executing THEN DOMAIN marks \subseteq MarkOf(parser.state)
                        ELSE DOMAIN marks = {}

\* The size of a chunk was read, and did not overflow.
ChunkSizeIsRead ==
  parser.state \in ChunkStates \ {"s_chunk_size_start"} =>
    parser.content_length < ULLONG_MAX

ParserInv == /\ ParserTypeOK /\ MarksOK /\ ChunkSizeIsRead
             /\ BodyIsKnown /\ InnerCaseExists
=============================================================================
