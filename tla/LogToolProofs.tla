--------------------------- MODULE LogToolProofs ---------------------------
(***************************************************************************)
(* The assertions of http_parser_execute never fail, and the log tool      *)
(* loses nothing of what it reads: for every input, well-formed or not,    *)
(* wherever the reads end, every size of the buffers and every width of    *)
(* the content length.  The fields it logs with a message are that         *)
(* message's, if the callbacks are made in order (CallbackStream).         *)
(***************************************************************************)
EXTENDS LogTool, SequenceLemmas, FiniteSetTheorems

-----------------------------------------------------------------------------
\* The parser.  What is known of its next record and of its marks gives the
\* rest of the invariant.
Known(p) ==
  /\ p \in Parsers
  /\ p.state \in {"s_body_identity", "s_chunk_data"} =>
       p.content_length \notin {0, ULLONG_MAX}
  /\ p.state = "s_chunk_data_almost_done" => p.content_length = 0
  /\ p.state \in ChunkStates => "F_CHUNKED" \in p.flags
  /\ p.state \in ChunkStates \ {"s_chunk_size_start"} =>
       p.content_length < ULLONG_MAX
  /\ p.state = "s_header_value" =>
       p.header_state \in InnerCases \/ InConnection(p.header_state)

LEMMA KnownIsInvariant ==
  ParserInv <=> ParserTypeOK /\ MarksOK /\ Known(parser)
BY DEF ParserInv, ParserTypeOK, Known, BodyIsKnown, Chunked, ChunkSizeIsRead,
   InnerCaseExists

LEMMA MarkFacts ==
  /\ \A s \in States :
       /\ s \notin {"s_header_field", "s_header_value", "s_req_path",
                    "s_res_status"} \union BodyStates => MarkOf(s) = {}
       /\ s \in BodyStates => MarkOf(s) = {"body"}
  /\ MarkOf("s_header_field") = {"header_field"}
  /\ MarkOf("s_header_value") = {"header_value"}
  /\ MarkOf("s_req_path") = {"url"}
  /\ MarkOf("s_res_status") = {"status"}
BY DEF MarkOf, TextOf, BodyStates, States, ChunkStates

\* The marks and the data, of any step.
TextsOK == /\ data \in Text
           /\ marks \in [DOMAIN marks -> Text] /\ DOMAIN marks \subseteq Data
           /\ cb.cb \in Data \union {"none", "headers_complete", "message_complete"}
           /\ cb.at \in Text

LEMMA NothingIsText == <<>> \in Text
BY DEF Text

LEMMA CallbackFacts ==
  /\ NoCallback.cb = "none" /\ NoCallback.at = <<>>
  /\ MessageComplete.cb = "message_complete" /\ MessageComplete.at = <<>>
  /\ HeadersComplete.cb = "headers_complete" /\ HeadersComplete.at = <<>>
  /\ \A k, at : Callback(k, at).cb = k /\ Callback(k, at).at = at
  /\ DOMAIN NoMarks = {}
BY DEF NoCallback, MessageComplete, HeadersComplete, Callback, NoMarks

LEMMA AdvanceFacts ==
  ASSUME TextsOK, data # <<>>, NEW next, NEW kept,
         kept \in [DOMAIN kept -> Text], DOMAIN kept \subseteq Data,
         Advance(next, kept)
  PROVE  /\ parser' = next /\ DOMAIN marks' = DOMAIN kept
         /\ UNCHANGED executing
         /\ data' \in Text /\ marks' \in [DOMAIN marks' -> Text]
<1>1. Head(data) \in STRING /\ Tail(data) \in Text
  BY DEF TextsOK, Text
<1>2. ASSUME NEW k \in DOMAIN kept PROVE Append(kept[k], Head(data)) \in Text
  <2>1. kept[k] \in Seq(STRING)
    BY DEF Text
  <2>2. ASSUME NEW S, NEW s \in Seq(S), NEW x \in S PROVE Append(s, x) \in Seq(S)
    OBVIOUS
  <2> QED
    BY <1>1, <2>1, <2>2, Zenon DEF Text
<1> QED
  BY <1>1, <1>2 DEF Advance, Ch

LEMMA UnmarkedFacts ==
  ASSUME TextsOK, NEW k
  PROVE  /\ Unmarked(k) \in [DOMAIN Unmarked(k) -> Text]
         /\ DOMAIN Unmarked(k) = DOMAIN marks \ {k}
         /\ CallbackFor(k).cb \in Data \union {"none"} /\ CallbackFor(k).at \in Text
BY NothingIsText, CallbackFacts DEF TextsOK, Unmarked, CallbackFor

LEMMA MarkedFacts ==
  ASSUME TextsOK, NEW k
  PROVE  /\ Marked(k) \in [DOMAIN Marked(k) -> Text]
         /\ DOMAIN Marked(k) = DOMAIN marks \union {k}
BY NothingIsText DEF TextsOK, Marked

LEMMA ConsumeFacts ==
  ASSUME TextsOK, data # <<>>, NEW next, Consume(next)
  PROVE  /\ parser' = next /\ DOMAIN marks' = DOMAIN marks
         /\ UNCHANGED executing /\ TextsOK'
BY AdvanceFacts, CallbackFacts, NothingIsText DEF Consume, TextsOK

LEMMA MarkAndConsumeFacts ==
  ASSUME TextsOK, data # <<>>, NEW k \in Data, NEW next, MarkAndConsume(k, next)
  PROVE  /\ parser' = next /\ DOMAIN marks' = DOMAIN marks \union {k}
         /\ UNCHANGED executing /\ TextsOK'
<1>1. DOMAIN Marked(k) \subseteq Data
  BY MarkedFacts DEF TextsOK
<1> QED
  BY <1>1, MarkedFacts, AdvanceFacts, CallbackFacts, NothingIsText
  DEF MarkAndConsume, TextsOK

LEMMA ReexecuteFacts ==
  ASSUME TextsOK, NEW next, Reexecute(next)
  PROVE  /\ parser' = next /\ DOMAIN marks' = DOMAIN marks
         /\ UNCHANGED executing /\ TextsOK'
BY CallbackFacts, NothingIsText DEF Reexecute, TextsOK

LEMMA CallbackDataFacts ==
  ASSUME TextsOK, data # <<>>, NEW k, NEW next,
         CallbackData(k, next) \/ CallbackDataNoAdvance(k, next)
  PROVE  /\ parser' = next /\ DOMAIN marks' = DOMAIN marks \ {k}
         /\ UNCHANGED executing /\ TextsOK'
<1>1. DOMAIN Unmarked(k) \subseteq Data
  BY UnmarkedFacts DEF TextsOK
<1>2. CASE CallbackData(k, next)
  BY <1>1, <1>2, UnmarkedFacts, AdvanceFacts DEF CallbackData, TextsOK
<1>3. CASE CallbackDataNoAdvance(k, next)
  BY <1>1, <1>3, UnmarkedFacts DEF CallbackDataNoAdvance, TextsOK
<1> QED
  BY <1>2, <1>3

LEMMA FailFacts ==
  ASSUME TextsOK, Known(parser), NEW errno \in Errnos, Fail(errno)
  PROVE  /\ Known(parser') /\ DOMAIN marks' = {} /\ ~executing' /\ TextsOK'
<1>1. parser' \in Parsers /\ \A f \in {"state", "content_length", "flags", "header_state"} :
                               parser'[f] = parser[f]
  BY DEF Fail, Known, Parsers
<1>2. Known(parser')
  BY <1>1 DEF Known
<1> QED
  BY <1>2, CallbackFacts, NothingIsText DEF Fail, TextsOK, NoMarks

LEMMA PlainKnown ==
  ASSUME NEW p \in Parsers,
         p.state \notin ChunkStates \union {"s_body_identity", "s_header_value"}
  PROVE  Known(p)
BY DEF Known, ChunkStates

\* What a step within a call has to keep.
StepOK == Known(parser') /\ TextsOK' /\ MarksOK' /\ executing' \in BOOLEAN

LEMMA FailOK ==
  ASSUME TextsOK, Known(parser), NEW errno \in Errnos, Fail(errno)
  PROVE  StepOK
BY FailFacts DEF StepOK, MarksOK, Fail

\* A step that goes to a state without a mark, ...
LEMMA PlainOK ==
  ASSUME TextsOK, data # <<>>, executing, NEW next \in Parsers,
         DOMAIN marks = {},
         next.state \notin ChunkStates \union {"s_body_identity", "s_header_value"},
         Consume(next) \/ Reexecute(next)
  PROVE  StepOK
<1>1. parser' = next /\ DOMAIN marks' = {} /\ executing' /\ TextsOK'
  BY ConsumeFacts, ReexecuteFacts
<1> QED
  BY <1>1, PlainKnown DEF StepOK, MarksOK

\* ... to one that sets its mark, ...
LEMMA MarkOK ==
  ASSUME TextsOK, data # <<>>, executing, NEW next, Known(next),
         DOMAIN marks = {}, NEW k \in Data, MarkOf(next.state) = {k},
         MarkAndConsume(k, next)
  PROVE  StepOK
<1>1. parser' = next /\ DOMAIN marks' = {k} /\ executing' /\ TextsOK'
  BY MarkAndConsumeFacts
<1> QED
  BY <1>1 DEF StepOK, MarksOK

\* ... that stays where it is, ...
LEMMA StayOK ==
  ASSUME TextsOK, data # <<>>, executing, MarksOK, NEW next, Known(next),
         next.state = parser.state, Consume(next)
  PROVE  StepOK
<1>1. parser' = next /\ DOMAIN marks' = DOMAIN marks /\ executing' /\ TextsOK'
  BY ConsumeFacts
<1> QED
  BY <1>1 DEF StepOK, MarksOK

\* ... and to one that has its callback made.
LEMMA CallbackOK ==
  ASSUME TextsOK, data # <<>>, executing, NEW k, DOMAIN marks \subseteq {k},
         NEW next, Known(next),
         CallbackData(k, next) \/ CallbackDataNoAdvance(k, next)
  PROVE  StepOK
<1>1. parser' = next /\ DOMAIN marks' = {} /\ executing' /\ TextsOK'
  BY CallbackDataFacts
<1> QED
  BY <1>1 DEF StepOK, MarksOK

-----------------------------------------------------------------------------
LEMMA NoMarkIn ==
  ASSUME MarksOK, executing, NEW s \in States, parser.state = s,
         s \notin {"s_header_field", "s_header_value", "s_req_path",
                   "s_res_status"} \union BodyStates
  PROVE  DOMAIN marks = {}
BY MarkFacts DEF MarksOK

LEMMA FreshFacts ==
  ASSUME NEW p \in Parsers
  PROVE  Fresh(p) \in Parsers /\ Fresh(p).state = p.state
<1>1. ULLONG_MAX \in 0 .. ULLONG_MAX /\ {} \in SUBSET Flags
  BY WidthAssumption
<1> QED
  BY <1>1 DEF Fresh, Parsers

LEMMA StartLineKept ==
  ASSUME TextsOK, Known(parser), MarksOK, StartLine
  PROVE  StepOK
<1>1. data # <<>> /\ executing /\ parser \in Parsers
  BY DEF StartLine, StartReqOrRes, ResOrRespH, ResHttpMinor,
     ResFirstStatusCode, ResStatusCode, ResStatusStart, ResStatus,
     ResLineAlmostDone, StartReq, ReqMethod, ReqSpacesBeforeUrl, ReqUrl,
     ReqHttpStart, ReqHttpH, ReqHttpMinor, ReqLineAlmostDone, In, Known
<1>2. parser.state \notin {"s_req_path", "s_res_status"} => DOMAIN marks = {}
  <2> SUFFICES ASSUME parser.state \notin {"s_req_path", "s_res_status"}
               PROVE  DOMAIN marks = {}
    OBVIOUS
  <2>1. parser.state \in
          {"s_start_req_or_res", "s_res_or_resp_H", "s_res_http_minor",
           "s_res_first_status_code", "s_res_status_code",
           "s_res_status_start", "s_res_line_almost_done", "s_start_req",
           "s_req_method", "s_req_spaces_before_url", "s_req_http_start",
           "s_req_http_H", "s_req_http_minor", "s_req_line_almost_done"}
    BY DEF StartLine, StartReqOrRes, ResOrRespH, ResHttpMinor,
       ResFirstStatusCode, ResStatusCode, ResStatusStart, ResStatus,
       ResLineAlmostDone, StartReq, ReqMethod, ReqSpacesBeforeUrl, ReqUrl,
       ReqHttpStart, ReqHttpH, ReqHttpMinor, ReqLineAlmostDone, In
  <2> QED
    BY <1>1, <2>1, MarkFacts DEF MarksOK, States, BodyStates
<1>3. ASSUME NEW next \in Parsers, DOMAIN marks = {},
             Consume(next) \/ Reexecute(next),
             next.state \notin ChunkStates \union {"s_body_identity", "s_header_value"}
      PROVE  StepOK
  BY <1>1, <1>3, PlainOK
<1>4. ASSUME NEW errno \in Errnos, Fail(errno)
      PROVE  StepOK
  BY <1>4, FailOK
<1>5. \A s \in States : To(s) \in Parsers /\ To(s).state = s
  BY <1>1 DEF To, Parsers
<1>6. CASE StartReqOrRes
  <2>1. DOMAIN marks = {}
    BY <1>2, <1>6 DEF StartReqOrRes, In
  <2>2. CASE Consume(parser)
    BY <1>1, <1>3, <1>6, <2>1, <2>2 DEF StartReqOrRes, In, ChunkStates
  <2>3. CASE Consume(Fresh(To("s_res_or_resp_H")))
    <3>1. /\ Fresh(To("s_res_or_resp_H")) \in Parsers
          /\ Fresh(To("s_res_or_resp_H")).state = "s_res_or_resp_H"
      BY <1>5, FreshFacts DEF States
    <3> QED
      BY <1>3, <2>1, <2>3, <3>1 DEF ChunkStates
  <2> DEFINE request == Fresh([To("s_start_req") EXCEPT !.type = "HTTP_REQUEST"])
  <2>4. CASE Reexecute(request)
    <3>1. request \in Parsers /\ request.state = "s_start_req"
      <4> DEFINE start == [To("s_start_req") EXCEPT !.type = "HTTP_REQUEST"]
      <4>1. start \in Parsers /\ start.state = "s_start_req"
        BY <1>1 DEF To, Parsers, States
      <4> QED
        BY <4>1, FreshFacts
    <3> QED
      BY <1>3, <2>1, <2>4, <3>1 DEF ChunkStates
  <2> QED
    BY <1>6, <2>2, <2>3, <2>4 DEF StartReqOrRes
<1>7. ASSUME NEW s \in {"s_res_first_status_code", "s_header_field_start",
                      "s_req_spaces_before_url", "s_req_line_almost_done",
                      "s_res_status_start", "s_res_line_almost_done",
                      "s_req_http_H"},
             DOMAIN marks = {}, Consume(To(s))
      PROVE  StepOK
  BY <1>3, <1>5, <1>7 DEF States, ChunkStates
<1>8. ASSUME DOMAIN marks = {}, Consume(parser),
             parser.state \in {"s_start_req_or_res", "s_res_first_status_code",
                              "s_req_spaces_before_url", "s_req_http_start"}
      PROVE  StepOK
  BY <1>1, <1>3, <1>8 DEF ChunkStates
<1>9. CASE ResHttpMinor \/ ResLineAlmostDone \/ ResStatusCode
  <2>1. DOMAIN marks = {}
    BY <1>2, <1>9 DEF ResHttpMinor, ResLineAlmostDone, ResStatusCode, In
  <2> QED
    BY <1>4, <1>7, <1>9, <2>1 DEF ResHttpMinor, ResLineAlmostDone,
       ResStatusCode, Errnos
<1>10. CASE ReqMethod \/ ReqHttpMinor \/ ReqLineAlmostDone
  <2>1. DOMAIN marks = {}
    BY <1>2, <1>10 DEF ReqMethod, ReqHttpMinor, ReqLineAlmostDone, In
  <2> QED
    BY <1>4, <1>7, <1>10, <2>1 DEF ReqMethod, ReqHttpMinor,
       ReqLineAlmostDone, Errnos
<1>11. CASE ReqHttpStart
  <2>1. DOMAIN marks = {} /\ parser.state = "s_req_http_start"
    BY <1>2, <1>11 DEF ReqHttpStart, In
  <2> QED
    BY <1>4, <1>7, <1>8, <1>11, <2>1 DEF ReqHttpStart, Errnos
<1>12. CASE ResOrRespH
  <2>1. DOMAIN marks = {}
    BY <1>2, <1>12 DEF ResOrRespH, In
  <2> DEFINE response == [To("s_res_http_minor") EXCEPT
                            !.type = "HTTP_RESPONSE", !.version = "1.1"]
             head == [To("s_req_method") EXCEPT
                        !.type = "HTTP_REQUEST", !.method = "HEAD"]
  <2>2. /\ response \in Parsers /\ response.state = "s_res_http_minor"
        /\ head \in Parsers /\ head.state = "s_req_method"
    BY <1>1 DEF To, Parsers, States, Versions, MethodNames
  <2> HIDE DEF response, head
  <2>3. Consume(response) \/ Consume(head) => StepOK
    BY <1>3, <2>1, <2>2 DEF ChunkStates
  <2> QED
    BY <1>4, <1>12, <2>3 DEF ResOrRespH, Errnos, response, head
<1>13. CASE ResFirstStatusCode
  <2>1. DOMAIN marks = {} /\ parser.state = "s_res_first_status_code"
    BY <1>2, <1>13 DEF ResFirstStatusCode, In
  <2>2. ASSUME Ch \in Statuses,
               Consume([To("s_res_status_code") EXCEPT !.status_code = Ch])
        PROVE  StepOK
    <3> DEFINE next == [To("s_res_status_code") EXCEPT !.status_code = Ch]
    <3>1. next \in Parsers /\ next.state = "s_res_status_code"
      BY <1>1, <2>2 DEF To, Parsers, States, StatusCodes
    <3> QED
      BY <1>3, <2>1, <2>2, <3>1 DEF ChunkStates
  <2> QED
    BY <1>4, <1>8, <1>13, <2>1, <2>2 DEF ResFirstStatusCode, Errnos
<1>14. CASE StartReq
  <2>1. DOMAIN marks = {}
    BY <1>2, <1>14 DEF StartReq, In
  <2>2. ASSUME Ch \in Methods,
               Consume([Fresh(To("s_req_method")) EXCEPT !.method = Ch])
        PROVE  StepOK
    <3> DEFINE next == [Fresh(To("s_req_method")) EXCEPT !.method = Ch]
    <3>1. next \in Parsers /\ next.state = "s_req_method"
      <4>1. Fresh(To("s_req_method")) \in Parsers
            /\ Fresh(To("s_req_method")).state = "s_req_method"
        BY <1>5, FreshFacts DEF States
      <4> HIDE DEF To
      <4> QED
        BY <2>2, <4>1 DEF Parsers, MethodNames
    <3> QED
      BY <1>3, <2>1, <2>2, <3>1 DEF ChunkStates
  <2> QED
    BY <1>4, <1>14, <2>2 DEF StartReq, Errnos
<1>15. CASE ReqHttpH
  <2>1. DOMAIN marks = {}
    BY <1>2, <1>15 DEF ReqHttpH, In
  <2> DEFINE next == [To("s_req_http_minor") EXCEPT !.version = "1.1"]
  <2>2. next \in Parsers /\ next.state = "s_req_http_minor"
    BY <1>1 DEF To, Parsers, States, Versions
  <2>3. Consume(next) => StepOK
    BY <1>3, <2>1, <2>2 DEF ChunkStates
  <2> QED
    BY <1>4, <1>15, <2>3 DEF ReqHttpH, Errnos
<1>16. CASE ResStatusStart \/ ReqSpacesBeforeUrl
  <2>1. DOMAIN marks = {}
    BY <1>2, <1>16 DEF ResStatusStart, ReqSpacesBeforeUrl, In
  <2>2. ASSUME NEW k \in Data, NEW s \in {"s_res_status", "s_req_path"},
               MarkOf(s) = {k}, MarkAndConsume(k, To(s))
        PROVE  StepOK
    <3>1. Known(To(s)) /\ To(s).state = s
      BY <1>5, PlainKnown DEF States, ChunkStates
    <3> QED
      BY <1>1, <2>1, <2>2, <3>1, MarkOK
  <2>3. /\ MarkAndConsume("status", To("s_res_status")) => StepOK
        /\ MarkAndConsume("url", To("s_req_path")) => StepOK
    BY <2>2, MarkFacts DEF Data
  <2>4. CASE ResStatusStart
    BY <1>7, <2>1, <2>3, <2>4 DEF ResStatusStart
  <2>5. CASE ReqSpacesBeforeUrl
    <3>1. parser.state = "s_req_spaces_before_url"
      BY <2>5 DEF ReqSpacesBeforeUrl, In
    <3> QED
      BY <1>4, <1>8, <2>1, <2>3, <2>5, <3>1 DEF ReqSpacesBeforeUrl, Errnos
  <2> QED
    BY <1>16, <2>4, <2>5
<1>17. CASE ResStatus
  <2>1. parser.state = "s_res_status" /\ DOMAIN marks \subseteq {"status"}
    BY <1>1, <1>17, MarkFacts DEF ResStatus, In, MarksOK
  <2>2. CASE Consume(parser)
    BY <1>1, <2>2, StayOK
  <2>3. ASSUME NEW s \in {"s_res_line_almost_done", "s_header_field_start"},
               CallbackData("status", To(s))
        PROVE  StepOK
    <3>1. Known(To(s))
      BY <1>5, PlainKnown DEF States, ChunkStates
    <3> QED
      BY <1>1, <2>1, <2>3, <3>1, CallbackOK
  <2> QED
    BY <1>17, <2>2, <2>3 DEF ResStatus
<1>18. CASE ReqUrl
  <2>1. parser.state = "s_req_path" /\ DOMAIN marks \subseteq {"url"}
    BY <1>1, <1>18, MarkFacts DEF ReqUrl, In, MarksOK
  <2>2. CASE Consume(parser)
    BY <1>1, <2>2, StayOK
  <2>3. CASE CallbackData("url", To("s_req_http_start"))
    <3>1. Known(To("s_req_http_start"))
      BY <1>5, PlainKnown DEF States, ChunkStates
    <3> QED
      BY <1>1, <2>1, <2>3, <3>1, CallbackOK
  <2>4. ASSUME NEW s \in {"s_req_line_almost_done", "s_header_field_start"},
               CallbackData("url", [To(s) EXCEPT !.version = "0.9"])
        PROVE  StepOK
    <3> DEFINE next == [To(s) EXCEPT !.version = "0.9"]
    <3>1. next \in Parsers /\ next.state = s
      BY <1>1 DEF To, Parsers, States, Versions
    <3>2. Known(next)
      BY <3>1, PlainKnown DEF ChunkStates
    <3> QED
      BY <1>1, <2>1, <2>4, <3>2, CallbackOK
  <2> QED
    BY <1>4, <1>18, <2>2, <2>3, <2>4 DEF ReqUrl, Errnos
<1> QED
  BY <1>6, <1>9, <1>10, <1>11, <1>12, <1>13, <1>14, <1>15, <1>16, <1>17, <1>18
  DEF StartLine

-----------------------------------------------------------------------------
\* The states of a value that the switch in s_header_value has a case for.
Handled(h) == h \in InnerCases \/ InConnection(h)

LEMMA MatchedFacts ==
  ASSUME NEW table, NEW from, NEW ch, NEW otherwise
  PROVE  \/ Matched(table, from, ch, otherwise) = otherwise
         \/ \E row \in table : Matched(table, from, ch, otherwise) = row[3]
BY DEF Matched

LEMMA NameStates ==
  ASSUME NEW from, NEW ch
  PROVE  Matched(NameTable, from, ch, "h_general") \in HeaderStates
BY MatchedFacts DEF HeaderStates

LEMMA ValueStates ==
  ASSUME NEW from, NEW ch, NEW otherwise \in HeaderStates, Handled(otherwise)
  PROVE  /\ Matched(ValueTable, from, ch, otherwise) \in HeaderStates
         /\ Handled(Matched(ValueTable, from, ch, otherwise))
<1>1. \A row \in ValueTable : row[3] \in HeaderStates
  BY DEF HeaderStates
<1>2. \A row \in ValueTable : Handled(row[3])
  BY DEF ValueTable, Handled, InnerCases, InConnection, FlagOf
<1> QED
  BY <1>1, <1>2, MatchedFacts

LEMMA HandledFacts ==
  /\ {"h_general", "h_content_length", "h_upgrade", "h_connection",
      "h_matching_connection_token", "h_matching_connection_token_start",
      "h_transfer_encoding_chunked"} \subseteq HeaderStates
  /\ \A h \in {"h_general", "h_content_length", "h_matching_connection_token",
               "h_matching_connection_token_start",
               "h_transfer_encoding_chunked"} : Handled(h)
<1>1. {row[3] : row \in NameTable \union ValueTable} \subseteq HeaderStates
  BY DEF HeaderStates
<1>2. /\ <<"h_matching_content_length", "length", "h_content_length">> \in NameTable
      /\ <<"h_matching_upgrade", "grade", "h_upgrade">> \in NameTable
      /\ <<"h_matching_connection", "ection", "h_connection">> \in NameTable
      /\ <<"h_matching_transfer_encoding_chunked", "nked",
           "h_transfer_encoding_chunked">> \in ValueTable
  BY DEF NameTable, ValueTable
<1>3. {"h_content_length", "h_upgrade", "h_connection",
       "h_transfer_encoding_chunked"} \subseteq HeaderStates
  BY <1>1, <1>2
<1>4. {"h_general", "h_matching_connection_token",
       "h_matching_connection_token_start"} \subseteq HeaderStates
  BY DEF HeaderStates
<1> QED
  BY <1>3, <1>4 DEF Handled, InnerCases, InConnection

LEMMA ValueKnown ==
  ASSUME NEW p \in Parsers, p.state = "s_header_value", Handled(p.header_state)
  PROVE  Known(p)
BY DEF Known, Handled, ChunkStates

LEMMA ToFacts ==
  ASSUME parser \in Parsers
  PROVE  \A s \in States :
           /\ To(s) \in Parsers /\ To(s).state = s
           /\ s \notin ChunkStates \union {"s_body_identity", "s_header_value"} =>
                Known(To(s))
<1>1. \A s \in States : To(s) \in Parsers /\ To(s).state = s
  BY DEF To, Parsers
<1> QED
  BY <1>1, PlainKnown

LEMMA DigitFacts ==
  /\ \A ch : IsNum(ch) => Unhex(ch) \in 0 .. 9
  /\ \A ch : IsHex(ch) => Unhex(ch) \in 0 .. 15
<1>1. \A ch : IsHex(ch) => Unhex(ch) \in 0 .. 15
  BY DEF IsHex, Unhex
<1>2. \A i \in 1 .. 16, j \in 1 .. 10 : Numerals[i] = Numerals[j] => i = j
  BY DEF Numerals
<1>3. ASSUME NEW ch, IsNum(ch) PROVE Unhex(ch) \in 0 .. 9
  <2>1. PICK j \in 1 .. 10 : Numerals[j] = ch
    BY <1>3 DEF IsNum
  <2> DEFINE i == CHOOSE i \in 1 .. 16 : Numerals[i] = ch
  <2>2. i \in 1 .. 16 /\ Numerals[i] = ch
    BY <2>1
  <2>3. i = j
    BY <1>2, <2>1, <2>2
  <2>4. Unhex(ch) = j - 1
    BY <2>3 DEF Unhex
  <2> QED
    BY <2>4
<1> QED
  BY <1>1, <1>3

\* A digit that is taken in leaves the length below the one for "none".
LEMMA LengthDigitFacts ==
  ASSUME parser \in Parsers, NEW base \in {10, 16}, ~Overflows(base),
         NEW ch, Unhex(ch) \in 0 .. base - 1
  PROVE  /\ Digit(base, ch) % (ULLONG_MAX + 1) = Digit(base, ch)
         /\ Digit(base, ch) \in 0 .. ULLONG_MAX - 1
<1> DEFINE n == parser.content_length
           m == ULLONG_MAX
           u == Unhex(ch)
<1>1. n \in Nat /\ m \in Nat /\ m >= 16 /\ u \in Nat /\ u < base
  BY WidthAssumption DEF Parsers
<1>2. n <= (m - base) \div base
  BY <1>1 DEF Overflows
<1>3. n * base <= m - base
  <2>1. CASE base = 10
    <3>1. n <= (m - 10) \div 10
      BY <1>2, <2>1
    <3> HIDE DEF n, m
    <3>2. n * 10 <= m - 10
      BY <1>1, <3>1
    <3> QED
      BY <2>1, <3>2
  <2>2. CASE base = 16
    <3>1. n <= (m - 16) \div 16
      BY <1>2, <2>2
    <3> HIDE DEF n, m
    <3>2. n * 16 <= m - 16
      BY <1>1, <3>1
    <3> QED
      BY <2>2, <3>2
  <2> QED
    BY <2>1, <2>2
<1>4. n * base \in Nat
  BY <1>1
<1>5. Digit(base, ch) = n * base + u
  BY DEF Digit
<1> HIDE DEF n, m, u
<1>6. n * base + u \in 0 .. m - 1
  BY <1>1, <1>3, <1>4
<1>7. ASSUME NEW x \in Nat, NEW y \in Nat, x < y PROVE x % y = x
  BY <1>7
<1>8. (n * base + u) % (m + 1) = n * base + u
  BY <1>1, <1>6, <1>7
<1> QED
  BY <1>5, <1>6, <1>8 DEF m

\* A digit more, in a value or in the size of a chunk.
LEMMA LengthDigitKept ==
  ASSUME TextsOK, Known(parser), MarksOK, data # <<>>, executing,
         parser.state \in {"s_header_value", "s_chunk_size"},
         NEW base \in {10, 16}, Unhex(Ch) \in 0 .. base - 1,
         LengthDigit(base, parser)
  PROVE  StepOK
<1>1. CASE Overflows(base)
  <2>1. Fail("HPE_INVALID_CONTENT_LENGTH")
    BY <1>1 DEF LengthDigit
  <2> QED
    BY <2>1, FailOK DEF Errnos
<1>2. CASE ~Overflows(base)
  <2> DEFINE n == Digit(base, Ch) % (ULLONG_MAX + 1)
             next == [parser EXCEPT !.content_length = n]
  <2>1. Consume(next)
    BY <1>2 DEF LengthDigit
  <2>2. n \in 0 .. ULLONG_MAX - 1
    BY <1>2, LengthDigitFacts DEF Known
  <2>3. ULLONG_MAX \in Nat
    BY WidthAssumption
  <2>4. n \in 0 .. ULLONG_MAX /\ n < ULLONG_MAX
    BY <2>2, <2>3
  <2> HIDE DEF n
  <2>5. next \in Parsers
    BY <2>4 DEF Known, Parsers
  <2>6. /\ next.state = parser.state /\ next.flags = parser.flags
        /\ next.header_state = parser.header_state
        /\ next.content_length = n
    BY DEF Known, Parsers
  <2>7. Known(next)
    BY <2>4, <2>5, <2>6 DEF Known
  <2> HIDE DEF next
  <2> QED
    BY <2>1, <2>6, <2>7, StayOK
<1> QED
  BY <1>1, <1>2

LEMMA StartsValueKept ==
  ASSUME TextsOK, Known(parser), data # <<>>, executing, DOMAIN marks = {},
         StartsValue
  PROVE  StepOK
<1> DEFINE h == parser.header_state
           next(state) == [To("s_header_value") EXCEPT !.header_state = state]
<1>1. parser \in Parsers /\ h \in HeaderStates
  BY DEF Known, Parsers
<1>2. To("s_header_value") \in Parsers /\ To("s_header_value").state = "s_header_value"
  BY <1>1, ToFacts DEF States
<1>3. ASSUME NEW s \in HeaderStates
      PROVE  next(s) \in Parsers /\ next(s).state = "s_header_value"
             /\ next(s).header_state = s
  <2> DEFINE value == To("s_header_value")
  <2>1. value \in Parsers /\ value.state = "s_header_value"
    BY <1>2
  <2> HIDE DEF value
  <2>2. /\ [value EXCEPT !.header_state = s] \in Parsers
        /\ [value EXCEPT !.header_state = s].state = "s_header_value"
        /\ [value EXCEPT !.header_state = s].header_state = s
    BY <2>1 DEF Parsers
  <2> QED
    BY <2>2 DEF value
<1>4. ASSUME NEW p \in Parsers, p.state = "s_header_value",
             Handled(p.header_state), MarkAndConsume("header_value", p)
      PROVE  StepOK
  BY <1>4, ValueKnown, MarkFacts, MarkOK DEF Data
<1>5. ASSUME NEW s \in HeaderStates, Handled(s),
             MarkAndConsume("header_value", next(s))
      PROVE  StepOK
  <2> HIDE DEF next
  <2> QED
    BY <1>3, <1>4, <1>5
<1>6. CASE h = "h_upgrade"
  <2> DEFINE general == next("h_general")
             flagged == [general EXCEPT !.flags = @ \union {"F_UPGRADE"}]
  <2>1. general \in Parsers /\ general.state = "s_header_value"
        /\ general.header_state = "h_general"
    BY <1>3, HandledFacts
  <2> HIDE DEF general, next
  <2>2. flagged \in Parsers /\ flagged.state = "s_header_value"
        /\ flagged.header_state = "h_general"
    BY <2>1 DEF Parsers, Flags
  <2>3. MarkAndConsume("header_value", flagged)
    BY <1>6 DEF StartsValue, general, next
  <2> QED
    BY <1>4, <2>2, <2>3, HandledFacts
<1>7. CASE h = "h_content_length"
  <2>1. CASE IsNum(Ch)
    <3> DEFINE value == next(h)
               digit == [value EXCEPT !.content_length = Unhex(Ch)]
    <3>1. MarkAndConsume("header_value", digit)
      BY <1>7, <2>1 DEF StartsValue
    <3>2. value \in Parsers /\ value.state = "s_header_value"
          /\ value.header_state = h
      BY <1>1, <1>3
    <3>3. Unhex(Ch) \in 0 .. ULLONG_MAX
      BY <2>1, DigitFacts, WidthAssumption
    <3> HIDE DEF value, next
    <3>4. digit \in Parsers /\ digit.state = "s_header_value"
          /\ digit.header_state = h
      BY <3>2, <3>3 DEF Parsers
    <3> QED
      BY <1>4, <1>7, <3>1, <3>4, HandledFacts
  <2>2. CASE ~IsNum(Ch)
    <3>1. Fail("HPE_INVALID_CONTENT_LENGTH")
      BY <1>7, <2>2 DEF StartsValue
    <3> QED
      BY <3>1, FailOK DEF Errnos
  <2> QED
    BY <2>1, <2>2
<1>8. CASE h = "h_connection"
  <2>1. MarkAndConsume("header_value",
          next(Matched(ValueTable, h, Ch, "h_matching_connection_token")))
    BY <1>8 DEF StartsValue
  <2> QED
    BY <1>5, <2>1, ValueStates, HandledFacts
<1>9. CASE h = "h_matching_connection_token_start"
  <2>1. MarkAndConsume("header_value", next(h))
    BY <1>9 DEF StartsValue
  <2> QED
    BY <1>1, <1>5, <1>9, <2>1, HandledFacts
<1>10. CASE h \notin {"h_upgrade", "h_content_length", "h_connection",
                      "h_matching_connection_token_start"}
  <2>1. MarkAndConsume("header_value", next(Matched(ValueTable, h, Ch, "h_general")))
    BY <1>10 DEF StartsValue
  <2> QED
    BY <1>5, <2>1, ValueStates, HandledFacts
<1> QED
  BY <1>6, <1>7, <1>8, <1>9, <1>10

LEMMA NextOptionFacts ==
  ASSUME NEW h \in HeaderStates, Handled(h), NEW ch
  PROVE  NextOption(h, ch) \in HeaderStates /\ Handled(NextOption(h, ch))
<1> DEFINE token == "h_matching_connection_token"
           start == "h_matching_connection_token_start"
<1>1. /\ {token, start, "h_general"} \subseteq HeaderStates
      /\ \A s \in {token, start, "h_general"} : Handled(s)
  BY HandledFacts
<1>2. ASSUME NEW from, NEW otherwise \in {token, "h_general"}
      PROVE  /\ Matched(ValueTable, from, ch, otherwise) \in HeaderStates
             /\ Handled(Matched(ValueTable, from, ch, otherwise))
  BY <1>1, ValueStates
<1>3. \/ NextOption(h, ch) \in {token, start, h}
      \/ \E from : \E otherwise \in {token, "h_general"} :
           NextOption(h, ch) = Matched(ValueTable, from, ch, otherwise)
  <2> DEFINE found(from, otherwise) == Matched(ValueTable, from, ch, otherwise)
  <2>1. \/ NextOption(h, ch) \in {token, start, h}
        \/ NextOption(h, ch) = found("h_connection",
                                 IF IsToken(ch) THEN token ELSE "h_general")
        \/ NextOption(h, ch) = found(h, token)
    <3>1. CASE h = start
      <4>1. NextOption(h, ch) =
              IF ch = SP THEN h
              ELSE found("h_connection", IF IsToken(ch) THEN token ELSE "h_general")
        BY <3>1 DEF NextOption, FlagOf
      <4> QED
        BY <4>1
    <3>2. CASE h = token
      BY <3>2 DEF NextOption, FlagOf
    <3>3. CASE FlagOf(h) # {}
      BY <3>3 DEF NextOption, FlagOf
    <3>4. CASE h \notin {start, token} /\ FlagOf(h) = {}
      BY <3>4 DEF NextOption
    <3> QED
      BY <3>1, <3>2, <3>3, <3>4
  <2>2. (IF IsToken(ch) THEN token ELSE "h_general") \in {token, "h_general"}
    OBVIOUS
  <2> HIDE DEF found
  <2>3. \/ NextOption(h, ch) \in {token, start, h}
        \/ \E from : \E otherwise \in {token, "h_general"} :
             NextOption(h, ch) = found(from, otherwise)
    BY <2>1, <2>2
  <2> QED
    BY <2>3 DEF found
<1>4. CASE NextOption(h, ch) \in {token, start, h}
  BY <1>1, <1>4
<1>5. CASE \E from : \E otherwise \in {token, "h_general"} :
             NextOption(h, ch) = Matched(ValueTable, from, ch, otherwise)
  BY <1>2, <1>5
<1> QED
  BY <1>3, <1>4, <1>5

LEMMA HeaderDoneFacts ==
  ASSUME parser \in Parsers
  PROVE  HeaderDone \in Parsers /\ HeaderDone.state = "s_header_field_start"
         /\ Known(HeaderDone)
<1> DEFINE flags == parser.flags \union FlagAtEnd(parser.header_state)
<1>1. flags \in SUBSET Flags
  BY DEF Parsers, Flags, FlagAtEnd, FlagOf
<1>2. HeaderDone = [To("s_header_field_start") EXCEPT !.flags = flags]
  BY DEF HeaderDone, To
<1> HIDE DEF flags
<1>3. HeaderDone \in Parsers /\ HeaderDone.state = "s_header_field_start"
  BY <1>1, <1>2 DEF To, Parsers, States
<1> QED
  BY <1>3, PlainKnown DEF ChunkStates

\* What the next record of a header field's case is built from.
LEMMA HeaderStateFacts ==
  ASSUME NEW p \in Parsers, NEW s \in HeaderStates
  PROVE  /\ [p EXCEPT !.header_state = s] \in Parsers
         /\ [p EXCEPT !.header_state = s].state = p.state
         /\ [p EXCEPT !.header_state = s].header_state = s
BY DEF Parsers

LEMMA HeaderValueKept ==
  ASSUME TextsOK, Known(parser), MarksOK, HeaderValue
  PROVE  StepOK
<1> DEFINE h == parser.header_state
           next(state) == [parser EXCEPT !.header_state = state]
<1>1. /\ data # <<>> /\ executing /\ parser \in Parsers /\ h \in HeaderStates
      /\ parser.state = "s_header_value" /\ Handled(h)
  BY DEF HeaderValue, In, Known, Parsers, Handled
<1>2. DOMAIN marks \subseteq {"header_value"}
  BY <1>1, MarkFacts DEF MarksOK
<1>3. ASSUME NEW p \in Parsers, p.state = "s_header_value",
             Handled(p.header_state), Consume(p)
      PROVE  StepOK
  BY <1>1, <1>3, ValueKnown, StayOK
<1>4. ASSUME NEW s \in HeaderStates, Handled(s)
      PROVE  next(s) \in Parsers /\ next(s).state = "s_header_value"
             /\ next(s).header_state = s
  BY <1>1, <1>4, HeaderStateFacts
<1>5. ASSUME NEW s \in HeaderStates, Handled(s), Consume(next(s))
      PROVE  StepOK
  <2> HIDE DEF next
  <2> QED
    BY <1>3, <1>4, <1>5
<1>6. ASSUME \/ CallbackData("header_value", To("s_header_almost_done"))
             \/ CallbackDataNoAdvance("header_value", To("s_header_almost_done"))
      PROVE  StepOK
  <2>1. Known(To("s_header_almost_done"))
    BY <1>1, ToFacts DEF States, ChunkStates
  <2> QED
    BY <1>1, <1>2, <1>6, <2>1, CallbackOK
<1>7. ASSUME h = "h_content_length",
             IF Ch = SP THEN Consume(parser)
             ELSE IF IsNum(Ch) THEN LengthDigit(10, parser)
             ELSE Fail("HPE_INVALID_CONTENT_LENGTH")
      PROVE  StepOK
  <2>1. CASE Consume(parser)
    BY <1>1, <2>1, StayOK
  <2>2. CASE IsNum(Ch) /\ LengthDigit(10, parser)
    <3>1. Unhex(Ch) \in 0 .. 10 - 1
      BY <2>2, DigitFacts
    <3> QED
      BY <1>1, <2>2, <3>1, LengthDigitKept
  <2>3. CASE Fail("HPE_INVALID_CONTENT_LENGTH")
    BY <2>3, FailOK DEF Errnos
  <2> QED
    BY <1>7, <2>1, <2>2, <2>3
<1>8. ASSUME Consume([next(NextOption(h, Ch)) EXCEPT !.flags =
                        IF Ch = "," THEN @ \union FlagOf(h) ELSE @])
      PROVE  StepOK
  <2> DEFINE option == next(NextOption(h, Ch))
             flags == IF Ch = "," THEN option.flags \union FlagOf(h)
                      ELSE option.flags
             flagged == [option EXCEPT !.flags = flags]
  <2>1. option \in Parsers /\ option.state = "s_header_value"
        /\ Handled(option.header_state)
    BY <1>1, <1>4, NextOptionFacts, Zenon
  <2>2. Consume(flagged)
    BY <1>8
  <2> HIDE DEF option, next
  <2>3. flags \in SUBSET Flags
    BY <2>1 DEF Parsers, Flags, FlagOf
  <2> HIDE DEF flags
  <2>4. flagged \in Parsers /\ flagged.state = "s_header_value"
        /\ flagged.header_state = option.header_state
    BY <2>1, <2>3 DEF Parsers
  <2> HIDE DEF flagged
  <2> QED
    BY <1>3, <2>1, <2>2, <2>4
<1>9. ASSUME h = "h_transfer_encoding_chunked",
             Consume(next(IF Ch = SP THEN h ELSE "h_general"))
      PROVE  StepOK
  <2> DEFINE s == IF Ch = SP THEN h ELSE "h_general"
  <2>1. s \in HeaderStates /\ Handled(s)
    BY <1>1, HandledFacts
  <2> HIDE DEF s
  <2>2. Consume(next(s))
    BY <1>9 DEF s
  <2> QED
    BY <1>5, <2>1, <2>2
<1>10. ASSUME Consume(next(Matched(ValueTable, h, Ch, "h_general")))
       PROVE  StepOK
  BY <1>5, <1>10, ValueStates, HandledFacts
<1>11. CASE Ch \in {CR, LF}
  <2>1. \/ CallbackData("header_value", To("s_header_almost_done"))
        \/ CallbackDataNoAdvance("header_value", To("s_header_almost_done"))
    BY <1>11 DEF HeaderValue
  <2> QED
    BY <1>6, <2>1
<1>12. CASE Ch \notin {CR, LF}
  <2>1. \/ /\ h = "h_content_length"
           /\ IF Ch = SP THEN Consume(parser)
              ELSE IF IsNum(Ch) THEN LengthDigit(10, parser)
              ELSE Fail("HPE_INVALID_CONTENT_LENGTH")
        \/ Consume([next(NextOption(h, Ch)) EXCEPT !.flags =
                      IF Ch = "," THEN @ \union FlagOf(h) ELSE @])
        \/ /\ h = "h_transfer_encoding_chunked"
           /\ Consume(next(IF Ch = SP THEN h ELSE "h_general"))
        \/ Consume(next(Matched(ValueTable, h, Ch, "h_general")))
    BY <1>12 DEF HeaderValue
  <2> QED
    BY <1>7, <1>8, <1>9, <1>10, <2>1
<1> QED
  BY <1>11, <1>12

LEMMA InitialisedFacts ==
  /\ Initialised \in Parsers /\ Initialised.state = "s_start_req_or_res"
  /\ Initialised.upgrade = FALSE
  /\ Known(Initialised)
<1>1. 0 \in 0 .. ULLONG_MAX
  BY WidthAssumption
<1>2. {} \in SUBSET Flags /\ "h_general" \in HeaderStates
      /\ "s_start_req_or_res" \in States /\ "HPE_OK" \in Errnos
      /\ "DELETE" \in MethodNames /\ "0" \in StatusCodes /\ "0.0" \in Versions
  BY DEF HeaderStates, States, Errnos, MethodNames, StatusCodes, Versions
<1>3. Initialised \in Parsers /\ Initialised.state = "s_start_req_or_res"
      /\ Initialised.upgrade = FALSE
  BY <1>1, <1>2 DEF Initialised, Parsers
<1> QED
  BY <1>3, PlainKnown DEF ChunkStates

\* The end of a message, and of the call if the flag says so.
LEMMA CompletesOK ==
  ASSUME TextsOK, data # <<>>, DOMAIN marks = {}, MessageCompletes,
         data' = Tail(data), executing' \in BOOLEAN,
         marks' = marks \/ marks' = NoMarks
  PROVE  StepOK
<1>1. parser' = Initialised /\ Known(parser')
  BY InitialisedFacts DEF MessageCompletes
<1>2. DOMAIN marks' = {} /\ marks' \in [DOMAIN marks' -> Text]
  BY CallbackFacts DEF TextsOK, NoMarks
<1>3. data' \in Text
  BY DEF TextsOK, Text
<1>4. cb'.cb = "message_complete" /\ cb'.at \in Text
  BY CallbackFacts, NothingIsText DEF MessageCompletes
<1> QED
  BY <1>1, <1>2, <1>3, <1>4 DEF StepOK, TextsOK, MarksOK

LEMMA HeadersDoneKept ==
  ASSUME TextsOK, Known(parser), MarksOK, HeadersDone
  PROVE  StepOK
<1>1. /\ data # <<>> /\ executing /\ parser \in Parsers
      /\ parser.state = "s_headers_done" /\ data' = Tail(data)
  BY DEF HeadersDone, In, Known
<1>2. DOMAIN marks = {}
  BY <1>1, NoMarkIn DEF States, BodyStates
<1>3. CASE MessageCompletes /\ executing' \in BOOLEAN
           /\ (marks' = marks \/ marks' = NoMarks)
  BY <1>1, <1>2, <1>3, CompletesOK
<1> DEFINE s == IF Chunked THEN "s_chunk_size_start"
                ELSE IF NeedsEof THEN "s_body_identity_eof"
                ELSE "s_body_identity"
           n == parser.content_length
<1>4. CASE /\ Chunked \/ ~(n = 0 \/ (n = ULLONG_MAX /\ ~NeedsEof))
           /\ parser' = To(s) /\ cb' = NoCallback
           /\ UNCHANGED <<executing, marks>>
  <2>1. s \in States
    BY DEF States, ChunkStates
  <2>2. /\ parser' \in Parsers /\ parser'.state = s
        /\ parser'.flags = parser.flags /\ parser'.content_length = n
    BY <1>1, <1>4, <2>1 DEF To, Parsers
  <2>3. s = "s_chunk_size_start" => "F_CHUNKED" \in parser.flags
    BY DEF Chunked
  <2>4. s = "s_body_identity" => n \notin {0, ULLONG_MAX}
    BY <1>4
  <2>5. s \in {"s_chunk_size_start", "s_body_identity_eof", "s_body_identity"}
    OBVIOUS
  <2> HIDE DEF s, n
  <2>6. Known(parser')
    BY <2>2, <2>3, <2>4, <2>5 DEF Known, ChunkStates
  <2>7. Tail(data) \in Text
    BY <1>1 DEF TextsOK, Text
  <2>8. TextsOK'
    BY <1>1, <1>4, <2>7, CallbackFacts, NothingIsText DEF TextsOK
  <2> QED
    BY <1>1, <1>2, <1>4, <2>6, <2>8 DEF StepOK, MarksOK
<1> HIDE DEF s
<1> QED
  BY <1>1, <1>3, <1>4 DEF HeadersDone, s

LEMMA FieldsKept ==
  ASSUME TextsOK, Known(parser), MarksOK, Fields
  PROVE  StepOK
<1>1. data # <<>> /\ executing /\ parser \in Parsers
  BY DEF Fields, HeaderFieldStart, HeaderField, HeaderValueDiscardWs,
     HeaderValueDiscardWsAlmostDone, HeaderValueDiscardLws, HeaderValueStart,
     HeaderValue, HeaderAlmostDone, HeaderValueLws, HeadersAlmostDone,
     HeadersDone, In, Known
<1>2. parser.state \in
        {"s_header_field_start", "s_header_value_discard_ws",
         "s_header_value_discard_ws_almost_done",
         "s_header_value_discard_lws", "s_header_value_start",
         "s_header_almost_done", "s_header_value_lws",
         "s_headers_almost_done", "s_headers_done"} => DOMAIN marks = {}
  BY <1>1, NoMarkIn DEF States, BodyStates
<1>3. ASSUME NEW errno \in Errnos, Fail(errno)
      PROVE  StepOK
  BY <1>3, FailOK
<1>4. ASSUME NEW s \in States, DOMAIN marks = {},
             s \notin ChunkStates \union {"s_body_identity", "s_header_value"},
             Consume(To(s)) \/ Reexecute(To(s))
      PROVE  StepOK
  BY <1>1, <1>4, ToFacts, PlainOK
<1>5. CASE HeaderFieldStart
  <2>1. parser.state = "s_header_field_start" /\ DOMAIN marks = {}
    BY <1>2, <1>5 DEF HeaderFieldStart, In
  <2>2. CASE Consume(To("s_headers_almost_done")) \/ Reexecute(To("s_headers_almost_done"))
    BY <1>4, <2>1, <2>2 DEF States, ChunkStates
  <2> DEFINE h == Matched(NameTable, "none", Ch, "h_general")
             name == To("s_header_field")
             next == [name EXCEPT !.header_state = h]
  <2>3. CASE MarkAndConsume("header_field", next)
    <3>1. h \in HeaderStates
      BY NameStates
    <3>2. name \in Parsers /\ name.state = "s_header_field"
      BY <1>1, ToFacts DEF States
    <3> HIDE DEF h, name
    <3>3. next \in Parsers /\ next.state = "s_header_field"
      BY <3>1, <3>2, HeaderStateFacts
    <3>4. Known(next)
      BY <3>3, PlainKnown DEF ChunkStates
    <3> QED
      BY <1>1, <2>1, <2>3, <3>3, <3>4, MarkFacts, MarkOK DEF Data
  <2>4. CASE Fail("HPE_INVALID_HEADER_TOKEN")
    BY <1>3, <2>4 DEF Errnos
  <2> QED
    BY <1>5, <2>2, <2>3, <2>4 DEF HeaderFieldStart
<1>6. CASE HeaderField
  <2>1. parser.state = "s_header_field" /\ DOMAIN marks \subseteq {"header_field"}
    BY <1>1, <1>6, MarkFacts DEF HeaderField, In, MarksOK
  <2> DEFINE h == Matched(NameTable, parser.header_state, Ch, "h_general")
             next == [parser EXCEPT !.header_state = h]
  <2>2. CASE Consume(next)
    <3>1. h \in HeaderStates
      BY NameStates
    <3> HIDE DEF h
    <3>2. next \in Parsers /\ next.state = "s_header_field"
      BY <1>1, <2>1, <3>1, HeaderStateFacts
    <3>3. Known(next)
      BY <3>2, PlainKnown DEF ChunkStates
    <3> QED
      BY <1>1, <2>1, <2>2, <3>2, <3>3, StayOK
  <2>3. CASE CallbackData("header_field", To("s_header_value_discard_ws"))
    <3>1. Known(To("s_header_value_discard_ws"))
      BY <1>1, ToFacts DEF States, ChunkStates
    <3> QED
      BY <1>1, <2>1, <2>3, <3>1, CallbackOK
  <2>4. CASE Fail("HPE_INVALID_HEADER_TOKEN")
    BY <1>3, <2>4 DEF Errnos
  <2> QED
    BY <1>6, <2>2, <2>3, <2>4 DEF HeaderField
<1>7. CASE HeaderValueDiscardWs
  <2>1. parser.state = "s_header_value_discard_ws" /\ DOMAIN marks = {}
    BY <1>2, <1>7 DEF HeaderValueDiscardWs, In
  <2>2. CASE Consume(parser)
    BY <1>1, <2>2, StayOK
  <2>3. CASE \/ Consume(To("s_header_value_discard_ws_almost_done"))
             \/ Consume(To("s_header_value_discard_lws"))
    BY <1>4, <2>1, <2>3 DEF States, ChunkStates
  <2>4. CASE StartsValue
    BY <1>1, <2>1, <2>4, StartsValueKept
  <2> QED
    BY <1>7, <2>2, <2>3, <2>4 DEF HeaderValueDiscardWs
<1>8. CASE HeaderValueStart
  BY <1>1, <1>2, <1>8, StartsValueKept DEF HeaderValueStart, In
<1>9. CASE HeaderValueDiscardWsAlmostDone \/ HeaderAlmostDone
  <2>1. DOMAIN marks = {}
    BY <1>2, <1>9 DEF HeaderValueDiscardWsAlmostDone, HeaderAlmostDone, In
  <2>2. CASE \/ Consume(To("s_header_value_discard_lws"))
             \/ Consume(To("s_header_value_lws"))
    BY <1>4, <2>1, <2>2 DEF States, ChunkStates
  <2>3. CASE Fail("HPE_STRICT")
    BY <1>3, <2>3 DEF Errnos
  <2> QED
    BY <1>9, <2>2, <2>3 DEF HeaderValueDiscardWsAlmostDone, HeaderAlmostDone
<1>10. CASE HeaderValueDiscardLws
  <2>1. DOMAIN marks = {}
    BY <1>2, <1>10 DEF HeaderValueDiscardLws, In
  <2>2. CASE Consume(To("s_header_value_discard_ws"))
    BY <1>4, <2>1, <2>2 DEF States, ChunkStates
  <2>3. CASE /\ cb' = Callback("header_value", <<>>)
             /\ parser' = HeaderDone
             /\ UNCHANGED <<executing, data, marks>>
    <3>1. Known(parser')
      BY <1>1, <2>3, HeaderDoneFacts
    <3>2. TextsOK'
      BY <2>3, CallbackFacts, NothingIsText DEF TextsOK, Data
    <3> QED
      BY <1>1, <2>1, <2>3, <3>1, <3>2 DEF StepOK, MarksOK
  <2> QED
    BY <1>10, <2>2, <2>3 DEF HeaderValueDiscardLws
<1>11. CASE HeaderValue
  BY <1>11, HeaderValueKept
<1>12. CASE HeaderValueLws
  <2>1. DOMAIN marks = {}
    BY <1>2, <1>12 DEF HeaderValueLws, In
  <2>2. CASE Reexecute(To("s_header_value_start"))
    BY <1>4, <2>1, <2>2 DEF States, ChunkStates
  <2>3. CASE Reexecute(HeaderDone)
    BY <1>1, <2>1, <2>3, HeaderDoneFacts, PlainOK DEF ChunkStates
  <2> QED
    BY <1>12, <2>2, <2>3 DEF HeaderValueLws
<1>13. CASE HeadersAlmostDone
  <2>1. DOMAIN marks = {}
    BY <1>2, <1>13 DEF HeadersAlmostDone, In
  <2>2. CASE Fail("HPE_STRICT")
    BY <1>3, <2>2 DEF Errnos
  <2>3. CASE Reexecute(To("s_message_done"))
    BY <1>4, <2>1, <2>3 DEF States, ChunkStates
  <2> DEFINE upgrade == \/ {"F_UPGRADE", "F_CONNECTION_UPGRADE"} \subseteq parser.flags
                        \/ parser.method = "CONNECT"
             done == To("s_headers_done")
             next == [done EXCEPT !.upgrade = upgrade]
  <2>4. CASE /\ parser' = next
             /\ cb' = HeadersComplete
             /\ UNCHANGED <<executing, data, marks>>
    <3>1. upgrade \in BOOLEAN
      OBVIOUS
    <3>2. done \in Parsers /\ done.state = "s_headers_done"
      BY <1>1, ToFacts DEF States
    <3> HIDE DEF upgrade, done
    <3>3. next \in Parsers /\ next.state = "s_headers_done"
      BY <3>1, <3>2 DEF Parsers
    <3>4. Known(next)
      BY <3>3, PlainKnown DEF ChunkStates
    <3> HIDE DEF next
    <3>5. TextsOK'
      BY <2>4, CallbackFacts, NothingIsText DEF TextsOK
    <3> QED
      BY <1>1, <2>1, <2>4, <3>4, <3>5 DEF StepOK, MarksOK
  <2> QED
    BY <1>13, <2>2, <2>3, <2>4 DEF HeadersAlmostDone
<1>14. CASE HeadersDone
  BY <1>14, HeadersDoneKept
<1> QED
  BY <1>5, <1>6, <1>7, <1>8, <1>9, <1>10, <1>11, <1>12, <1>13, <1>14 DEF Fields

-----------------------------------------------------------------------------
LEMMA PartOfText ==
  ASSUME NEW t \in Text, NEW m \in Nat \ {0}, NEW n \in 0 .. Len(t)
  PROVE  SubSeq(t, m, n) \in Text
<1>1. t \in Seq(STRING)
  BY DEF Text
<1> QED
  BY <1>1, PartSeq, Zenon DEF Text

LEMMA TextConcat ==
  ASSUME NEW s \in Text, NEW t \in Text
  PROVE  s \o t \in Text
<1>1. s \in Seq(STRING) /\ t \in Seq(STRING)
  BY DEF Text
<1> QED
  BY <1>1, ConcatSeq, Zenon DEF Text

LEMMA ToReadFacts ==
  ASSUME TextsOK, parser \in Parsers
  PROVE  /\ Len(data) \in Nat /\ parser.content_length \in Nat
         /\ parser.content_length <= ULLONG_MAX /\ ULLONG_MAX \in Nat
         /\ ToRead \in 0 .. Len(data) /\ ToRead <= parser.content_length
         /\ ToRead \in {Len(data), parser.content_length}
         /\ ToRead = Len(data) \/ parser.content_length < Len(data)
<1>1. Len(data) \in Nat
  BY DEF TextsOK, Text
<1>2. parser.content_length \in 0 .. ULLONG_MAX /\ ULLONG_MAX \in Nat
  BY WidthAssumption DEF Parsers
<1> QED
  BY <1>1, <1>2 DEF ToRead

LEMMA MarkBodyFacts ==
  ASSUME TextsOK, NEW n \in 0 .. Len(data)
  PROVE  /\ MarkBody(n) \in [DOMAIN MarkBody(n) -> Text]
         /\ DOMAIN MarkBody(n) = DOMAIN marks \union {"body"}
         /\ MarkBody(n)["body"] \in Text
<1> DEFINE kept(k) == IF k \in DOMAIN marks THEN marks[k] ELSE <<>>
           keys == DOMAIN marks \union {"body"}
<1>1. SubSeq(data, 1, n) \in Text
  <2>1. data \in Text /\ 1 \in Nat \ {0}
    BY DEF TextsOK
  <2> QED
    BY <2>1, PartOfText, Zenon
<1>2. ASSUME NEW k PROVE kept(k) \in Text
  BY NothingIsText DEF TextsOK
<1> HIDE DEF kept
<1>3. ASSUME NEW k PROVE kept(k) \o SubSeq(data, 1, n) \in Text
  BY <1>1, <1>2, TextConcat
<1>4. MarkBody(n) = [k \in keys |-> kept(k) \o SubSeq(data, 1, n)]
  BY DEF MarkBody, kept
<1>5. "body" \in keys
  OBVIOUS
<1> HIDE DEF keys
<1>6. [k \in keys |-> kept(k) \o SubSeq(data, 1, n)] \in [keys -> Text]
  BY <1>3
<1>7. DOMAIN MarkBody(n) = keys
  BY <1>4
<1> QED
  BY <1>4, <1>5, <1>6, <1>7 DEF keys

LEMMA ReadBodyOK ==
  ASSUME TextsOK, parser \in Parsers, executing, DOMAIN marks \subseteq {"body"},
         NEW state \in BodyStates, ReadBody(ToRead, state),
         parser.content_length \notin {0, ULLONG_MAX},
         state # "s_chunk_data_almost_done" => parser.content_length # ToRead,
         state = "s_chunk_data_almost_done" => parser.content_length = ToRead,
         state \in ChunkStates => "F_CHUNKED" \in parser.flags
  PROVE  StepOK
<1> DEFINE c == parser.content_length - ToRead
           at == To(state)
           next == [at EXCEPT !.content_length = c]
<1>1. c \in 0 .. ULLONG_MAX /\ c < ULLONG_MAX
      /\ (state # "s_chunk_data_almost_done" => c # 0)
      /\ (state = "s_chunk_data_almost_done" => c = 0)
  BY ToReadFacts
<1>2. at \in Parsers /\ at.state = state /\ at.flags = parser.flags
  BY DEF To, Parsers, States, BodyStates, ChunkStates
<1>3. parser' = next
  BY DEF ReadBody, To
<1> HIDE DEF c, at
<1>4. next \in Parsers /\ next.state = state /\ next.flags = parser.flags
      /\ next.content_length = c
  BY <1>1, <1>2 DEF Parsers
<1> HIDE DEF next
<1>5. Known(parser')
  BY <1>1, <1>3, <1>4 DEF Known, BodyStates, ChunkStates
<1>6. ToRead \in 0 .. Len(data) /\ Len(data) \in Nat
  BY ToReadFacts
<1>7. SubSeq(data, ToRead + 1, Len(data)) \in Text
  <2>1. data \in Text
    BY DEF TextsOK
  <2>2. ToRead + 1 \in Nat \ {0} /\ Len(data) \in 0 .. Len(data)
    BY <1>6
  <2> QED
    BY <2>1, <2>2, PartOfText, Zenon
<1>8. /\ marks' \in [DOMAIN marks' -> Text] /\ DOMAIN marks' = {"body"}
      /\ data' \in Text /\ executing' = executing /\ cb' = NoCallback
  BY <1>6, <1>7, MarkBodyFacts DEF ReadBody
<1>9. TextsOK'
  BY <1>8, CallbackFacts, NothingIsText DEF TextsOK, Data
<1>10. MarkOf(parser'.state) = {"body"}
  BY <1>2, <1>3, <1>4, MarkFacts DEF Parsers
<1> QED
  BY <1>5, <1>8, <1>9, <1>10 DEF StepOK, MarksOK

LEMMA IdentityKept ==
  ASSUME TextsOK, Known(parser), MarksOK, BodyIdentity \/ BodyIdentityEof
  PROVE  StepOK
<1>1. /\ data # <<>> /\ executing /\ parser \in Parsers
      /\ DOMAIN marks \subseteq {"body"} /\ Len(data) \in Nat
  <2>1. parser.state \in {"s_body_identity", "s_body_identity_eof"}
        /\ data # <<>> /\ executing
    BY DEF BodyIdentity, BodyIdentityEof, In
  <2>2. MarkOf(parser.state) = {"body"}
    BY <2>1, MarkFacts DEF States, BodyStates
  <2> QED
    BY <2>1, <2>2 DEF Known, MarksOK, TextsOK, Text
<1>2. CASE BodyIdentity
  <2>1. parser.state = "s_body_identity" /\ parser.content_length \notin {0, ULLONG_MAX}
    BY <1>2 DEF BodyIdentity, In, Known
  <2>2. CASE parser.content_length > Len(data)
    <3>1. ReadBody(ToRead, "s_body_identity")
      BY <1>2, <2>2 DEF BodyIdentity
    <3>2. parser.content_length # ToRead
      BY <1>1, <2>2, ToReadFacts
    <3> QED
      BY <1>1, <2>1, <3>1, <3>2, ReadBodyOK DEF BodyStates, ChunkStates
  <2>3. CASE ~(parser.content_length > Len(data))
    <3> DEFINE at == To("s_message_done")
               next == [at EXCEPT !.content_length = 0]
    <3>1. /\ parser' = next
          /\ cb' = Callback("body", MarkBody(ToRead)["body"])
          /\ marks' = Unmarked("body")
          /\ data' = SubSeq(data, ToRead, Len(data))
          /\ UNCHANGED executing
      BY <1>2, <2>3 DEF BodyIdentity
    <3>2. ToRead \in 1 .. Len(data)
      BY <1>1, <2>1, <2>3, ToReadFacts
    <3>3. next \in Parsers /\ next.state = "s_message_done"
      <4>1. at \in Parsers /\ at.state = "s_message_done"
        BY <1>1, ToFacts DEF States
      <4>2. 0 \in 0 .. ULLONG_MAX
        BY WidthAssumption
      <4> HIDE DEF at
      <4> QED
        BY <4>1, <4>2 DEF Parsers
    <3> HIDE DEF next
    <3>4. Known(parser')
      BY <3>1, <3>3, PlainKnown DEF ChunkStates
    <3>5. data' \in Text
      BY <1>1, <3>1, <3>2, PartOfText DEF TextsOK
    <3>6. marks' \in [DOMAIN marks' -> Text] /\ DOMAIN marks' = {}
      BY <1>1, <3>1, UnmarkedFacts
    <3>7. cb'.cb = "body" /\ cb'.at \in Text
      BY <3>1, <3>2, MarkBodyFacts, CallbackFacts
    <3>8. TextsOK'
      BY <3>5, <3>6, <3>7 DEF TextsOK, Data
    <3> QED
      BY <1>1, <3>1, <3>4, <3>6, <3>8 DEF StepOK, MarksOK
  <2> QED
    BY <2>2, <2>3
<1>3. CASE BodyIdentityEof
  <2>1. /\ parser.state = "s_body_identity_eof" /\ marks' = MarkBody(Len(data))
        /\ data' = <<>> /\ cb' = NoCallback /\ UNCHANGED <<parser, executing>>
    BY <1>3 DEF BodyIdentityEof, In
  <2>2. marks' \in [DOMAIN marks' -> Text] /\ DOMAIN marks' = {"body"}
    <3>1. Len(data) \in 0 .. Len(data)
      BY <1>1
    <3>2. DOMAIN MarkBody(Len(data)) = DOMAIN marks \union {"body"}
          /\ MarkBody(Len(data)) \in [DOMAIN MarkBody(Len(data)) -> Text]
      BY <3>1, MarkBodyFacts
    <3> QED
      BY <1>1, <2>1, <3>2
  <2>3. TextsOK'
    BY <2>1, <2>2, CallbackFacts, NothingIsText DEF TextsOK, Data
  <2>4. MarkOf(parser'.state) = {"body"}
    BY <2>1, MarkFacts DEF States, BodyStates
  <2> QED
    BY <1>1, <2>1, <2>2, <2>3, <2>4 DEF StepOK, MarksOK
<1> QED
  BY <1>2, <1>3

\* A state of a chunk's, with a length that was read.
LEMMA ChunkKnown ==
  ASSUME NEW p \in Parsers, p.state \in ChunkStates, "F_CHUNKED" \in p.flags,
         p.state # "s_chunk_size_start" => p.content_length < ULLONG_MAX,
         p.state \notin {"s_chunk_data", "s_chunk_data_almost_done"}
  PROVE  Known(p)
BY DEF Known, ChunkStates

LEMMA BodyKept ==
  ASSUME TextsOK, Known(parser), MarksOK, Body
  PROVE  StepOK
<1> DEFINE n == parser.content_length
<1>1. data # <<>> /\ executing /\ parser \in Parsers
  BY DEF Body, BodyIdentity, BodyIdentityEof, MessageDone, ChunkSizeStart,
     ChunkSize, ChunkParameters, ChunkSizeAlmostDone, ChunkData,
     ChunkDataAlmostDone, ChunkDataDone, In, Known
<1>2. parser.state \in {"s_message_done", "s_chunk_size_start", "s_chunk_size",
                        "s_chunk_parameters", "s_chunk_size_almost_done",
                        "s_chunk_data_done"} => DOMAIN marks = {}
  BY <1>1, NoMarkIn DEF States, BodyStates, ChunkStates
<1>3. parser.state \in {"s_chunk_data", "s_chunk_data_almost_done"} =>
        DOMAIN marks \subseteq {"body"}
  <2> SUFFICES ASSUME parser.state \in {"s_chunk_data", "s_chunk_data_almost_done"}
               PROVE  DOMAIN marks \subseteq {"body"}
    OBVIOUS
  <2>1. MarkOf(parser.state) = {"body"}
    BY MarkFacts DEF States, BodyStates, ChunkStates
  <2> QED
    BY <1>1, <2>1 DEF MarksOK
<1>4. parser.state \in ChunkStates => "F_CHUNKED" \in parser.flags
  BY DEF Known
<1>5. parser.state \in ChunkStates \ {"s_chunk_size_start"} => n < ULLONG_MAX
  BY DEF Known
<1>6. \A s \in States : To(s) \in Parsers /\ To(s).state = s
                        /\ To(s).flags = parser.flags /\ To(s).content_length = n
  BY <1>1 DEF To, Parsers
<1>7. ASSUME NEW errno \in Errnos, Fail(errno)
      PROVE  StepOK
  BY <1>7, FailOK
<1>8. ASSUME NEW next, Known(next), DOMAIN marks = {}, Consume(next)
      PROVE  StepOK
  <2>1. parser' = next /\ DOMAIN marks' = {} /\ executing' /\ TextsOK'
    BY <1>1, <1>8, ConsumeFacts
  <2> QED
    BY <1>8, <2>1 DEF StepOK, MarksOK
<1>9. CASE BodyIdentity \/ BodyIdentityEof
  BY <1>9, IdentityKept
<1>10. CASE MessageDone
  <2>1. MessageCompletes /\ data' = Tail(data) /\ UNCHANGED marks
    BY <1>10 DEF MessageDone
  <2>2. executing' = ~parser'.upgrade
    BY <1>10 DEF MessageDone
  <2>3. executing' \in BOOLEAN
    BY <2>2
  <2>4. DOMAIN marks = {}
    BY <1>2, <1>10 DEF MessageDone, In
  <2> QED
    BY <1>1, <2>1, <2>3, <2>4, CompletesOK
<1>11. CASE ChunkSizeStart
  <2>1. parser.state = "s_chunk_size_start" /\ DOMAIN marks = {}
        /\ "F_CHUNKED" \in parser.flags
    BY <1>2, <1>4, <1>11 DEF ChunkSizeStart, In, ChunkStates
  <2>2. CASE IsHex(Ch) /\ Consume([To("s_chunk_size") EXCEPT !.content_length = Unhex(Ch)])
    <3> DEFINE at == To("s_chunk_size")
               next == [at EXCEPT !.content_length = Unhex(Ch)]
    <3>1. Unhex(Ch) \in 0 .. 15
      BY <2>2, DigitFacts
    <3>2. Unhex(Ch) \in 0 .. ULLONG_MAX /\ Unhex(Ch) < ULLONG_MAX
      BY <3>1, WidthAssumption
    <3>3. at \in Parsers /\ at.state = "s_chunk_size" /\ at.flags = parser.flags
      BY <1>6 DEF States, ChunkStates
    <3> HIDE DEF at
    <3>4. next \in Parsers /\ next.state = "s_chunk_size"
          /\ next.flags = parser.flags /\ next.content_length = Unhex(Ch)
      BY <3>2, <3>3 DEF Parsers
    <3>5. Consume(next)
      BY <2>2 DEF at
    <3> HIDE DEF next
    <3>6. Known(next)
      BY <2>1, <3>2, <3>4, ChunkKnown DEF ChunkStates
    <3> QED
      BY <1>8, <2>1, <3>5, <3>6
  <2>3. CASE Fail("HPE_INVALID_CHUNK_SIZE")
    BY <1>7, <2>3 DEF Errnos
  <2> QED
    BY <1>11, <2>2, <2>3 DEF ChunkSizeStart
<1>12. ASSUME NEW s \in {"s_chunk_size_almost_done", "s_chunk_parameters"},
              parser.state \in {"s_chunk_size", "s_chunk_parameters"},
              Consume(To(s))
       PROVE  StepOK
  <2>1. To(s) \in Parsers /\ To(s).state = s
        /\ To(s).flags = parser.flags /\ To(s).content_length = n
    BY <1>6 DEF States, ChunkStates
  <2>2. DOMAIN marks = {} /\ "F_CHUNKED" \in parser.flags /\ n < ULLONG_MAX
    BY <1>2, <1>4, <1>5, <1>12 DEF ChunkStates
  <2>3. Known(To(s))
    BY <2>1, <2>2, ChunkKnown DEF ChunkStates
  <2> QED
    BY <1>8, <1>12, <2>2, <2>3
<1>13. CASE ChunkSize
  <2>1. parser.state = "s_chunk_size"
    BY <1>13 DEF ChunkSize, In
  <2>2. CASE \/ Consume(To("s_chunk_size_almost_done"))
             \/ Consume(To("s_chunk_parameters"))
    BY <1>12, <2>1, <2>2
  <2>3. CASE IsHex(Ch) /\ LengthDigit(16, parser)
    <3>1. Unhex(Ch) \in 0 .. 16 - 1
      BY <2>3, DigitFacts
    <3> QED
      BY <1>1, <2>1, <2>3, <3>1, LengthDigitKept
  <2>4. CASE Fail("HPE_INVALID_CHUNK_SIZE")
    BY <1>7, <2>4 DEF Errnos
  <2> QED
    BY <1>13, <2>2, <2>3, <2>4 DEF ChunkSize
<1>14. CASE ChunkParameters
  <2>1. parser.state = "s_chunk_parameters"
    BY <1>14 DEF ChunkParameters, In
  <2>2. CASE Consume(To("s_chunk_size_almost_done"))
    BY <1>12, <2>1, <2>2
  <2>3. CASE Consume(parser)
    BY <1>1, <2>3, StayOK
  <2> QED
    BY <1>14, <2>2, <2>3 DEF ChunkParameters
<1>15. CASE ChunkSizeAlmostDone
  <2>1. parser.state = "s_chunk_size_almost_done" /\ DOMAIN marks = {}
        /\ "F_CHUNKED" \in parser.flags /\ n < ULLONG_MAX
    BY <1>2, <1>4, <1>5, <1>15 DEF ChunkSizeAlmostDone, In, ChunkStates
  <2> DEFINE at == To("s_header_field_start")
             next == [at EXCEPT !.flags = @ \union {"F_TRAILING"}]
  <2>2. CASE Consume(next)
    <3>1. at \in Parsers /\ at.state = "s_header_field_start"
      BY <1>6 DEF States
    <3> HIDE DEF at
    <3>2. next \in Parsers /\ next.state = "s_header_field_start"
      BY <3>1 DEF Parsers, Flags
    <3> HIDE DEF next
    <3>3. Known(next)
      BY <3>2, PlainKnown DEF ChunkStates
    <3> QED
      BY <1>8, <2>1, <2>2, <3>3
  <2>3. CASE n # 0 /\ Consume(To("s_chunk_data"))
    <3>1. To("s_chunk_data") \in Parsers /\ To("s_chunk_data").state = "s_chunk_data"
          /\ To("s_chunk_data").flags = parser.flags
          /\ To("s_chunk_data").content_length = n
      BY <1>6 DEF States, ChunkStates
    <3>2. n # ULLONG_MAX
      BY <1>1, <2>1, WidthAssumption DEF Parsers
    <3>3. Known(To("s_chunk_data"))
      BY <2>1, <2>3, <3>1, <3>2 DEF Known
    <3> QED
      BY <1>8, <2>1, <2>3, <3>3
  <2>4. CASE Fail("HPE_STRICT")
    BY <1>7, <2>4 DEF Errnos
  <2> QED
    BY <1>15, <2>2, <2>3, <2>4 DEF ChunkSizeAlmostDone
<1>16. CASE ChunkData
  <2>1. parser.state = "s_chunk_data" /\ n \notin {0, ULLONG_MAX}
        /\ "F_CHUNKED" \in parser.flags /\ DOMAIN marks \subseteq {"body"}
    BY <1>3, <1>4, <1>16 DEF ChunkData, In, Known, ChunkStates
  <2>2. CASE n = ToRead
    <3>1. ReadBody(ToRead, "s_chunk_data_almost_done")
      BY <1>16, <2>2 DEF ChunkData
    <3> QED
      BY <1>1, <2>1, <2>2, <3>1, ReadBodyOK DEF BodyStates
  <2>3. CASE n # ToRead
    <3>1. ReadBody(ToRead, "s_chunk_data")
      BY <1>16, <2>3 DEF ChunkData
    <3> QED
      BY <1>1, <2>1, <2>3, <3>1, ReadBodyOK DEF BodyStates
  <2> QED
    BY <2>2, <2>3
<1>17. CASE ChunkDataAlmostDone
  <2>1. parser.state = "s_chunk_data_almost_done"
    BY <1>17 DEF ChunkDataAlmostDone, In
  <2>2. "F_CHUNKED" \in parser.flags /\ n < ULLONG_MAX
        /\ DOMAIN marks \subseteq {"body"}
    BY <1>3, <1>4, <1>5, <2>1 DEF ChunkStates
  <2>3. CASE CallbackData("body", To("s_chunk_data_done"))
    <3>1. To("s_chunk_data_done") \in Parsers
          /\ To("s_chunk_data_done").state = "s_chunk_data_done"
          /\ To("s_chunk_data_done").flags = parser.flags
          /\ To("s_chunk_data_done").content_length = n
      BY <1>6 DEF States, ChunkStates
    <3>2. Known(To("s_chunk_data_done"))
      BY <2>2, <3>1, ChunkKnown DEF ChunkStates
    <3> QED
      BY <1>1, <2>2, <2>3, <3>2, CallbackOK
  <2>4. CASE Fail("HPE_STRICT")
    BY <1>7, <2>4 DEF Errnos
  <2> QED
    BY <1>17, <2>3, <2>4 DEF ChunkDataAlmostDone
<1>18. CASE ChunkDataDone
  <2>1. parser.state = "s_chunk_data_done"
    BY <1>18 DEF ChunkDataDone, In
  <2>2. "F_CHUNKED" \in parser.flags /\ DOMAIN marks = {}
    BY <1>2, <1>4, <2>1 DEF ChunkStates
  <2>3. CASE Consume(To("s_chunk_size_start"))
    <3>1. To("s_chunk_size_start") \in Parsers
          /\ To("s_chunk_size_start").state = "s_chunk_size_start"
          /\ To("s_chunk_size_start").flags = parser.flags
      BY <1>6 DEF States, ChunkStates
    <3>2. Known(To("s_chunk_size_start"))
      BY <2>2, <3>1, ChunkKnown DEF ChunkStates
    <3> QED
      BY <1>8, <2>2, <2>3, <3>2
  <2>4. CASE Fail("HPE_STRICT")
    BY <1>7, <2>4 DEF Errnos
  <2> QED
    BY <1>18, <2>3, <2>4 DEF ChunkDataDone
<1> QED
  BY <1>9, <1>10, <1>11, <1>13, <1>14, <1>15, <1>16, <1>17, <1>18 DEF Body

-----------------------------------------------------------------------------
LEMMA BufferEndsKept ==
  ASSUME TextsOK, Known(parser), MarksOK, BufferEnds
  PROVE  StepOK
<1>1. /\ executing' = FALSE /\ marks' = NoMarks /\ data' = data
      /\ parser' = parser
  BY DEF BufferEnds
<1>2. cb'.cb \in Data \union {"none"} /\ cb'.at \in Text
  <2>1. CASE DOMAIN marks = {}
    BY <2>1, CallbackFacts, NothingIsText DEF BufferEnds
  <2>2. CASE DOMAIN marks # {}
    <3> DEFINE k == CHOOSE k \in DOMAIN marks : TRUE
    <3>1. k \in DOMAIN marks
      BY <2>2
    <3>2. cb' = Callback(k, marks[k])
      BY <2>2 DEF BufferEnds
    <3> QED
      BY <3>1, <3>2, CallbackFacts DEF TextsOK
  <2> QED
    BY <2>1, <2>2
<1>3. TextsOK'
  BY <1>1, <1>2, CallbackFacts DEF TextsOK, NoMarks
<1> QED
  BY <1>1, <1>3, CallbackFacts DEF StepOK, Known, MarksOK

LEMMA StepKept ==
  ASSUME TextsOK, Known(parser), MarksOK, Step
  PROVE  StepOK
BY StartLineKept, FieldsKept, BodyKept, BufferEndsKept DEF Step

\* The call, with a buffer that has bytes and with one that has none.
LEMMA ExecuteKept ==
  ASSUME TextsOK, Known(parser), NEW bytes \in Text, Execute(bytes)
  PROVE  StepOK
<1>1. /\ executing' = (parser.http_errno = "HPE_OK")
      /\ data' = bytes /\ cb' = NoCallback /\ parser' = parser
      /\ marks' = IF executing' THEN MarksAtStart(parser.state) ELSE NoMarks
  BY DEF Execute
<1>2. executing' \in BOOLEAN
  BY <1>1
<1>3. /\ DOMAIN MarksAtStart(parser.state) = TextOf(parser.state)
      /\ MarksAtStart(parser.state) \in [TextOf(parser.state) -> Text]
      /\ TextOf(parser.state) \subseteq Data
  BY NothingIsText DEF MarksAtStart, TextOf, Data
<1>4. TextsOK'
  BY <1>1, <1>3, CallbackFacts, NothingIsText DEF TextsOK, NoMarks
<1> QED
  BY <1>1, <1>2, <1>3, <1>4, CallbackFacts DEF StepOK, Known, MarksOK, MarkOf

LEMMA ExecuteEofKept ==
  ASSUME TextsOK, Known(parser), MarksOK, executing \in BOOLEAN, ExecuteEof
  PROVE  StepOK
<1>1. ~executing /\ UNCHANGED <<executing, data, marks>> /\ DOMAIN marks = {}
  BY DEF ExecuteEof, MarksOK
<1> DEFINE p == [parser EXCEPT !.http_errno = "HPE_INVALID_EOF_STATE"]
<1>2. p \in Parsers /\ p.state = parser.state /\ p.flags = parser.flags
      /\ p.content_length = parser.content_length
      /\ p.header_state = parser.header_state
  BY DEF Known, Parsers, Errnos
<1> HIDE DEF p
<1>3. Known(p)
  BY <1>2 DEF Known
<1>4. MessageCompletes \/ (parser' \in {parser, p} /\ cb' = NoCallback)
  BY DEF ExecuteEof, p
<1>5. Known(parser') /\ cb'.cb \in {"none", "message_complete"} /\ cb'.at \in Text
  BY <1>3, <1>4, InitialisedFacts, CallbackFacts, NothingIsText
  DEF MessageCompletes
<1>6. cb'.cb \in Data \union {"none", "headers_complete", "message_complete"}
  BY <1>5
<1>7. TextsOK'
  <2>1. data' = data /\ marks' = marks
    BY <1>1
  <2> QED
    BY <1>5, <1>6, <2>1 DEF TextsOK
<1> QED
  BY <1>1, <1>5, <1>7 DEF StepOK, MarksOK

-----------------------------------------------------------------------------
\* No step puts a byte back.
LEMMA DataShrinks ==
  ASSUME TextsOK, Known(parser), Step
  PROVE  Len(data') <= Len(data)
<1>1. Len(data) \in Nat
  BY DEF TextsOK, Text
<1>2. ASSUME data # <<>>, data' = Tail(data)
      PROVE  Len(data') <= Len(data)
  <2>1. data \in Seq(STRING)
    BY DEF TextsOK, Text
  <2> QED
    BY <1>2, <2>1
<1>3. ASSUME data' = data
      PROVE  Len(data') <= Len(data)
  BY <1>1, <1>3
<1>4. ASSUME NEW k, NEW next, NEW errno, data # <<>>,
             \/ Consume(next) \/ MarkAndConsume(k, next) \/ Reexecute(next)
             \/ CallbackData(k, next) \/ CallbackDataNoAdvance(k, next)
             \/ Fail(errno)
      PROVE  Len(data') <= Len(data)
  BY <1>2, <1>3, <1>4 DEF Consume, MarkAndConsume, Reexecute, CallbackData,
     CallbackDataNoAdvance, Fail, Advance
<1>5. ASSUME NEW n \in 0 .. Len(data), data' = SubSeq(data, n + 1, Len(data))
      PROVE  Len(data') <= Len(data)
  <2>1. data \in Seq(STRING)
    BY DEF TextsOK, Text
  <2> QED
    BY <1>1, <1>5, <2>1
<1>6. CASE StartLine
  BY <1>4, <1>6 DEF StartLine, StartReqOrRes, ResOrRespH, ResHttpMinor,
     ResFirstStatusCode, ResStatusCode, ResStatusStart, ResStatus,
     ResLineAlmostDone, StartReq, ReqMethod, ReqSpacesBeforeUrl, ReqUrl,
     ReqHttpStart, ReqHttpH, ReqHttpMinor, ReqLineAlmostDone, In
<1>7. CASE Fields
  <2>1. ASSUME StartsValue, data # <<>> PROVE Len(data') <= Len(data)
    BY <1>4, <2>1 DEF StartsValue
  <2>2. ASSUME HeaderValue PROVE Len(data') <= Len(data)
    BY <1>4, <2>2 DEF HeaderValue, LengthDigit, In
  <2>3. ASSUME HeadersAlmostDone \/ HeadersDone \/ HeaderValueDiscardLws
        PROVE  Len(data') <= Len(data)
    BY <1>2, <1>3, <1>4, <2>3 DEF HeadersAlmostDone, HeadersDone,
       HeaderValueDiscardLws, In
  <2> QED
    BY <1>4, <1>7, <2>1, <2>2, <2>3 DEF Fields, HeaderFieldStart, HeaderField,
       HeaderValueDiscardWs, HeaderValueDiscardWsAlmostDone, HeaderValueStart,
       HeaderAlmostDone, HeaderValueLws, In
<1>8. CASE Body
  <2>1. parser \in Parsers
    BY DEF Known
  <2>2. ToRead \in 0 .. Len(data)
    BY <2>1, ToReadFacts
  <2>3. ASSUME NEW state, ReadBody(ToRead, state)
        PROVE  Len(data') <= Len(data)
    BY <1>5, <2>2, <2>3 DEF ReadBody
  <2>4. ASSUME BodyIdentity PROVE Len(data') <= Len(data)
    <3>1. CASE parser.content_length > Len(data)
      BY <2>3, <2>4, <3>1 DEF BodyIdentity
    <3>2. CASE ~(parser.content_length > Len(data))
      <4>1. data' = SubSeq(data, ToRead, Len(data))
        BY <2>4, <3>2 DEF BodyIdentity
      <4>2. parser.content_length # 0 /\ data # <<>>
        BY <2>4 DEF BodyIdentity, In, Known
      <4>3. ToRead - 1 \in 0 .. Len(data) /\ (ToRead - 1) + 1 = ToRead
        BY <1>1, <2>1, <3>2, <4>2, ToReadFacts
      <4> QED
        BY <1>5, <4>1, <4>3
    <3> QED
      BY <3>1, <3>2
  <2>5. ASSUME BodyIdentityEof PROVE Len(data') <= Len(data)
    <3>1. Len(data') = 0
      BY <2>5 DEF BodyIdentityEof
    <3> QED
      BY <1>1, <3>1
  <2>6. ASSUME MessageDone PROVE Len(data') <= Len(data)
    BY <1>2, <2>6 DEF MessageDone, In
  <2>7. ASSUME ChunkSizeStart \/ ChunkSize \/ ChunkParameters
               \/ ChunkSizeAlmostDone \/ ChunkDataAlmostDone \/ ChunkDataDone
        PROVE  Len(data') <= Len(data)
    BY <1>4, <2>7 DEF ChunkSizeStart, ChunkSize, ChunkParameters, LengthDigit,
       ChunkSizeAlmostDone, ChunkDataAlmostDone, ChunkDataDone, In
  <2>8. ASSUME ChunkData PROVE Len(data') <= Len(data)
    BY <2>3, <2>8 DEF ChunkData
  <2> QED
    BY <1>8, <2>4, <2>5, <2>6, <2>7, <2>8 DEF Body
<1>9. CASE BufferEnds
  BY <1>3, <1>9 DEF BufferEnds
<1> QED
  BY <1>6, <1>7, <1>8, <1>9 DEF Step

-----------------------------------------------------------------------------
\* The copies of the tool are cut to their size.
LEMMA MinOfTwo ==
  ASSUME NEW m \in Int, NEW n \in Int
  PROVE  /\ Min({m, n}) \in {m, n}
         /\ Min({m, n}) <= m /\ Min({m, n}) <= n
<1> DEFINE least(x) == x \in {m, n} /\ \A y \in {m, n} : x <= y
<1>1. least(m) \/ least(n)
  OBVIOUS
<1>2. Min({m, n}) = CHOOSE x \in {m, n} : \A y \in {m, n} : x <= y
  BY DEF Min
<1>3. PICK x : least(x)
  BY <1>1
<1>4. least(Min({m, n}))
  BY <1>2, <1>3
<1> QED
  BY <1>4

LEMMA CutFacts ==
  ASSUME NEW t \in Text, NEW n \in Nat
  PROVE  Cut(t, n) \in Text /\ Len(Cut(t, n)) <= n
<1> DEFINE m == IF Len(t) < n THEN Len(t) ELSE n
<1>1. t \in Seq(STRING) /\ Len(t) \in Nat
  BY DEF Text
<1>2. m \in 0 .. Len(t) /\ m <= n /\ 1 \in Nat \ {0}
  BY <1>1
<1>3. Cut(t, n) = SubSeq(t, 1, m)
  BY DEF Cut
<1> HIDE DEF m
<1>4. SubSeq(t, 1, m) \in Text
  BY <1>2, PartOfText, Zenon
<1>5. Len(SubSeq(t, 1, m)) = m
  BY <1>1, <1>2
<1> QED
  BY <1>2, <1>3, <1>4, <1>5

LEMMA StrlcatFacts ==
  ASSUME NEW dst \in Text, NEW src \in Text, NEW siz \in Nat, Len(dst) < siz
  PROVE  strlcat(dst, src, siz) \in Text /\ Len(strlcat(dst, src, siz)) < siz
<1> DEFINE m == Min({Len(src), siz - Len(dst) - 1})
           part == SubSeq(src, 1, m)
<1>1. /\ dst \in Seq(STRING) /\ Len(dst) \in Nat
      /\ src \in Seq(STRING) /\ Len(src) \in Nat
  BY DEF Text
<1>2. siz - Len(dst) - 1 \in Nat
  BY <1>1
<1>3. m \in 0 .. Len(src) /\ m <= siz - Len(dst) - 1 /\ 1 \in Nat \ {0}
  <2>1. /\ m \in {Len(src), siz - Len(dst) - 1}
        /\ m <= Len(src) /\ m <= siz - Len(dst) - 1
    <3>1. Len(src) \in Int /\ siz - Len(dst) - 1 \in Int
      BY <1>1, <1>2
    <3> QED
      BY <3>1, MinOfTwo, Zenon
  <2> HIDE DEF m
  <2> QED
    BY <1>1, <1>2, <2>1
<1>4. strlcat(dst, src, siz) = dst \o part
  <2>1. ~(Len(dst) >= siz)
    BY <1>1
  <2> QED
    BY <2>1, Zenon DEF strlcat
<1> HIDE DEF m
<1>5. part \in Text
  BY <1>3, PartOfText, Zenon
<1>6. Len(part) = m
  BY <1>1, <1>3
<1> HIDE DEF part
<1>7. dst \o part \in Text
  BY <1>5, TextConcat, Zenon
<1>8. Len(dst \o part) = Len(dst) + m
  <2>1. part \in Seq(STRING)
    BY <1>5 DEF Text
  <2> QED
    BY <1>1, <1>6, <2>1
<1> QED
  BY <1>1, <1>3, <1>4, <1>7, <1>8

LEMMA LiteralFacts ==
  /\ \A x \in {"\t", ": ", "\r\n", "unknown"} : <<x>> \in Text
  /\ \A x \in {"[req]", "[res]"} : x \in STRING
  /\ MethodNames \union StatusCodes \union Versions \subseteq STRING
<1>1. ASSUME NEW x \in STRING PROVE <<x>> \in Text
  BY OneSeq, Zenon DEF Text
<1>2. \A x \in {"\t", ": ", "\r\n", "unknown", "[req]", "[res]"} : x \in STRING
  BY LiteralAssumption
<1> QED
  BY <1>1, <1>2, LiteralAssumption

LEMMA LineFacts ==
  ASSUME parser \in Parsers, url \in Text
  PROVE  Line \in Text /\ Len(Line) < STRING_MAX
<1>1. STRING_MAX - 1 \in Nat /\ STRING_MAX \in Nat
  BY SizeAssumption
<1>2. UrlShown \in Text
  BY LiteralFacts DEF UrlShown
<1>3. /\ parser.method \in STRING /\ parser.version \in STRING
      /\ parser.status_code \in STRING
      /\ "[req]" \in STRING /\ "[res]" \in STRING
  <2>1. parser.method \in MethodNames /\ parser.version \in Versions
        /\ parser.status_code \in StatusCodes
    BY DEF Parsers
  <2> QED
    BY <2>1, LiteralFacts
<1>4. ASSUME NEW S, NEW a \in S, NEW b \in S, NEW c \in S, NEW u \in Seq(S)
      PROVE  /\ <<a, b>> \o u \o <<c>> \in Seq(S)
             /\ <<a, b, c>> \o u \in Seq(S)
  OBVIOUS
<1>5. UrlShown \in Seq(STRING)
  BY <1>2 DEF Text
<1>6. /\ <<"[req]", parser.method>> \o UrlShown \o <<parser.version>> \in Text
      /\ <<"[res]", parser.version, parser.status_code>> \o UrlShown \in Text
  BY <1>3, <1>4, <1>5, Zenon DEF Text
<1>7. /\ RequestShown(parser.method, UrlShown, parser.version) \in Text
      /\ Len(RequestShown(parser.method, UrlShown, parser.version)) <= STRING_MAX - 1
      /\ ResponseShown(parser.version, parser.status_code, UrlShown) \in Text
      /\ Len(ResponseShown(parser.version, parser.status_code, UrlShown)) <= STRING_MAX - 1
  BY <1>1, <1>6, CutFacts DEF RequestShown, ResponseShown
<1>8. Line \in Text /\ Len(Line) <= STRING_MAX - 1
  BY <1>7 DEF Line
<1> QED
  BY <1>1, <1>8 DEF Text

\* The callbacks of log.c keep the types of what they write.
Copies == /\ volume \in Volumes
          /\ headers \in Text /\ Len(headers) < BUFFER_MAX
          /\ url \in Text /\ overrun \in BOOLEAN
          /\ Len(url) < URL_MAX \/ (Len(url) = URL_MAX /\ overrun)
          /\ stderr \in Seq([line : Text, fields : Text])
          /\ \A i \in DOMAIN stderr : Len(stderr[i].line) < STRING_MAX

LEMMA LoggedFacts ==
  ASSUME Copies, parser \in Parsers, NEW fields \in Text,
         stderr' = Append(stderr, [line |-> Line, fields |-> fields])
  PROVE  /\ stderr' \in Seq([line : Text, fields : Text])
         /\ \A i \in DOMAIN stderr' : Len(stderr'[i].line) < STRING_MAX
<1> DEFINE Logged == [line : Text, fields : Text]
           this == [line |-> Line, fields |-> fields]
<1>1. Line \in Text /\ Len(Line) < STRING_MAX
  BY LineFacts DEF Copies
<1>2. this \in Logged /\ Len(this.line) < STRING_MAX
  BY <1>1
<1>3. stderr \in Seq(Logged) /\ stderr' = Append(stderr, this)
      /\ \A i \in DOMAIN stderr : Len(stderr[i].line) < STRING_MAX
  BY DEF Copies
<1> HIDE DEF Logged, this
<1>4. stderr' \in Seq(Logged)
  BY <1>2, <1>3
<1>5. ASSUME NEW i \in DOMAIN stderr' PROVE Len(stderr'[i].line) < STRING_MAX
  <2>1. CASE i \in DOMAIN stderr
    <3>1. stderr'[i] = stderr[i]
      BY <1>3, <2>1
    <3> QED
      BY <1>3, <2>1, <3>1, Zenon
  <2>2. CASE i \notin DOMAIN stderr
    <3>1. stderr'[i] = this
      BY <1>2, <1>3, <2>2
    <3> QED
      BY <1>2, <3>1, Zenon
  <2> QED
    BY <2>1, <2>2
<1> QED
  BY <1>4, <1>5, Zenon DEF Logged

LEMMA CalledBackKept ==
  ASSUME Copies, parser \in Parsers, cb'.at \in Text, CalledBack
  PROVE  Copies'
<1>1. BUFFER_MAX \in Nat /\ BUFFER_MAX > 0 /\ URL_MAX \in Nat
  BY SizeAssumption
<1>2. headers \in Text /\ Len(headers) < BUFFER_MAX /\ volume' = volume
  BY DEF Copies, CalledBack
<1>3. <<"\t">> \in Text /\ <<": ">> \in Text /\ <<"\r\n">> \in Text
  BY LiteralFacts
<1>4. ASSUME NEW t \in Text, Len(t) < BUFFER_MAX, NEW u \in Text
      PROVE  strlcat(t, u, BUFFER_MAX) \in Text /\ Len(strlcat(t, u, BUFFER_MAX)) < BUFFER_MAX
  BY <1>1, <1>4, StrlcatFacts
<1>5. CASE CbLogUrl(cb'.at)
  <2> DEFINE at == cb'.at
  <2>1. url' = Cut(at, URL_MAX) /\ overrun' = (overrun \/ UrlEnd(at) >= URL_MAX)
    BY <1>5 DEF CbLogUrl, KeptOfUrl
  <2>2. at \in Text /\ Len(at) \in Nat
    BY DEF Text
  <2> HIDE DEF at
  <2>3. url' \in Text /\ Len(url') <= URL_MAX /\ Len(url') \in Nat
    <3>1. url' \in Text /\ Len(url') <= URL_MAX
      BY <1>1, <2>1, <2>2, CutFacts
    <3> QED
      BY <3>1 DEF Text
  <2>4. CASE Len(at) < URL_MAX
    <3>1. Cut(at, URL_MAX) = SubSeq(at, 1, Len(at))
      BY <2>4 DEF Cut
    <3>2. url' = at
      BY <2>1, <2>2, <3>1, NothingAdded DEF Text
    <3>3. overrun' \in BOOLEAN /\ Len(url') < URL_MAX
      BY <2>1, <2>4, <3>2 DEF Copies
    <3> QED
      BY <1>2, <1>5, <2>3, <3>3 DEF CbLogUrl, Copies
  <2>5. CASE ~(Len(at) < URL_MAX)
    <3>1. UrlEnd(at) = URL_MAX
      BY <2>5 DEF UrlEnd
    <3>4. UrlEnd(at) >= URL_MAX
      BY <1>1, <3>1
    <3>5. overrun' = TRUE
      BY <2>1, <3>4, Zenon
    <3>2. overrun' /\ overrun' \in BOOLEAN
      BY <3>5, Zenon
    <3>3. Len(url') < URL_MAX \/ (Len(url') = URL_MAX /\ overrun')
      BY <1>1, <2>3, <3>2
    <3> QED
      BY <1>2, <1>5, <2>3, <3>2, <3>3 DEF CbLogUrl, Copies
  <2> QED
    BY <2>4, <2>5
<1>6. CASE CbLogHeaderField(cb'.at)
  <2> DEFINE tab == strlcat(headers, <<"\t">>, BUFFER_MAX)
             name == strlcat(tab, cb'.at, BUFFER_MAX)
             colon == strlcat(name, <<": ">>, BUFFER_MAX)
  <2>1. tab \in Text /\ Len(tab) < BUFFER_MAX
    BY <1>2, <1>3, <1>4
  <2> HIDE DEF tab
  <2>2. name \in Text /\ Len(name) < BUFFER_MAX
    BY <1>4, <2>1
  <2> HIDE DEF name
  <2>3. colon \in Text /\ Len(colon) < BUFFER_MAX
    BY <1>3, <1>4, <2>2
  <2> HIDE DEF colon
  <2>4. headers' \in {colon, headers} /\ UNCHANGED <<url, overrun, stderr>>
    BY <1>6 DEF CbLogHeaderField, colon, name, tab
  <2>5. headers' \in Text /\ Len(headers') < BUFFER_MAX
    BY <1>2, <2>3, <2>4
  <2> QED
    BY <1>2, <2>4, <2>5 DEF Copies
<1>7. CASE CbLogHeaderValue(cb'.at)
  <2> DEFINE value == strlcat(headers, cb'.at, BUFFER_MAX)
             end == strlcat(value, <<"\r\n">>, BUFFER_MAX)
  <2>1. value \in Text /\ Len(value) < BUFFER_MAX
    BY <1>2, <1>4
  <2> HIDE DEF value
  <2>2. end \in Text /\ Len(end) < BUFFER_MAX
    BY <1>3, <1>4, <2>1
  <2> HIDE DEF end
  <2>3. headers' \in {end, headers} /\ UNCHANGED <<url, overrun, stderr>>
    BY <1>7 DEF CbLogHeaderValue, end, value
  <2>4. headers' \in Text /\ Len(headers') < BUFFER_MAX
    BY <1>2, <2>2, <2>3
  <2> QED
    BY <1>2, <2>3, <2>4 DEF Copies
<1>8. CASE CbLogMessageComplete
  <2> DEFINE fields == IF volume > 1 THEN headers ELSE <<>>
  <2>1. fields \in Text
    BY <1>2, NothingIsText
  <2> HIDE DEF fields
  <2>2. /\ stderr' = Append(stderr, [line |-> Line, fields |-> fields])
           \/ stderr' = stderr
        /\ headers' = <<>> /\ UNCHANGED <<url, overrun>>
    BY <1>8 DEF CbLogMessageComplete, fields
  <2>3. /\ stderr' \in Seq([line : Text, fields : Text])
        /\ \A i \in DOMAIN stderr' : Len(stderr'[i].line) < STRING_MAX
    <3>1. CASE stderr' = stderr
      BY <3>1, Zenon DEF Copies
    <3> QED
      BY <2>1, <2>2, <3>1, LoggedFacts
  <2>4. headers' \in Text /\ Len(headers') < BUFFER_MAX
    BY <1>1, <2>2, NothingIsText
  <2> QED
    BY <1>2, <2>2, <2>3, <2>4 DEF Copies
<1>9. CASE UNCHANGED <<url, headers, overrun, stderr>>
  BY <1>2, <1>9 DEF Copies
<1> QED
  BY <1>5, <1>6, <1>7, <1>8, <1>9 DEF CalledBack

-----------------------------------------------------------------------------
\* The tool's invariant, in the parts that its steps disturb.
Sizes == /\ pc \in {"read", "pass", "execute", "exit", "overrun"}
         /\ executing => pc \in {"execute", "overrun"}
         /\ pc = "overrun" => overrun
         /\ rc \in {"EX_OK", "EX_IOERR"}
         /\ input.wire \in Text /\ wire \in Text /\ stdout \in Text
         /\ bytes_read \in Nat
         /\ Len(data) <= bytes_read /\ bytes_read <= Len(buffer)
         /\ buffer \in Text /\ Len(buffer) <= BUFFER_MAX
         /\ pc = "read" => data = <<>>

ParserOK == Known(parser) /\ TextsOK /\ MarksOK /\ executing \in BOOLEAN

LEMMA StepOKIsParserOK == StepOK <=> ParserOK'
BY DEF StepOK, ParserOK

LEMMA ToolInvIs == ToolInv <=> Sizes /\ Copies /\ ParserOK
BY KnownIsInvariant
DEF ToolInv, TypeOK, StaysInBlock, Sizes, Copies, ParserOK, ReadWhenParsed,
    ParserTypeOK, TextsOK, ParserInv, Known

LEMMA ParserOKStays ==
  ASSUME ParserOK, UNCHANGED vars
  PROVE  ParserOK'
BY DEF ParserOK, Known, TextsOK, MarksOK, vars

LEMMA CopiesStay ==
  ASSUME Copies, UNCHANGED <<log_data, stderr>>
  PROVE  Copies'
BY DEF Copies, log_data

LEMMA InitOK ==
  ASSUME LogInit
  PROVE  Sizes /\ Copies /\ ParserOK
<1>1. ParserOK
  <2>1. TextsOK
    BY CallbackFacts, NothingIsText DEF LogInit, Init, TextsOK, NoMarks
  <2>2. MarksOK
    BY CallbackFacts DEF LogInit, Init, MarksOK
  <2> QED
    BY <2>1, <2>2, InitialisedFacts DEF LogInit, Init, ParserOK
<1>2. Sizes
  BY InputAssumption, SizeAssumption, NothingIsText DEF LogInit, Init, Sizes
<1>3. Copies
  <2>1. Len(<<>>) = 0 /\ 0 < URL_MAX /\ 0 < BUFFER_MAX /\ 0 <= URL_MAX
    BY SizeAssumption
  <2>2. url = <<>> /\ headers = <<>> /\ stderr = <<>> /\ overrun = FALSE
    BY DEF LogInit
  <2>3. volume \in Volumes
    BY DEF LogInit
  <2>4. stderr \in Seq([line : Text, fields : Text]) /\ DOMAIN stderr = {}
    BY <2>2
  <2>5. Len(headers) < BUFFER_MAX /\ Len(url) < URL_MAX
    BY <2>1, <2>2
  <2>6. headers \in Text /\ url \in Text /\ overrun \in BOOLEAN
    BY <2>2, NothingIsText, Zenon
  <2> QED
    BY <2>3, <2>4, <2>5, <2>6 DEF Copies
<1> QED
  BY <1>1, <1>2, <1>3

LEMMA PassFacts ==
  ASSUME Sizes
  PROVE  /\ SubSeq(buffer, 1, bytes_read) \in Text
         /\ stdout \o SubSeq(buffer, 1, bytes_read) \in Text
         /\ SubSeq(buffer, Len(buffer) - bytes_read + 1, Len(buffer)) \in Text
         /\ Len(SubSeq(buffer, Len(buffer) - bytes_read + 1, Len(buffer))) = bytes_read
<1> DEFINE m == Len(buffer) - bytes_read + 1
           n == Len(buffer)
<1>1. buffer \in Text /\ stdout \in Text /\ buffer \in Seq(STRING)
      /\ bytes_read \in Nat /\ bytes_read <= Len(buffer) /\ Len(buffer) \in Nat
  BY DEF Sizes, Text
<1>2. bytes_read \in 0 .. n /\ m \in Nat \ {0} /\ n \in 0 .. n /\ 1 \in Nat \ {0}
  BY <1>1
<1>3. SubSeq(buffer, m, n) \in Text /\ SubSeq(buffer, 1, bytes_read) \in Text
  BY <1>1, <1>2, PartOfText, Zenon
<1>4. stdout \o SubSeq(buffer, 1, bytes_read) \in Text
  BY <1>1, <1>3, TextConcat, Zenon
<1>5. Len(SubSeq(buffer, m, n)) = bytes_read
  <2>1. Len(SubSeq(buffer, m, n)) = n - m + 1
    BY <1>1, <1>2
  <2> QED
    BY <1>1, <2>1
<1> QED
  BY <1>3, <1>4, <1>5

LEMMA ToolStep ==
  ASSUME Sizes, Copies, ParserOK, [LogNext]_logVars
  PROVE  Sizes' /\ Copies' /\ ParserOK'
<1>1. TextsOK /\ Known(parser) /\ MarksOK /\ executing \in BOOLEAN
      /\ parser \in Parsers
  BY DEF ParserOK, Known
<1>2. Len(data) \in Nat /\ Len(buffer) \in Nat /\ Len(wire) \in Nat
      /\ bytes_read \in Nat /\ wire \in Text
  BY <1>1 DEF Sizes, TextsOK, Text
<1>3. CASE ReadMessages
  <2> DEFINE m == Min({Len(wire), BUFFER_MAX})
  <2>1. /\ pc = "read" /\ pc' = "pass"
        /\ UNCHANGED <<vars, rc, log_data, stdout, stderr, input>>
    BY <1>3 DEF ReadMessages
  <2>2. PICK n \in 1 .. m : /\ buffer' = SubSeq(wire, 1, n)
                            /\ wire' = SubSeq(wire, n + 1, Len(wire))
                            /\ bytes_read' = n
    BY <1>3 DEF ReadMessages
  <2>3. m <= Len(wire) /\ m <= BUFFER_MAX /\ m \in Int
    <3>1. Len(wire) \in Int /\ BUFFER_MAX \in Int
      BY <1>2, SizeAssumption
    <3>2. m \in {Len(wire), BUFFER_MAX} /\ m <= Len(wire) /\ m <= BUFFER_MAX
      BY <3>1, MinOfTwo, Zenon
    <3> HIDE DEF m
    <3> QED
      BY <3>1, <3>2
  <2> HIDE DEF m
  <2>4. n \in Nat /\ n \in 0 .. Len(wire) /\ n <= BUFFER_MAX /\ n + 1 \in Nat \ {0}
        /\ 1 \in Nat \ {0} /\ Len(wire) \in 0 .. Len(wire)
    BY <1>2, <2>3, SizeAssumption
  <2>5. buffer' \in Text /\ wire' \in Text
    BY <1>2, <2>2, <2>4, PartOfText, Zenon
  <2>6. Len(buffer') = n
    <3>1. wire \in Seq(STRING)
      BY <1>2 DEF Text
    <3> QED
      BY <2>2, <2>4, <3>1
  <2>7. Len(data') = 0
    BY <2>1 DEF Sizes, vars
  <2>8. Sizes'
    BY <1>1, <2>1, <2>2, <2>4, <2>5, <2>6, <2>7 DEF Sizes, vars
  <2> QED
    BY <2>1, <2>8, ParserOKStays, CopiesStay
<1>4. CASE ReadFails
  <2>1. /\ UNCHANGED <<vars, rc, log_data, stdout, stderr, stdin, bytes_read>>
        /\ pc = "read" /\ pc' = "exit"
    BY <1>4 DEF ReadFails
  <2>2. Sizes'
    BY <2>1 DEF Sizes, vars, stdin
  <2> QED
    BY <2>1, <2>2, ParserOKStays, CopiesStay
<1>5. CASE ReadEof
  <2>1. /\ ExecuteEof /\ CalledBack /\ pc = "read" /\ pc' = "exit"
        /\ UNCHANGED <<rc, stdout, stdin, bytes_read>>
    BY <1>5 DEF ReadEof
  <2>2. StepOK
    BY <1>1, <2>1, ExecuteEofKept
  <2>3. Copies'
    BY <1>1, <2>1, <2>2, CalledBackKept DEF StepOK, TextsOK
  <2>4. executing' = executing /\ data' = data
    BY <2>1 DEF ExecuteEof
  <2>5. Sizes'
    BY <2>1, <2>4 DEF Sizes, stdin
  <2> QED
    BY <2>2, <2>3, <2>5, StepOKIsParserOK
<1>6. CASE Pass
  <2> DEFINE bytes == SubSeq(buffer, Len(buffer) - bytes_read + 1, Len(buffer))
  <2>1. /\ pc' = "execute" /\ Execute(bytes)
        /\ stdout' = stdout \o SubSeq(buffer, 1, bytes_read)
        /\ UNCHANGED <<rc, log_data, stderr, stdin, bytes_read>>
    BY <1>6 DEF Pass, PassOn
  <2>2. bytes \in Text /\ Len(bytes) = bytes_read /\ stdout' \in Text
    BY <2>1, PassFacts
  <2> HIDE DEF bytes
  <2>3. StepOK
    BY <1>1, <2>1, <2>2, ExecuteKept
  <2>4. data' = bytes
    BY <2>1 DEF Execute
  <2>5. Len(data') <= bytes_read
    BY <1>2, <2>2, <2>4
  <2>6. Sizes'
    BY <2>1, <2>2, <2>5 DEF Sizes, stdin
  <2> QED
    BY <2>1, <2>3, <2>6, StepOKIsParserOK, CopiesStay
<1>7. CASE Parse
  <2>1. /\ pc = "execute" /\ Step /\ CalledBack
        /\ UNCHANGED <<pc, rc, stdout, stdin, bytes_read>>
    BY <1>7 DEF Parse
  <2>2. StepOK
    BY <1>1, <2>1, StepKept
  <2>3. Copies'
    BY <1>1, <2>1, <2>2, CalledBackKept DEF StepOK, TextsOK
  <2>4. Len(data') <= Len(data)
    BY <1>1, <2>1, DataShrinks
  <2>5. Len(data') \in Nat
    BY <2>2 DEF StepOK, TextsOK, Text
  <2>6. Len(data') <= bytes_read'
    BY <1>2, <2>1, <2>4, <2>5 DEF Sizes
  <2>7. Sizes'
    BY <2>1, <2>6 DEF Sizes, stdin
  <2> QED
    BY <2>2, <2>3, <2>7, StepOKIsParserOK
<1>8. CASE Returns
  <2>1. /\ pc = "execute" /\ ~executing
        /\ UNCHANGED <<vars, log_data, stdout, stderr, stdin>>
        /\ \/ pc' = "exit" /\ UNCHANGED <<rc, bytes_read>>
           \/ /\ bytes_read' = Len(data) /\ UNCHANGED rc
              /\ pc' = IF data = <<>> THEN "read" ELSE "pass"
           \/ pc' = "exit" /\ rc' = "EX_IOERR" /\ UNCHANGED bytes_read
    BY <1>8 DEF Returns
  <2>2. /\ pc' \in {"read", "pass", "exit"} /\ (pc' = "read" => data = <<>>)
        /\ rc' \in {rc, "EX_IOERR"} /\ bytes_read' \in {Len(data), bytes_read}
    BY <2>1
  <2>3. Len(data) <= bytes_read' /\ bytes_read' <= Len(buffer) /\ bytes_read' \in Nat
    BY <1>2, <2>2 DEF Sizes
  <2>4. Sizes'
    BY <2>1, <2>2, <2>3 DEF Sizes, vars, stdin
  <2> QED
    BY <2>1, <2>4, ParserOKStays, CopiesStay
<1>9. CASE UNCHANGED logVars
  <2>1. UNCHANGED <<vars, pc, rc, log_data, stdout, stderr, stdin, bytes_read>>
    BY <1>9 DEF logVars
  <2>2. Sizes'
    BY <2>1 DEF Sizes, vars, stdin, log_data
  <2> QED
    BY <2>1, <2>2, ParserOKStays, CopiesStay
<1>10. CASE Breaks
  <2>1. /\ pc' = "overrun" /\ overrun
        /\ UNCHANGED <<vars, rc, log_data, stdout, stderr, stdin, bytes_read>>
    BY <1>10 DEF Breaks
  <2>2. Sizes'
    BY <2>1 DEF Sizes, vars, stdin, log_data
  <2> QED
    BY <2>1, <2>2, ParserOKStays, CopiesStay
<1> QED
  BY <1>3, <1>4, <1>5, <1>6, <1>7, <1>8, <1>9, <1>10 DEF LogNext, Main, Done

\* In every state of the tool, whatever its input and wherever the reads end,
\* the parser is in a state its cases are written for and the copies of the
\* URL, of the fields and of a line are within their buffers.
THEOREM ToolInvariant == Spec => []ToolInv
<1>1. LogInit => ToolInv
  BY InitOK, ToolInvIs
<1>2. ToolInv /\ [LogNext]_logVars => ToolInv'
  <2> SUFFICES ASSUME ToolInv, [LogNext]_logVars PROVE ToolInv'
    OBVIOUS
  <2>1. Sizes /\ Copies /\ ParserOK
    BY ToolInvIs
  <2>2. Sizes' /\ Copies' /\ ParserOK'
    BY <2>1, ToolStep
  <2>3. ToolInv' <=> Sizes' /\ Copies' /\ ParserOK'
    BY ToolInvIs, PTL
  <2> QED
    BY <2>2, <2>3
<1> QED
  BY <1>1, <1>2, PTL DEF Spec

\* The types of the tool: the cuts of its copies and of the bytes that are
\* still to be parsed keep within the buffers.
THEOREM TypeCorrect == Spec => []TypeOK
<1>1. ToolInv => TypeOK
  BY DEF ToolInv
<1> QED
  BY <1>1, ToolInvariant, PTL

\* The assertions of http_parser_execute hold on every input: no two marks,
\* a length that did not wrap, and a state that the switch has a case for.
THEOREM AssertionsHold == Spec => []ParserAssertions
<1>1. ToolInv => ParserAssertions
  <2> SUFFICES ASSUME ToolInv PROVE ParserAssertions
    OBVIOUS
  <2>1. ParserOK /\ BodyIsKnown /\ InnerCaseExists
    BY ToolInvIs DEF ToolInv, ParserInv
  <2>2. parser.state \in States
    BY <2>1 DEF ParserOK, Known, Parsers
  <2>3. \E k : MarkOf(parser.state) \subseteq {k}
    BY <2>2, MarkFacts, Zenon
  <2>4. OneMark
    BY <2>1, <2>3 DEF ParserOK, MarksOK, OneMark
  <2> QED
    BY <2>1, <2>4 DEF ParserAssertions
<1> QED
  BY <1>1, ToolInvariant, PTL

-----------------------------------------------------------------------------
LEMMA TextAssociates ==
  \A r, s, t \in Seq(STRING) : (r \o s) \o t = r \o (s \o t)
OBVIOUS

\* The bytes read are on stdout, in the buffer, or still on the wire.
LEMMA NothingLostStep ==
  ASSUME Sizes, NothingLost, [LogNext]_logVars
  PROVE  NothingLost'
<1>1. stdout \in Seq(STRING) /\ wire \in Seq(STRING) /\ buffer \in Seq(STRING)
      /\ Unpassed \in Seq(STRING)
  BY NothingIsText DEF Sizes, Text, Unpassed
<1>2. SUFFICES ASSUME ~early'
      PROVE  /\ stdout' \o Unpassed' \o wire' = input'.wire
             /\ pc' = "pass" => bytes_read' = Len(buffer')
             /\ pc' = "exit" /\ ~failed' /\ ~parser'.upgrade /\ rc' = "EX_OK" =>
                  wire' = <<>>
  BY DEF NothingLost
<1>3. ASSUME ~early
      PROVE  /\ stdout \o Unpassed \o wire = input.wire
             /\ pc = "pass" => bytes_read = Len(buffer)
             /\ pc = "exit" /\ ~failed /\ ~parser.upgrade /\ rc = "EX_OK" =>
                  wire = <<>>
  BY <1>3 DEF NothingLost
<1>4. CASE ReadMessages
  <2> DEFINE m == Min({Len(wire), BUFFER_MAX})
  <2>1. /\ pc = "read" /\ pc' = "pass" /\ ~early
        /\ UNCHANGED <<stdout, input>>
    BY <1>2, <1>4 DEF ReadMessages
  <2>2. PICK n \in 1 .. m : /\ buffer' = SubSeq(wire, 1, n)
                            /\ wire' = SubSeq(wire, n + 1, Len(wire))
                            /\ bytes_read' = n
    BY <1>4 DEF ReadMessages
  <2>3. n \in Nat /\ n \in 0 .. Len(wire)
    <3>1. Len(wire) \in Int /\ BUFFER_MAX \in Int
      BY <1>1, SizeAssumption
    <3>2. m \in {Len(wire), BUFFER_MAX} /\ m <= Len(wire)
      BY <3>1, MinOfTwo, Zenon
    <3> HIDE DEF m
    <3> QED
      BY <3>1, <3>2
  <2> HIDE DEF m
  <2>4. buffer' \o wire' = wire
    BY <1>1, <2>2, <2>3, InTwoParts, Zenon
  <2>5. buffer' \in Seq(STRING) /\ wire' \in Seq(STRING) /\ Len(buffer') = n
    BY <1>1, <2>2, <2>3
  <2>6. Unpassed = <<>> /\ Unpassed' = buffer'
    BY <2>1 DEF Unpassed
  <2>7. stdout' \o Unpassed' \o wire' = stdout \o (buffer' \o wire')
    <3>1. stdout' = stdout
      BY <2>1
    <3>2. (stdout \o buffer') \o wire' = stdout \o (buffer' \o wire')
      <4>1. /\ stdout \in Seq(STRING) /\ buffer' \in Seq(STRING)
            /\ wire' \in Seq(STRING)
        BY <1>1, <2>5
      <4> QED
        BY <4>1, TextAssociates, Zenon
    <3>3. stdout' \o Unpassed' \o wire' = (stdout \o buffer') \o wire'
      BY <2>6, <3>1
    <3> QED
      BY <3>2, <3>3
  <2>8. stdout \o Unpassed \o wire = stdout \o wire
    BY <1>1, <2>6, NothingAdded, Zenon
  <2> QED
    BY <1>3, <2>1, <2>2, <2>4, <2>5, <2>7, <2>8
<1>5. CASE ReadFails
  <2>1. /\ UNCHANGED <<stdout, wire, input, early>> /\ pc = "read" /\ pc' = "exit"
        /\ failed'
    BY <1>5 DEF ReadFails, stdin
  <2>2. Unpassed' = Unpassed
    BY <2>1 DEF Unpassed
  <2> QED
    BY <1>2, <1>3, <2>1, <2>2
<1>6. CASE ReadEof
  <2>1. /\ UNCHANGED <<stdout, wire, input, early>> /\ pc = "read" /\ pc' = "exit"
        /\ wire = <<>>
    BY <1>6 DEF ReadEof, stdin
  <2>2. Unpassed' = Unpassed
    BY <2>1 DEF Unpassed
  <2> QED
    BY <1>2, <1>3, <2>1, <2>2
<1>7. CASE Pass
  <2>1. /\ stdout' = stdout \o SubSeq(buffer, 1, bytes_read)
        /\ pc = "pass" /\ pc' = "execute" /\ UNCHANGED <<wire, input, early>>
    BY <1>7 DEF Pass, PassOn, stdin
  <2>2. SubSeq(buffer, 1, bytes_read) = buffer
    <3>1. bytes_read = Len(buffer)
      BY <1>2, <1>3, <2>1
    <3> QED
      BY <1>1, <3>1, NothingAdded, Zenon
  <2>3. Unpassed = buffer /\ Unpassed' = <<>>
    BY <2>1 DEF Unpassed
  <2>4. stdout' = stdout \o Unpassed /\ stdout' \in Seq(STRING)
    <3>1. stdout \o Unpassed \in Seq(STRING)
      BY <1>1, ConcatSeq, Zenon
    <3> QED
      BY <2>1, <2>2, <2>3, <3>1
  <2>5. stdout' \o Unpassed' = stdout'
    <3>1. stdout' \o <<>> = stdout'
      BY <2>4, NothingAdded, Zenon
    <3> QED
      BY <2>3, <3>1
  <2> QED
    BY <1>2, <1>3, <2>1, <2>4, <2>5
<1>8. CASE Parse
  <2>1. pc = "execute" /\ UNCHANGED <<pc, stdout, wire, input, early>>
    BY <1>8 DEF Parse, stdin
  <2>2. Unpassed' = Unpassed
    BY <2>1 DEF Unpassed
  <2> QED
    BY <1>2, <1>3, <2>1, <2>2
<1>9. CASE Returns
  <2>1. /\ pc = "execute" /\ UNCHANGED <<parser, stdout, wire, input>>
        /\ early' = (early \/ pc' = "pass")
        /\ pc' = "exit" => parser.upgrade \/ rc' = "EX_IOERR"
    BY <1>9 DEF Returns, vars, stdin
  <2>2. ~early /\ pc' # "pass"
    BY <1>2, <2>1
  <2>3. Unpassed' = Unpassed
    BY <2>1, <2>2 DEF Unpassed
  <2> QED
    BY <1>3, <2>1, <2>2, <2>3
<1>10. CASE UNCHANGED logVars
  <2>1. UNCHANGED <<parser, pc, rc, stdout, wire, input, buffer, bytes_read, failed, early>>
    BY <1>10 DEF logVars, vars, stdin
  <2>2. Unpassed' = Unpassed
    BY <2>1 DEF Unpassed
  <2> QED
    BY <1>2, <1>3, <2>1, <2>2
<1>11. CASE Breaks
  <2>1. /\ pc \in {"read", "execute"} /\ pc' = "overrun"
        /\ UNCHANGED <<stdout, wire, input, early>>
    BY <1>11 DEF Breaks, stdin
  <2>2. Unpassed' = Unpassed
    BY <2>1 DEF Unpassed
  <2> QED
    BY <1>2, <1>3, <2>1, <2>2
<1> QED
  BY <1>4, <1>5, <1>6, <1>7, <1>8, <1>9, <1>10, <1>11 DEF LogNext, Main, Done

\* As long as no call of the parser returned early (log.c:317-331), every byte read
\* is on stdout, in the buffer still to be passed on, or unread.
THEOREM NothingIsLost == Spec => []NothingLost
<1>1. LogInit => NothingLost
  <2> SUFFICES ASSUME LogInit PROVE NothingLost
    OBVIOUS
  <2>1. /\ stdout = <<>> /\ wire = input.wire /\ pc = "read" /\ Unpassed = <<>>
    BY DEF LogInit, Unpassed
  <2>2. wire \in Seq(STRING)
    BY InputAssumption DEF LogInit, Text
  <2>3. <<>> \o <<>> \o wire = wire
    BY <2>2
  <2> QED
    BY <2>1, <2>3 DEF NothingLost
<1>2. ToolInv /\ NothingLost /\ [LogNext]_logVars => NothingLost'
  BY NothingLostStep, ToolInvIs
<1> QED
  BY <1>1, <1>2, ToolInvariant, PTL DEF Spec

\* What log.c promises of its output: as long as the parser takes all it is
\* given, stdout is what was read, and all of it at a normal end.
THEOREM InputIsCopied == Spec => []CopiesInput
<1>1. ToolInv /\ NothingLost => CopiesInput
  <2> SUFFICES ASSUME ToolInv, NothingLost, ~early
               PROVE  /\ IsPrefix(stdout, input.wire)
                      /\ pc = "exit" /\ ~failed /\ ~parser.upgrade
                           /\ rc = "EX_OK" => stdout = input.wire
    BY DEF CopiesInput
  <2>1. /\ stdout \o Unpassed \o wire = input.wire
        /\ pc = "exit" /\ ~failed /\ ~parser.upgrade /\ rc = "EX_OK" =>
             wire = <<>>
    BY DEF NothingLost
  <2>2. stdout \in Seq(STRING) /\ wire \in Seq(STRING) /\ Unpassed \in Seq(STRING)
    BY NothingIsText DEF ToolInv, TypeOK, Text, Unpassed
  <2>3. stdout \o Unpassed \o wire = stdout \o (Unpassed \o wire)
    BY <2>2, TextAssociates, Zenon
  <2>4. Unpassed \o wire \in Seq(STRING)
    BY <2>2, ConcatSeq, Zenon
  <2>5. IsPrefix(stdout, input.wire)
    BY <2>1, <2>2, <2>3, <2>4, IsPrefixConcat, Zenon
  <2>6. ASSUME pc = "exit", wire = <<>> PROVE stdout = input.wire
    <3>1. Unpassed = <<>>
      BY <2>6 DEF Unpassed
    <3>2. stdout \o <<>> = stdout
      BY <2>2, NothingAdded, Zenon
    <3> QED
      BY <2>1, <2>6, <3>1, <3>2
  <2> QED
    BY <2>1, <2>5, <2>6
<1> QED
  BY <1>1, ToolInvariant, NothingIsLost, PTL

-----------------------------------------------------------------------------
(***************************************************************************)
(* The fields logged with a message.  Nothing here looks into the parser:  *)
(* that its callbacks come in order is the hypothesis DeliversInOrder, and *)
(* each callback is followed through the copy of the fields.               *)
(***************************************************************************)
\* What a text keeps without what log.c puts around it.
KeptAtoms(text) ==
  [i \in DOMAIN text |-> IF text[i] \in FieldSeparators THEN <<>> ELSE <<text[i]>>]

LEMMA KeptAtomsType ==
  ASSUME NEW text \in Text
  PROVE  KeptAtoms(text) \in Seq(Text) /\ Plain(text) = FlattenSeq(KeptAtoms(text))
<1>1. text \in Seq(STRING) /\ Len(text) \in Nat /\ DOMAIN text = 1 .. Len(text)
  BY DEF Text
<1>2. ASSUME NEW i \in 1 .. Len(text)
      PROVE  (IF text[i] \in FieldSeparators THEN <<>> ELSE <<text[i]>>) \in Text
  <2>1. text[i] \in STRING
    BY <1>1
  <2>2. <<text[i]>> \in Text
    BY <2>1, OneSeq, Zenon DEF Text
  <2> QED
    BY <2>2, NothingIsText
<1>3. KeptAtoms(text) \in Seq(Text)
  BY <1>1, <1>2 DEF KeptAtoms
<1> QED
  BY <1>3 DEF Plain, KeptAtoms

LEMMA PlainType ==
  ASSUME NEW text \in Text
  PROVE  Plain(text) \in Text
<1>1. KeptAtoms(text) \in Seq(Seq(STRING))
  BY KeptAtomsType DEF Text
<1> QED
  BY <1>1, KeptAtomsType, FlattenType DEF Text

LEMMA PlainConcat ==
  ASSUME NEW s \in Text, NEW t \in Text
  PROVE  Plain(s \o t) = Plain(s) \o Plain(t)
<1> DEFINE a == KeptAtoms(s)
           b == KeptAtoms(t)
           c == KeptAtoms(s \o t)
           kept(x) == IF x \in FieldSeparators THEN <<>> ELSE <<x>>
<1>1. /\ s \in Seq(STRING) /\ t \in Seq(STRING) /\ s \o t \in Text
      /\ Len(s) \in Nat /\ Len(t) \in Nat /\ Len(s \o t) = Len(s) + Len(t)
      /\ \A i \in 1 .. Len(s) : (s \o t)[i] = s[i]
      /\ \A i \in 1 .. Len(t) : (s \o t)[Len(s) + i] = t[i]
  BY DEF Text
<1>2. a \in Seq(Text) /\ b \in Seq(Text) /\ c \in Seq(Text)
  BY <1>1, KeptAtomsType
<1>3. /\ Len(a) = Len(s) /\ Len(b) = Len(t) /\ Len(c) = Len(s \o t)
      /\ \A i \in 1 .. Len(s) : a[i] = kept(s[i])
      /\ \A i \in 1 .. Len(t) : b[i] = kept(t[i])
      /\ \A i \in 1 .. Len(s) + Len(t) : c[i] = kept((s \o t)[i])
  <2>1. DOMAIN s = 1 .. Len(s) /\ DOMAIN t = 1 .. Len(t)
        /\ DOMAIN (s \o t) = 1 .. Len(s) + Len(t)
    BY <1>1
  <2> QED
    BY <1>1, <1>2, <2>1 DEF KeptAtoms
<1> HIDE DEF a, b, c, kept
<1>4. c = a \o b
  <2>1. Len(c) = Len(a) + Len(b)
    BY <1>1, <1>3
  <2>2. \A i \in 1 .. Len(a) : c[i] = a[i]
    BY <1>1, <1>3
  <2>3. ASSUME NEW i \in 1 .. Len(b) PROVE c[Len(a) + i] = b[i]
    <3>1. Len(a) + i \in 1 .. Len(s) + Len(t) /\ i \in 1 .. Len(t)
      BY <1>1, <1>3
    <3>2. /\ c[Len(s) + i] = kept((s \o t)[Len(s) + i]) /\ b[i] = kept(t[i])
          /\ (s \o t)[Len(s) + i] = t[i] /\ Len(a) = Len(s)
      BY <1>1, <1>3, <3>1, Zenon
    <3> QED
      BY <3>2
  <2> QED
    BY <1>2, <2>1, <2>2, <2>3, SameAsConcat
<1>5. FlattenSeq(a \o b) = FlattenSeq(a) \o FlattenSeq(b)
  BY <1>2, FlattenConcat DEF Text
<1>6. Plain(s \o t) = FlattenSeq(c) /\ Plain(s) = FlattenSeq(a) /\ Plain(t) = FlattenSeq(b)
  BY <1>1, KeptAtomsType DEF a, b, c
<1> QED
  BY <1>4, <1>5, <1>6

\* It is the text itself if there is nothing of the kind in it.
LEMMA PlainOne ==
  ASSUME NEW x \in STRING
  PROVE  Plain(<<x>>) = IF x \in FieldSeparators THEN <<>> ELSE <<x>>
<1> DEFINE y == IF x \in FieldSeparators THEN <<>> ELSE <<x>>
<1>1. <<x>> \in Text
  BY OneSeq, Zenon DEF Text
<1>2. KeptAtoms(<<x>>) = <<y>>
  <2> DEFINE one == <<x>>
  <2>1. DOMAIN one = 1 .. 1 /\ one[1] = x
    OBVIOUS
  <2> HIDE DEF one
  <2> DEFINE k == KeptAtoms(one)
  <2>2. k \in Seq(Text)
    BY <1>1, KeptAtomsType DEF one
  <2>3. DOMAIN k = 1 .. 1 /\ k[1] = y
    <3>1. 1 \in DOMAIN one /\ DOMAIN k = DOMAIN one
      BY <2>1 DEF KeptAtoms
    <3>2. k[1] = IF one[1] \in FieldSeparators THEN <<>> ELSE <<one[1]>>
      BY <3>1 DEF KeptAtoms
    <3> QED
      BY <2>1, <3>1, <3>2
  <2> HIDE DEF k, y
  <2>4. Len(k) = 1
    BY <2>2, <2>3
  <2>5. k = <<y>>
    BY <2>2, <2>3, <2>4
  <2> QED
    BY <2>5 DEF k, one, y
<1> HIDE DEF y
<1>3. Plain(<<x>>) = y
  BY <1>1, <1>2, KeptAtomsType, FlattenOne
<1> QED
  BY <1>3 DEF y

LEMMA PlainNothing == Plain(<<>>) = <<>>
<1>1. KeptAtoms(<<>>) = <<>>
  BY DEF KeptAtoms
<1> QED
  BY <1>1, NothingIsText, KeptAtomsType, FlattenEmpty

LEMMA PlainSeparators ==
  Plain(<<"\t">>) = <<>> /\ Plain(<<": ">>) = <<>> /\ Plain(<<"\r\n">>) = <<>>
<1>1. \A x \in {"\t", ": ", "\r\n"} : x \in STRING /\ x \in FieldSeparators
  BY LiteralAssumption DEF FieldSeparators
<1> QED
  BY <1>1, PlainOne

LEMMA PlainOfPlain ==
  ASSUME NEW text \in Text, ToSet(text) \cap FieldSeparators = {}
  PROVE  Plain(text) = text
<1> DEFINE T == {n \in Nat : n <= Len(text) => Plain(SubSeq(text, 1, n)) = SubSeq(text, 1, n)}
<1>1. text \in Seq(STRING) /\ Len(text) \in Nat /\ DOMAIN text = 1 .. Len(text)
  BY DEF Text
<1>2. 0 \in T
  <2>1. SubSeq(text, 1, 0) = <<>>
    BY <1>1
  <2> QED
    BY <2>1, PlainNothing
<1>3. ASSUME NEW n \in T PROVE n + 1 \in T
  <2>1. n \in Nat
    OBVIOUS
  <2>2. ASSUME n + 1 <= Len(text)
        PROVE  Plain(SubSeq(text, 1, n + 1)) = SubSeq(text, 1, n + 1)
    <3> DEFINE front == SubSeq(text, 1, n)
               x == text[n + 1]
    <3>1. n + 1 \in 1 .. Len(text) /\ x \in STRING /\ x \notin FieldSeparators
      BY <1>1, <2>1, <2>2 DEF ToSet
    <3>2. front \in Text /\ <<x>> \in Text
      <4>1. n \in 0 .. Len(text) /\ 1 \in Nat \ {0}
        BY <1>1, <2>1, <2>2
      <4>2. front \in Seq(STRING)
        BY <1>1, <4>1, PartSeq, Zenon
      <4> QED
        BY <3>1, <4>2, OneSeq, Zenon DEF Text
    <3>3. SubSeq(text, 1, n + 1) = front \o <<x>>
      <4> DEFINE k == n + 1
                 whole == SubSeq(text, 1, k)
                 one == SubSeq(text, k, k)
      <4>1. k \in 1 .. Len(text) /\ k = n + 1
        BY <3>1
      <4> HIDE DEF k
      <4>2. front \o one = whole
        <5>1. 1 \in 1 .. Len(text) + 1 /\ n \in 1 - 1 .. Len(text) /\ k \in n .. Len(text)
          BY <1>1, <2>1, <4>1
        <5>2. SubSeq(text, 1, n) \o SubSeq(text, n + 1, k) = SubSeq(text, 1, k)
          BY <1>1, <5>1, ConcatAdjacentSubSeq, Zenon
        <5> QED
          BY <4>1, <5>2
      <4>3. one = <<text[k]>>
        <5>1. one \in Seq(STRING) /\ Len(one) = 1 /\ one[1] = text[k]
          BY <1>1, <4>1
        <5> HIDE DEF one
        <5> QED
          BY <5>1
      <4> QED
        BY <4>1, <4>2, <4>3
    <3>4. Plain(front) = front
      <4>1. n <= Len(text)
        BY <1>1, <2>1, <2>2
      <4> QED
        BY <4>1
    <3> HIDE DEF front, x, T
    <3>5. Plain(front \o <<x>>) = Plain(front) \o Plain(<<x>>)
      BY <3>2, PlainConcat
    <3>6. Plain(<<x>>) = <<x>>
      BY <3>1, PlainOne
    <3> QED
      BY <3>3, <3>4, <3>5, <3>6
  <2> QED
    BY <2>1, <2>2
<1> HIDE DEF T
<1>4. T = Nat
  <2>1. T \in SUBSET Nat
    BY DEF T
  <2> QED
    BY <1>2, <1>3, <2>1, SetInduction
<1>5. Plain(SubSeq(text, 1, Len(text))) = SubSeq(text, 1, Len(text))
  BY <1>1, <1>4 DEF T
<1> QED
  BY <1>1, <1>5, NothingAdded

-----------------------------------------------------------------------------
\* A copy that keeps texts keeps them and what is appended to it.
LEMMA PrefixOfMore ==
  ASSUME NEW a \in Text, NEW b \in Text, NEW c \in Text, IsPrefix(a, b)
  PROVE  IsPrefix(a, b \o c)
<1>1. a \in Seq(STRING) /\ b \in Seq(STRING) /\ c \in Seq(STRING)
  BY DEF Text
<1>2. Len(a) <= Len(b) /\ SubSeq(a, 1, Len(a)) = SubSeq(b, 1, Len(a))
  BY DEF IsPrefix
<1>3. /\ Len(b \o c) = Len(b) + Len(c) /\ b \o c \in Seq(STRING)
      /\ Len(a) \in Nat /\ Len(b) \in Nat /\ Len(c) \in Nat
      /\ \A i \in 1 .. Len(b) : (b \o c)[i] = b[i]
  BY <1>1
<1>4. SubSeq(b \o c, 1, Len(a)) = SubSeq(b, 1, Len(a))
  <2> DEFINE d == b \o c
             n == Len(a)
  <2>1. d \in Seq(STRING) /\ b \in Seq(STRING) /\ n \in 0 .. Len(b) /\ n \in 0 .. Len(d)
        /\ \A i \in 1 .. Len(b) : d[i] = b[i]
    BY <1>1, <1>2, <1>3
  <2> HIDE DEF d, n
  <2>2. SubSeq(d, 1, n) = SubSeq(b, 1, n)
    <3>1. /\ SubSeq(d, 1, n) \in Seq(STRING) /\ Len(SubSeq(d, 1, n)) = n
          /\ \A i \in 1 .. n : SubSeq(d, 1, n)[i] = d[i]
      BY <2>1
    <3>2. /\ SubSeq(b, 1, n) \in Seq(STRING) /\ Len(SubSeq(b, 1, n)) = n
          /\ \A i \in 1 .. n : SubSeq(b, 1, n)[i] = b[i]
      BY <2>1
    <3>3. \A i \in 1 .. n : SubSeq(d, 1, n)[i] = SubSeq(b, 1, n)[i]
      BY <1>3, <2>1, <3>1, <3>2
    <3> QED
      BY <3>1, <3>2, <3>3, SeqEqual
  <2> QED
    BY <2>2 DEF d, n
<1> QED
  BY <1>2, <1>3, <1>4 DEF IsPrefix

LEMMA ConcatPrefix ==
  ASSUME NEW a \in Text, NEW b \in Text
  PROVE  IsPrefix(a, a \o b) /\ IsPrefix(a, a)
<1>1. a \in Seq(STRING) /\ b \in Seq(STRING) /\ <<>> \in Seq(STRING)
  BY DEF Text
<1>2. IsPrefix(a, a \o b) /\ IsPrefix(a, a \o <<>>)
  BY <1>1, IsPrefixConcat, Zenon
<1>3. a \o <<>> = a
  BY <1>1, NothingAdded, Zenon
<1> QED
  BY <1>2, <1>3

LEMMA KeepsMore ==
  ASSUME NEW copy \in Text, Len(copy) < BUFFER_MAX, NEW texts \in Text, Keeps(copy, texts),
         NEW src \in Text
  PROVE  /\ strlcat(copy, src, BUFFER_MAX) \in Text
         /\ Len(strlcat(copy, src, BUFFER_MAX)) < BUFFER_MAX
         /\ texts \o Plain(src) \in Text
         /\ Keeps(strlcat(copy, src, BUFFER_MAX), texts \o Plain(src))
<1> DEFINE new == strlcat(copy, src, BUFFER_MAX)
           n == BUFFER_MAX - Len(copy) - 1
           m == Min({Len(src), n})
           part == SubSeq(src, 1, m)
           left == SubSeq(src, m + 1, Len(src))
<1>1. /\ BUFFER_MAX \in Nat /\ Len(copy) \in Nat /\ Len(src) \in Nat /\ n \in Nat
      /\ copy \in Seq(STRING) /\ src \in Seq(STRING)
  BY SizeAssumption DEF Text
<1>2. new \in Text /\ Len(new) < BUFFER_MAX
  BY <1>1, StrlcatFacts
<1>3. new = copy \o part
  <2>1. ~(Len(copy) >= BUFFER_MAX)
    BY <1>1
  <2> QED
    BY <2>1, Zenon DEF strlcat
<1>4. m \in 0 .. Len(src) /\ m <= n /\ (m = Len(src) \/ m = n)
  <2>1. m \in {Len(src), n} /\ m <= Len(src) /\ m <= n
    <3>1. Len(src) \in Int /\ n \in Int
      BY <1>1
    <3> HIDE DEF n
    <3> QED
      BY <3>1, MinOfTwo, Zenon
  <2> HIDE DEF m
  <2> QED
    BY <1>1, <2>1
<1> HIDE DEF m
<1>5. part \in Text /\ left \in Text /\ part \o left = src /\ Len(part) = m
  <2>1. part \in Seq(STRING) /\ Len(part) = m
    BY <1>1, <1>4
  <2>2. left \in Seq(STRING)
    <3>1. m + 1 \in Nat \ {0} /\ Len(src) \in 0 .. Len(src)
      BY <1>1, <1>4
    <3> QED
      BY <1>1, <3>1, PartSeq, Zenon
  <2>3. part \o left = src
    BY <1>1, <1>4, InTwoParts, Zenon
  <2> QED
    BY <2>1, <2>2, <2>3 DEF Text
<1> HIDE DEF part, left, new
<1> DEFINE a == Plain(copy)
           b == Plain(part)
           c == Plain(left)
<1>6. /\ a \in Text /\ b \in Text /\ c \in Text
      /\ Plain(new) = a \o b /\ Plain(src) = b \o c
      /\ Plain(src) \in Text
  <2>1. Plain(copy \o part) = Plain(copy) \o Plain(part)
    BY <1>5, PlainConcat
  <2>2. Plain(part \o left) = Plain(part) \o Plain(left)
    BY <1>5, PlainConcat
  <2> QED
    BY <1>3, <1>5, <2>1, <2>2, PlainType
<1>7. texts \o Plain(src) \in Text
  BY <1>6, TextConcat, Zenon
<1>8. Len(new) = Len(copy) + m
  <2>1. part \in Seq(STRING) /\ copy \in Seq(STRING)
    BY <1>1, <1>5 DEF Text
  <2>2. LengthsAdd(Seq(STRING))
    BY ConcatLengths, Zenon
  <2>3. Len(copy \o part) = Len(copy) + Len(part)
    BY <2>1, <2>2, Zenon DEF LengthsAdd
  <2> QED
    BY <1>3, <1>5, <2>3
<1>9. IsPrefix(a, texts) /\ (Len(copy) < BUFFER_MAX - 1 => a = texts)
  BY DEF Keeps
<1> HIDE DEF a, b, c, n
<1>10. CASE Len(copy) < BUFFER_MAX - 1
  <2>1. a = texts
    BY <1>9, <1>10
  <2>2. texts \o Plain(src) = (texts \o b) \o c
    <3>1. texts \in Seq(STRING) /\ b \in Seq(STRING) /\ c \in Seq(STRING)
      BY <1>6 DEF Text
    <3>2. (texts \o b) \o c = texts \o (b \o c)
      BY <3>1, TextAssociates, Zenon
    <3> QED
      BY <1>6, <3>2
  <2>3. texts \o b \in Text
    BY <1>6, TextConcat, Zenon
  <2>4. IsPrefix(texts \o b, (texts \o b) \o c)
    BY <1>6, <2>3, ConcatPrefix
  <2>5. IsPrefix(Plain(new), texts \o Plain(src))
    BY <1>6, <2>1, <2>2, <2>4
  <2>6. ASSUME Len(new) < BUFFER_MAX - 1 PROVE Plain(new) = texts \o Plain(src)
    <3>1. m = Len(src)
      BY <1>1, <1>4, <1>8, <2>6 DEF n
    <3>2. part = src
      BY <1>1, <3>1, NothingAdded, Zenon DEF part
    <3> QED
      BY <1>6, <2>1, <3>2 DEF b
  <2> QED
    BY <1>2, <1>7, <2>5, <2>6 DEF Keeps, new
<1>11. CASE ~(Len(copy) < BUFFER_MAX - 1)
  <2>1. m = 0 /\ ~(Len(new) < BUFFER_MAX - 1)
    BY <1>1, <1>4, <1>8, <1>11 DEF n
  <2>2. b = <<>>
    <3>1. part = <<>>
      BY <1>5, <2>1 DEF Text
    <3> QED
      BY <3>1, PlainNothing DEF b
  <2>3. Plain(new) = a
    <3>1. a \in Seq(STRING)
      BY <1>6 DEF Text
    <3>2. a \o <<>> = a
      BY <3>1, NothingAdded, Zenon
    <3> QED
      BY <1>6, <2>2, <3>2
  <2>4. IsPrefix(a, texts \o Plain(src))
    BY <1>6, <1>9, PrefixOfMore
  <2> QED
    BY <1>2, <1>7, <2>1, <2>3, <2>4 DEF Keeps, new
<1> QED
  BY <1>10, <1>11

-----------------------------------------------------------------------------
\* The callbacks of an input, counted and put together one by one.
LEMMA EndedMore ==
  ASSUME NEW calls, NEW n \in Nat
  PROVE  /\ Ended(calls, n) \in Nat /\ Ended(calls, 0) = 0
         /\ Ended(calls, n + 1) = IF EndsMessage(calls[n + 1]) THEN Ended(calls, n) + 1
                                                               ELSE Ended(calls, n)
<1> DEFINE ends(k) == {i \in 1 .. k : EndsMessage(calls[i])}
<1>1. ASSUME NEW k \in Nat PROVE IsFiniteSet(ends(k)) /\ Cardinality(ends(k)) \in Nat
  <2>1. IsFiniteSet(1 .. k) /\ ends(k) \in SUBSET (1 .. k)
    BY FS_Interval
  <2> HIDE DEF ends
  <2>2. IsFiniteSet(ends(k))
    BY <2>1, FS_Subset
  <2> QED
    BY <2>2, FS_CardinalityType
<1>2. ends(0) = {}
  OBVIOUS
<1>3. ends(n + 1) = IF EndsMessage(calls[n + 1]) THEN ends(n) \union {n + 1} ELSE ends(n)
  OBVIOUS
<1>4. n + 1 \notin ends(n)
  OBVIOUS
<1>5. \A k : Ended(calls, k) = Cardinality(ends(k))
  BY DEF Ended
<1> HIDE DEF ends
<1>6. Cardinality(ends(n) \union {n + 1}) = Cardinality(ends(n)) + 1
  BY <1>1, <1>4, FS_AddElement
<1> QED
  BY <1>1, <1>2, <1>3, <1>5, <1>6, FS_EmptySet

LEMMA FieldTextType ==
  ASSUME NEW calling \in CallbacksWithText
  PROVE  FieldText(calling) \in Text
BY NothingIsText DEF FieldText, CallbacksWithText

LEMMA FieldTextsType ==
  ASSUME NEW calls \in Seq(CallbacksWithText)
  PROVE  /\ [i \in DOMAIN calls |-> FieldText(calls[i])] \in Seq(Text)
         /\ FieldTexts(calls) \in Text
<1>1. [i \in DOMAIN calls |-> FieldText(calls[i])] \in Seq(Text)
  <2>1. DOMAIN calls = 1 .. Len(calls) /\ Len(calls) \in Nat
    OBVIOUS
  <2>2. \A i \in 1 .. Len(calls) : FieldText(calls[i]) \in Text
    BY FieldTextType
  <2> QED
    BY <2>1, <2>2
<1> QED
  BY <1>1, FlattenType DEF FieldTexts, Text

LEMMA FieldTextsNone == FieldTexts(<<>>) = <<>>
<1>1. [i \in DOMAIN <<>> |-> FieldText(<<>>[i])] = <<>>
  OBVIOUS
<1> QED
  BY <1>1, FlattenEmpty DEF FieldTexts

LEMMA FieldTextsMore ==
  ASSUME NEW calls \in Seq(CallbacksWithText), NEW p \in 1 .. Len(calls), NEW first \in 1 .. p
  PROVE  /\ SubSeq(calls, first, p - 1) \in Seq(CallbacksWithText)
         /\ FieldTexts(SubSeq(calls, first, p)) =
              FieldTexts(SubSeq(calls, first, p - 1)) \o FieldText(calls[p])
<1> DEFINE a == SubSeq(calls, first, p - 1)
           b == SubSeq(calls, first, p)
           x == [i \in DOMAIN a |-> FieldText(a[i])]
           y == [i \in DOMAIN b |-> FieldText(b[i])]
           l == FieldText(calls[p])
<1>1. /\ a \in Seq(CallbacksWithText) /\ Len(a) = p - first
      /\ \A i \in 1 .. p - first : a[i] = calls[first + i - 1]
  <2> DEFINE n == p - 1
  <2>1. first \in Nat \ {0} /\ n \in 0 .. Len(calls) /\ first <= n + 1
        /\ n - first + 1 = p - first
    OBVIOUS
  <2> HIDE DEF n
  <2>2. /\ SubSeq(calls, first, n) \in Seq(CallbacksWithText)
        /\ Len(SubSeq(calls, first, n)) = n - first + 1
        /\ \A i \in 1 .. n - first + 1 : SubSeq(calls, first, n)[i] = calls[first + i - 1]
    BY <2>1, PartIs
  <2> QED
    BY <2>1, <2>2 DEF n
<1>2. /\ b \in Seq(CallbacksWithText) /\ Len(b) = p - first + 1
      /\ \A i \in 1 .. p - first + 1 : b[i] = calls[first + i - 1]
  <2>1. first \in Nat \ {0} /\ p \in 0 .. Len(calls) /\ first <= p + 1
    OBVIOUS
  <2> QED
    BY <2>1, PartIs
<1>3. calls[p] \in CallbacksWithText /\ p - first \in Nat /\ first + (p - first + 1) - 1 = p
  OBVIOUS
<1>4. l \in Text /\ x \in Seq(Text) /\ y \in Seq(Text)
  <2> HIDE DEF a, b
  <2> QED
    BY <1>1, <1>2, <1>3, FieldTextType, FieldTextsType
<1>5. y = Append(x, l)
  <2> DEFINE T == Text
             n == p - first
             z == Append(x, l)
  <2>1. /\ n \in Nat /\ Len(x) = n /\ Len(y) = n + 1
        /\ \A i \in 1 .. n : y[i] = x[i]
        /\ y[n + 1] = l
    <3>1. DOMAIN a = 1 .. n /\ DOMAIN b = 1 .. n + 1
      BY <1>1, <1>2, <1>3
    <3>2. Len(x) = n /\ Len(y) = n + 1
      <4> HIDE DEF a, b
      <4> QED
        BY <1>3, <1>4, <3>1
    <3>3. ASSUME NEW i \in 1 .. n PROVE y[i] = x[i]
      <4>1. i \in 1 .. n + 1 /\ a[i] = b[i]
        BY <1>1, <1>2, <1>3
      <4> HIDE DEF a, b
      <4> QED
        BY <3>1, <4>1
    <3>4. y[n + 1] = l
      <4>1. n + 1 \in 1 .. n + 1 /\ b[n + 1] = calls[p]
        BY <1>2, <1>3
      <4> HIDE DEF a, b
      <4> QED
        BY <3>1, <4>1
    <3> QED
      BY <1>3, <3>2, <3>3, <3>4
  <2>2. l \in T /\ x \in Seq(T) /\ y \in Seq(T)
    BY <1>4
  <2> HIDE DEF n, l, x, y, T
  <2>3. /\ z \in Seq(T) /\ Len(z) = n + 1
        /\ \A i \in 1 .. n : z[i] = x[i]
        /\ z[n + 1] = l
    BY <2>1, <2>2, AppendProperties
  <2> HIDE DEF z
  <2>4. \A i \in 1 .. n + 1 : y[i] = z[i]
    BY <2>1, <2>3
  <2>5. y = z
    BY <2>1, <2>2, <2>3, <2>4, SeqEqual
  <2> QED
    BY <2>5 DEF z
<1>6. FieldTexts(b) = FlattenSeq(y) /\ FieldTexts(a) = FlattenSeq(x)
  BY DEF FieldTexts
<1> HIDE DEF x, y, l
<1>7. FlattenSeq(Append(x, l)) = FlattenSeq(x) \o l
  BY <1>4, FlattenMore DEF Text
<1> QED
  BY <1>1, <1>5, <1>6, <1>7 DEF l

-----------------------------------------------------------------------------
\* What a callback does to the copy of the fields.
LEMMA HeadersKeep ==
  ASSUME Copies, volume > 1, cb'.at \in Text, CalledBack, cb'.cb # "message_complete",
         NEW texts \in Text, Keeps(headers, texts),
         ToSet(FieldText(Callback(cb'.cb, cb'.at))) \cap FieldSeparators = {}
  PROVE  /\ UNCHANGED <<volume, stderr>>
         /\ Keeps(headers', texts \o FieldText(Callback(cb'.cb, cb'.at)))
<1> DEFINE k == cb'.cb
           at == cb'.at
           x == FieldText(Callback(k, at))
<1>1. /\ headers \in Text /\ Len(headers) < BUFFER_MAX /\ volume' = volume
  BY DEF Copies, CalledBack
<1>2. x = IF k \in {"header_field", "header_value"} THEN at ELSE <<>>
  BY CallbackFacts DEF FieldText
<1>3. <<"\t">> \in Text /\ <<": ">> \in Text /\ <<"\r\n">> \in Text
  BY LiteralFacts
<1>4. ASSUME NEW t \in Text
      PROVE  t \o Plain(<<"\t">>) = t /\ t \o Plain(<<": ">>) = t
             /\ t \o Plain(<<"\r\n">>) = t /\ t \o <<>> = t
  <2>1. t \o <<>> = t
    BY NothingAdded, Zenon DEF Text
  <2> QED
    BY <2>1, PlainSeparators
<1>5. CASE k = "header_field"
  <2> DEFINE tab == strlcat(headers, <<"\t">>, BUFFER_MAX)
             name == strlcat(tab, at, BUFFER_MAX)
             colon == strlcat(name, <<": ">>, BUFFER_MAX)
  <2>1. headers' = colon /\ stderr' = stderr
    BY <1>5 DEF CalledBack, CbLogHeaderField
  <2>2. Plain(at) = at /\ x = at /\ at \in Text
    <3>1. x = at /\ at \in Text
      BY <1>2, <1>5
    <3> QED
      BY <3>1, PlainOfPlain
  <2> HIDE DEF at, x
  <2>3. tab \in Text /\ Len(tab) < BUFFER_MAX /\ Keeps(tab, texts)
    <3>1. Keeps(tab, texts \o Plain(<<"\t">>)) /\ tab \in Text /\ Len(tab) < BUFFER_MAX
      BY <1>1, <1>3, KeepsMore
    <3> QED
      BY <1>4, <3>1
  <2> HIDE DEF tab
  <2>4. name \in Text /\ Len(name) < BUFFER_MAX /\ Keeps(name, texts \o at)
        /\ texts \o at \in Text
    BY <2>2, <2>3, KeepsMore
  <2> HIDE DEF name
  <2>5. Keeps(colon, (texts \o at) \o Plain(<<": ">>))
    <3> DEFINE more == texts \o at
    <3>1. more \in Text /\ Keeps(name, more)
      BY <2>4
    <3> HIDE DEF more
    <3>2. Keeps(colon, more \o Plain(<<": ">>))
      BY <1>3, <2>4, <3>1, KeepsMore
    <3> QED
      BY <3>2 DEF more
  <2>6. Keeps(colon, texts \o at)
    BY <1>4, <2>4, <2>5
  <2> QED
    BY <1>1, <2>1, <2>2, <2>6 DEF x, at
<1>6. CASE k = "header_value"
  <2> DEFINE value == strlcat(headers, at, BUFFER_MAX)
             end == strlcat(value, <<"\r\n">>, BUFFER_MAX)
  <2>1. headers' = end /\ stderr' = stderr
    BY <1>6 DEF CalledBack, CbLogHeaderValue
  <2>2. Plain(at) = at /\ x = at /\ at \in Text
    <3>1. x = at /\ at \in Text
      BY <1>2, <1>6
    <3> QED
      BY <3>1, PlainOfPlain
  <2> HIDE DEF at, x
  <2>3. value \in Text /\ Len(value) < BUFFER_MAX /\ Keeps(value, texts \o at)
        /\ texts \o at \in Text
    BY <1>1, <2>2, KeepsMore
  <2> HIDE DEF value
  <2>4. Keeps(end, (texts \o at) \o Plain(<<"\r\n">>))
    <3> DEFINE more == texts \o at
    <3>1. more \in Text /\ Keeps(value, more)
      BY <2>3
    <3> HIDE DEF more
    <3>2. Keeps(end, more \o Plain(<<"\r\n">>))
      BY <1>3, <2>3, <3>1, KeepsMore
    <3> QED
      BY <3>2 DEF more
  <2>5. Keeps(end, texts \o at)
    BY <1>4, <2>3, <2>4
  <2> QED
    BY <1>1, <2>1, <2>2, <2>5 DEF x, at
<1>7. CASE k \notin {"header_field", "header_value"}
  <2>1. UNCHANGED <<headers, stderr>>
    BY <1>7 DEF CalledBack, CbLogUrl
  <2>2. texts \o x = texts
    BY <1>2, <1>4, <1>7
  <2> QED
    BY <1>1, <2>1, <2>2
<1> QED
  BY <1>5, <1>6, <1>7

-----------------------------------------------------------------------------
\* A callback that is due and was made.
Calling == Seq(CallbacksWithText)

LEMMA PrefixAndRest ==
  ASSUME NEW a \in Text, NEW b \in Text, IsPrefix(a, b)
  PROVE  /\ SubSeq(b, Len(a) + 1, Len(b)) \in Text
         /\ a \o SubSeq(b, Len(a) + 1, Len(b)) = b
<1> DEFINE n == Len(a)
<1>1. a \in Seq(STRING) /\ b \in Seq(STRING)
  BY DEF Text
<1>2. n \in Nat /\ Len(b) \in Nat /\ n <= Len(b) /\ SubSeq(a, 1, n) = SubSeq(b, 1, n)
  BY <1>1 DEF IsPrefix
<1>3. SubSeq(a, 1, n) = a
  BY <1>1, NothingAdded, Zenon
<1> HIDE DEF n
<1>4. n \in 0 .. Len(b) /\ n + 1 \in Nat \ {0} /\ Len(b) \in 0 .. Len(b)
  BY <1>2
<1>5. SubSeq(b, n + 1, Len(b)) \in Text
  BY <1>1, <1>4, PartSeq, Zenon DEF Text
<1>6. SubSeq(b, 1, n) \o SubSeq(b, n + 1, Len(b)) = b
  BY <1>1, <1>4, InTwoParts, Zenon
<1> QED
  BY <1>2, <1>3, <1>5, <1>6 DEF n

LEMMA DeliveredIs ==
  ASSUME todo \in Calling, NEW c, c.at \in Text, NEW atEnd,
         c # NoCallback, Delivered(c, atEnd) \in Calling
  PROVE  /\ todo # <<>> /\ todo[1] \in CallbacksWithText /\ todo[1].cb = c.cb
         /\ \E rest \in Text :
              /\ c.at \o rest = todo[1].at
              /\ \/ /\ Delivered(c, atEnd) = <<Callback(c.cb, rest)>> \o Tail(todo)
                    /\ rest # <<>> \/ c.cb \in Data
                 \/ Delivered(c, atEnd) = Tail(todo) /\ rest = <<>>
<1> DEFINE due == Head(todo)
           rest == SubSeq(due.at, Len(c.at) + 1, Len(due.at))
           more == <<Callback(due.cb, rest)>> \o Tail(todo)
           odd == <<Callback("unexpected", c.at)>>
<1>1. odd \notin Calling
  <2> SUFFICES ASSUME odd \in Calling PROVE FALSE
    OBVIOUS
  <2>1. odd[1] \in CallbacksWithText /\ odd[1] = Callback("unexpected", c.at)
    BY DEF Calling
  <2>2. Callback("unexpected", c.at).cb = "unexpected"
    BY CallbackFacts
  <2> QED
    BY <2>1, <2>2 DEF CallbacksWithText, Data
<1>2. ~(todo = <<>> \/ due.cb # c.cb \/ ~IsPrefix(c.at, due.at))
  BY <1>1, Zenon DEF Delivered
<1>3. todo # <<>> /\ due = todo[1] /\ due \in CallbacksWithText
  BY <1>2 DEF Calling
<1>4. due.at \in Text
  BY <1>3 DEF CallbacksWithText
<1>5. rest \in Text /\ c.at \o rest = due.at
  BY <1>2, <1>4, PrefixAndRest
<1>6. Delivered(c, atEnd) =
        IF rest # <<>> \/ (atEnd /\ c.cb \in Data \ {"body"} /\ c.at # <<>>)
        THEN more ELSE Tail(todo)
  BY <1>2, Zenon DEF Delivered
<1> HIDE DEF rest
<1>7. \/ Delivered(c, atEnd) = more /\ (rest # <<>> \/ c.cb \in Data)
      \/ Delivered(c, atEnd) = Tail(todo) /\ rest = <<>>
  BY <1>6, Zenon
<1>8. more = <<Callback(c.cb, rest)>> \o Tail(todo)
  BY <1>2
<1> QED
  BY <1>2, <1>3, <1>5, <1>7, <1>8

LEMMA ConsTail ==
  ASSUME NEW S, NEW x \in S, NEW s \in Seq(S)
  PROVE  /\ <<x>> \o s \in Seq(S) /\ <<x>> \o s # <<>>
         /\ (<<x>> \o s)[1] = x /\ Tail(<<x>> \o s) = s
<1> DEFINE t == <<x>> \o s
           u == Tail(t)
<1>1. /\ t \in Seq(S) /\ Len(t) = Len(s) + 1 /\ Len(s) \in Nat /\ t[1] = x
      /\ \A i \in 1 .. Len(s) : t[i + 1] = s[i]
  OBVIOUS
<1> HIDE DEF t
<1>2. t # <<>>
  BY <1>1
<1>3. u \in Seq(S) /\ Len(u) = Len(s) /\ \A i \in 1 .. Len(s) : u[i] = t[i + 1]
  BY <1>1, <1>2
<1> HIDE DEF u
<1>4. u = s
  BY <1>1, <1>3, SeqEqual
<1> QED
  BY <1>1, <1>2, <1>4 DEF t, u

\* Where what is left of a sequence begins.
LEMMA LeftFrom ==
  ASSUME NEW S, NEW s \in Seq(S), NEW p \in 1 .. Len(s)
  PROVE  LET left == SubSeq(s, p + 1, Len(s))
         IN  /\ left \in Seq(S)
             /\ p = Len(s) => left = <<>>
             /\ p < Len(s) => /\ left # <<>> /\ left[1] = s[p + 1]
                              /\ Tail(left) = SubSeq(s, p + 2, Len(s))
<1> DEFINE left == SubSeq(s, p + 1, Len(s))
           next == SubSeq(s, p + 2, Len(s))
           n == Len(s)
<1>1. n \in Nat /\ p \in Nat /\ p <= n
  OBVIOUS
<1>2. /\ left \in Seq(S) /\ Len(left) = n - p
      /\ \A i \in 1 .. n - p : left[i] = s[p + i]
  OBVIOUS
<1>3. p = n => left = <<>>
  <2> HIDE DEF left
  <2> QED
    BY <1>1, <1>2
<1>4. ASSUME p < n
      PROVE  left # <<>> /\ left[1] = s[p + 1] /\ Tail(left) = next
  <2>1. /\ next \in Seq(S) /\ Len(next) = n - p - 1
        /\ \A i \in 1 .. n - p - 1 : next[i] = s[p + 1 + i]
    BY <1>1, <1>4
  <2> HIDE DEF left, next
  <2>2. left # <<>> /\ left[1] = s[p + 1]
    BY <1>1, <1>2, <1>4
  <2> DEFINE u == Tail(left)
  <2>3. /\ u \in Seq(S) /\ Len(u) = n - p - 1
        /\ \A i \in 1 .. n - p - 1 : u[i] = left[i + 1]
    BY <1>1, <1>2, <2>2
  <2> HIDE DEF u, n
  <2>4. ASSUME NEW i \in 1 .. n - p - 1 PROVE u[i] = next[i]
    <3>1. i + 1 \in 1 .. n - p /\ p + (i + 1) = p + 1 + i
      BY <1>1
    <3> QED
      BY <1>2, <2>1, <2>3, <3>1
  <2>5. u = next
    BY <2>1, <2>3, <2>4, SeqEqual
  <2> QED
    BY <2>2, <2>5 DEF u
<1> QED
  BY <1>2, <1>3, <1>4

\* A text and what it begins with.
LEMMA BeginsWith ==
  ASSUME NEW a \in Text, NEW b \in Text
  PROVE  /\ a \o b \in Text /\ a \in Prefixes(a \o b)
         /\ ToSet(a) \subseteq ToSet(a \o b) /\ ToSet(b) \subseteq ToSet(a \o b)
<1> DEFINE c == a \o b
<1>1. /\ a \in Seq(STRING) /\ b \in Seq(STRING) /\ c \in Seq(STRING)
      /\ Len(a) \in Nat /\ Len(b) \in Nat /\ Len(c) = Len(a) + Len(b)
      /\ DOMAIN a = 1 .. Len(a) /\ DOMAIN b = 1 .. Len(b)
      /\ DOMAIN c = 1 .. Len(a) + Len(b)
      /\ \A i \in 1 .. Len(a) : c[i] = a[i]
      /\ \A i \in 1 .. Len(b) : c[Len(a) + i] = b[i]
  BY DEF Text
<1> HIDE DEF c
<1>2. SubSeq(c, 1, Len(a)) = a
  <2> DEFINE d == SubSeq(c, 1, Len(a))
  <2>1. d \in Seq(STRING) /\ Len(d) = Len(a) /\ \A i \in 1 .. Len(a) : d[i] = c[i]
    BY <1>1
  <2> HIDE DEF d
  <2>2. d = a
    BY <1>1, <2>1, SeqEqual
  <2> QED
    BY <2>2 DEF d
<1>3. a \in Prefixes(c)
  <2>1. Len(a) \in 0 .. Len(c)
    BY <1>1
  <2> QED
    BY <1>2, <2>1 DEF Prefixes
<1>4. ToSet(a) \subseteq ToSet(c)
  BY <1>1 DEF ToSet
<1>5. ASSUME NEW x \in ToSet(b) PROVE x \in ToSet(c)
  <2>1. PICK i \in 1 .. Len(b) : x = b[i]
    BY <1>1 DEF ToSet
  <2>2. Len(a) + i \in DOMAIN c /\ c[Len(a) + i] = x
    BY <1>1, <2>1
  <2> QED
    BY <2>2 DEF ToSet
<1> QED
  BY <1>1, <1>3, <1>4, <1>5 DEF c, Text

LEMMA PrefixesOf ==
  ASSUME NEW t \in Text, NEW a \in Prefixes(t)
  PROVE  a \in Text
<1>1. t \in Seq(STRING)
  BY DEF Text
<1>2. PICK n \in 0 .. Len(t) : a = SubSeq(t, 1, n)
  BY DEF Prefixes
<1>3. 1 \in Nat \ {0}
  OBVIOUS
<1> QED
  BY <1>1, <1>2, <1>3, PartSeq, Zenon DEF Text

LEMMA CallAt ==
  ASSUME NEW calls \in Calling, NEW n \in 1 .. Len(calls)
  PROVE  calls[n] \in CallbacksWithText /\ calls[n].at \in Text
<1>1. calls[n] \in CallbacksWithText
  BY DEF Calling
<1> QED
  BY <1>1 DEF CallbacksWithText

LEMMA FieldsStay ==
  ASSUME FieldsInv, UNCHANGED <<input, todo, headers, stderr, volume>>
  PROVE  FieldsInv'
BY Zenon DEF FieldsInv, FieldsAt, GivenText, Givens, Due, LogsOwnFields

\* The text of a field, put together.
LEMMA FieldTextIs ==
  ASSUME NEW k, NEW t \in Text
  PROVE  FieldText(Callback(k, t)) = IF k \in {"header_field", "header_value"} THEN t ELSE <<>>
BY CallbackFacts DEF FieldText

LEMMA GivenTextIs ==
  ASSUME NEW p, NEW given \in Text
  PROVE  /\ GivenText(p, given) = FieldText(Callback(input.calls[p].cb, given))
         /\ GivenText(p, given) \in Text
BY FieldTextIs, NothingIsText DEF GivenText

LEMMA FieldTextConcat ==
  ASSUME NEW k, NEW s \in Text, NEW t \in Text
  PROVE  FieldText(Callback(k, s)) \o FieldText(Callback(k, t)) = FieldText(Callback(k, s \o t))
<1>1. s \o t \in Text
  BY TextConcat, Zenon
<1>2. <<>> \o <<>> = <<>>
  OBVIOUS
<1> QED
  BY <1>1, <1>2, FieldTextIs

LEMMA FieldTextWhole ==
  ASSUME NEW c \in CallbacksWithText
  PROVE  FieldText(Callback(c.cb, c.at)) = FieldText(c)
BY FieldTextIs DEF FieldText, CallbacksWithText

\* The callback at p was made, with the next piece of its text or the last.
LEMMA FieldsAfterCallback ==
  ASSUME Copies, parser \in Parsers, cb'.at \in Text, CalledBack, UNCHANGED input, FieldsInv, NEW atEnd,
         todo' = Delivered(cb', atEnd), todo' \in Calling
  PROVE  FieldsInv'
<1>0. PICK c : c = cb'
  OBVIOUS
<1> DEFINE calls == input.calls
           k == c.cb
           at == c.at
           texts(first, p) == FieldTexts(SubSeq(calls, first, p - 1))
<1>1. CASE cb' = NoCallback
  <2>1. k = "none" /\ todo' = todo
    BY <1>0, <1>1, CallbackFacts DEF Delivered
  <2>2. UNCHANGED <<headers, stderr, volume>>
    BY <1>0, <2>1 DEF CalledBack
  <2> QED
    BY <2>1, <2>2, FieldsStay
<1>2. CASE cb' # NoCallback
  <2>1. /\ input \in Inputs /\ todo \in Calling /\ volume' = volume
        /\ ListsFields(input) /\ calls \in Calling
    BY CallsAssumption DEF FieldsInv, CalledBack, Calling, ListsFields
  <2> SUFFICES ASSUME volume > 1
               PROVE  /\ LogsOwnFields'
                      /\ \E p \in 1 .. Len(calls) + 1 : \E first \in 1 .. p :
                           \E given \in Givens(p)' : FieldsAt(p, first, given)'
    BY <2>1, Zenon DEF FieldsInv, Calling
  <2>2. PICK p \in 1 .. Len(calls) + 1 : \E first \in 1 .. p :
               \E given \in Givens(p) : FieldsAt(p, first, given)
    BY DEF FieldsInv
  <2>3. PICK first \in 1 .. p : \E given \in Givens(p) : FieldsAt(p, first, given)
    BY <2>2
  <2>4. PICK given \in Givens(p) : FieldsAt(p, first, given)
    BY <2>3
  <2>5. /\ todo # <<>> /\ todo[1] \in CallbacksWithText /\ todo[1].cb = k
        /\ \E rest \in Text :
             /\ at \o rest = todo[1].at
             /\ \/ /\ todo' = <<Callback(k, rest)>> \o Tail(todo)
                   /\ rest # <<>> \/ k \in Data
                \/ todo' = Tail(todo) /\ rest = <<>>
    BY <1>0, <1>2, <2>1, DeliveredIs
  <2>6. PICK rest \in Text :
             /\ at \o rest = todo[1].at
             /\ \/ /\ todo' = <<Callback(k, rest)>> \o Tail(todo)
                   /\ rest # <<>> \/ k \in Data
                \/ todo' = Tail(todo) /\ rest = <<>>
    BY <2>5
  <2>7. /\ p \in 1 .. Len(calls) /\ Len(calls) \in Nat
        /\ calls[p].cb = k /\ given \o (at \o rest) = calls[p].at
        /\ Tail(todo) = SubSeq(calls, p + 1, Len(calls))
    <3>1. Len(calls) \in Nat
      BY <2>1 DEF Calling
    <3>2. ~(p > Len(calls))
      BY <2>4, <2>5, Zenon DEF FieldsAt, Due
    <3>3. /\ todo[1].cb = calls[p].cb /\ given \o todo[1].at = calls[p].at
          /\ Tail(todo) = SubSeq(calls, p + 1, Len(calls))
      BY <2>4, <3>2, Zenon DEF FieldsAt, Due
    <3>4. p \in 1 .. Len(calls)
      BY <3>1, <3>2
    <3> QED
      BY <2>5, <2>6, <3>1, <3>3, <3>4
  <2>8. calls[p] \in CallbacksWithText /\ calls[p].at \in Text
    BY <2>1, <2>7, CallAt
  <2>9. given \in Text
    BY <2>4, <2>7, <2>8, PrefixesOf DEF Givens
  <2>10. /\ calls[p].cb \notin Data => calls[p].at = <<>>
         /\ ToSet(FieldText(calls[p])) \cap FieldSeparators = {}
    <3>1. p \in DOMAIN calls
      BY <2>1, <2>7 DEF Calling
    <3> QED
      BY <2>1, <3>1, Zenon DEF ListsFields
  <2> DEFINE now == given \o at
             kept == texts(first, p)
  <2>11. /\ now \in Text /\ at \o rest \in Text /\ now \o rest = calls[p].at
         /\ given \in Seq(STRING) /\ at \in Seq(STRING) /\ rest \in Seq(STRING)
    <3>1. given \in Seq(STRING) /\ at \in Seq(STRING) /\ rest \in Seq(STRING)
      BY <1>0, <2>6, <2>9 DEF Text
    <3>2. (given \o at) \o rest = given \o (at \o rest)
      BY <3>1, TextAssociates, Zenon
    <3>3. now \in Text /\ at \o rest \in Text
      <4>1. at \in Text
        BY <3>1 DEF Text
      <4> QED
        BY <2>6, <2>9, <4>1, TextConcat, Zenon
    <3> QED
      BY <2>7, <3>1, <3>2, <3>3
  <2>12. kept \in Text /\ GivenText(p, given) \in Text
         /\ kept \o GivenText(p, given) \in Text
         /\ Keeps(headers, kept \o GivenText(p, given))
    <3>1. SubSeq(calls, first, p - 1) \in Seq(CallbacksWithText)
      BY <2>1, <2>3, <2>7, FieldTextsMore DEF Calling
    <3>2. kept \in Text
      BY <3>1, FieldTextsType
    <3> QED
      BY <2>4, <2>9, <3>2, GivenTextIs, TextConcat DEF FieldsAt
  <2> HIDE DEF calls, k, at, texts, now, kept
  <2>13. ASSUME k # "message_complete"
         PROVE  /\ UNCHANGED <<volume, stderr>> /\ LogsOwnFields'
                /\ Keeps(headers', kept \o FieldText(Callback(k, now)))
    <3> DEFINE more == FieldText(Callback(k, at))
    <3>1. more \in Text /\ ToSet(more) \cap FieldSeparators = {}
      <4>1. more \in Text
        BY <2>11, FieldTextIs, NothingIsText DEF Text
      <4>2. ToSet(at) \subseteq ToSet(calls[p].at)
        <5>1. at \in Text
          BY <2>11 DEF Text
        <5>2. ToSet(at) \subseteq ToSet(now)
          BY <2>9, <5>1, BeginsWith DEF now
        <5>3. ToSet(now) \subseteq ToSet(now \o rest)
          BY <2>6, <2>11, BeginsWith
        <5> QED
          BY <2>11, <5>2, <5>3
      <4>3. FieldText(calls[p]) = IF k \in {"header_field", "header_value"}
                                  THEN calls[p].at ELSE <<>>
        BY <2>7 DEF FieldText
      <4>4. more = IF k \in {"header_field", "header_value"} THEN at ELSE <<>>
        BY <2>11, FieldTextIs DEF Text
      <4>5. ToSet(<<>>) = {}
        BY DEF ToSet
      <4> QED
        BY <2>10, <4>1, <4>2, <4>3, <4>4, <4>5
    <3>2. UNCHANGED <<volume, stderr>>
          /\ Keeps(headers', (kept \o GivenText(p, given)) \o more)
      <4> DEFINE had == kept \o GivenText(p, given)
      <4>1. had \in Text /\ Keeps(headers, had)
        BY <2>12
      <4> HIDE DEF had
      <4>2. UNCHANGED <<volume, stderr>> /\ Keeps(headers', had \o more)
        BY <1>0, <2>13, <3>1, <4>1, HeadersKeep DEF k, at
      <4> QED
        BY <4>2 DEF had
    <3>3. (kept \o GivenText(p, given)) \o more = kept \o (GivenText(p, given) \o more)
      <4>1. kept \in Seq(STRING) /\ GivenText(p, given) \in Seq(STRING) /\ more \in Seq(STRING)
        BY <2>12, <3>1 DEF Text
      <4> QED
        BY <4>1, TextAssociates, Zenon
    <3>4. GivenText(p, given) \o more = FieldText(Callback(k, now))
      <4>1. GivenText(p, given) = FieldText(Callback(k, given)) /\ at \in Text
        BY <2>7, <2>9, <2>11, GivenTextIs DEF Text, calls
      <4> QED
        BY <2>9, <4>1, FieldTextConcat DEF now
    <3>5. LogsOwnFields'
      BY <2>1, <3>2 DEF FieldsInv, LogsOwnFields
    <3> QED
      BY <3>2, <3>3, <3>4, <3>5
  <2>14. CASE todo' = <<Callback(k, rest)>> \o Tail(todo) /\ (rest # <<>> \/ k \in Data)
    <3>1. k \in Data
      <4>1. ASSUME k \notin Data PROVE rest = <<>>
        <5>1. now \o rest = <<>>
          BY <2>7, <2>10, <2>11, <4>1
        <5>2. now \in Seq(STRING) /\ rest \in Seq(STRING)
          BY <2>11 DEF Text
        <5> QED
          BY <5>1, <5>2
      <4> QED
        BY <2>14, <4>1
    <3>2. k # "message_complete"
      BY <3>1 DEF Data
    <3>3. GivenText(p, now) = FieldText(Callback(k, now))
      BY <2>7, <2>11, GivenTextIs DEF calls
    <3>4. now \in Givens(p)
      <4>1. now \in Prefixes(calls[p].at)
        BY <2>6, <2>11, BeginsWith
      <4> QED
        BY <2>7, <4>1 DEF Givens, calls
    <3>5. /\ todo' # <<>> /\ todo'[1] = Callback(k, rest) /\ Tail(todo') = Tail(todo)
      <4>1. Callback(k, rest) \in CallbacksWithText
        BY <2>6, <3>1 DEF Callback, CallbacksWithText
      <4>2. Tail(todo) \in Seq(CallbacksWithText)
        BY <2>1, <2>5 DEF Calling
      <4> DEFINE S == CallbacksWithText
                 x == Callback(k, rest)
                 t == Tail(todo)
      <4>3. x \in S /\ t \in Seq(S) /\ todo' = <<x>> \o t
        BY <2>14, <4>1, <4>2
      <4> HIDE DEF S, x, t
      <4>4. todo' # <<>> /\ todo'[1] = x /\ Tail(todo') = t
        BY <4>3, ConsTail
      <4> QED
        BY <4>4 DEF x, t
    <3>6. Due(p, now)'
      <4>1. todo'[1].cb = k /\ todo'[1].at = rest
        <5>1. Callback(k, rest).cb = k /\ Callback(k, rest).at = rest
          BY CallbackFacts, Zenon
        <5> QED
          BY <3>5, <5>1
      <4>2. now \o todo'[1].at = calls[p].at
        BY <2>11, <4>1
      <4>3. ~(p > Len(calls))
        BY <2>7
      <4> QED
        BY <2>7, <3>5, <4>1, <4>2, <4>3, Zenon DEF Due, calls
    <3>7. GivenText(p, now)' = GivenText(p, now) /\ Givens(p)' = Givens(p)
      BY Zenon DEF GivenText, Givens
    <3>8. FieldsAt(p, first, now)'
      <4>1. /\ Begins(input'.calls, first, p - 1)
            /\ Len(stderr') = Ended(input'.calls, p - 1)
        BY <2>4, <2>13, <3>2 DEF FieldsAt
      <4>2. Keeps(headers', FieldTexts(SubSeq(input'.calls, first, p - 1))
                              \o GivenText(p, now)')
        BY <2>13, <3>2, <3>3, <3>7 DEF kept, texts, calls
      <4> QED
        BY <3>6, <4>1, <4>2 DEF FieldsAt
    <3> QED
      BY <2>2, <2>3, <2>13, <3>2, <3>4, <3>7, <3>8
  <2>15. CASE todo' = Tail(todo) /\ rest = <<>>
    <3> DEFINE n == p + 1
    <3>1. n \in 1 .. Len(calls) + 1 /\ first \in 1 .. n /\ n \in 1 .. n /\ n - 1 = p
          /\ p \in Nat /\ p - 1 \in Nat /\ (p - 1) + 1 = p
      BY <2>3, <2>7
    <3>2. now = calls[p].at
      <4>1. now \o <<>> = now
        BY <2>11, NothingAdded, Zenon DEF Text
      <4> QED
        BY <2>11, <2>15, <4>1
    <3>3. FieldText(Callback(k, now)) = FieldText(calls[p])
      BY <2>7, <2>8, <3>2, FieldTextWhole
    <3>4. texts(first, n) = kept \o FieldText(calls[p])
      BY <2>1, <2>3, <2>7, <3>1, FieldTextsMore DEF Calling, texts, kept
    <3> HIDE DEF n
    <3>5. /\ <<>> \in Givens(n)'
          /\ n > Len(calls) => todo' = <<>>
          /\ n <= Len(calls) => /\ todo' # <<>> /\ todo'[1] = calls[n]
                                /\ Tail(todo') = SubSeq(calls, n + 1, Len(calls))
      <4>1. LET left == SubSeq(calls, p + 1, Len(calls))
            IN  /\ p = Len(calls) => left = <<>>
                /\ p < Len(calls) => /\ left # <<>> /\ left[1] = calls[p + 1]
                                     /\ Tail(left) = SubSeq(calls, p + 2, Len(calls))
        BY <2>1, <2>7, LeftFrom DEF Calling
      <4>2. todo' = SubSeq(calls, p + 1, Len(calls))
        BY <2>7, <2>15
      <4>3. /\ n > Len(calls) => p = Len(calls)
            /\ n <= Len(calls) => p < Len(calls)
            /\ n = p + 1 /\ n + 1 = p + 2
        BY <2>7 DEF n
      <4>4. <<>> \in Givens(n)'
        <5>1. ASSUME n <= Len(calls) PROVE <<>> \in Prefixes(calls[n].at)
          <6>1. calls[n].at \in Text
            <7>1. n \in 1 .. Len(calls)
              BY <2>7, <3>1, <5>1
            <7> QED
              BY <2>1, <7>1, CallAt
          <6>2. <<>> \o calls[n].at = calls[n].at
            BY <6>1 DEF Text
          <6> QED
            BY <6>1, <6>2, NothingIsText, BeginsWith
        <5>2. n <= Len(calls) \/ n > Len(calls)
          BY <2>7, <3>1
        <5> QED
          BY <5>1, <5>2 DEF Givens, calls
      <4> QED
        BY <4>1, <4>2, <4>3, <4>4
    <3>6. Due(n, <<>>)'
      <4>1. n <= Len(calls) \/ n > Len(calls)
        BY <2>7, <3>1
      <4>2. ASSUME n <= Len(calls) PROVE <<>> \o calls[n].at = calls[n].at
        <5>1. calls[n].at \in Text
          <6>1. n \in 1 .. Len(calls)
            BY <2>7, <3>1, <4>2
          <6> QED
            BY <2>1, <6>1, CallAt
        <5> QED
          BY <5>1 DEF Text
      <4> QED
        BY <3>5, <4>1, <4>2 DEF Due, calls
    <3>7. GivenText(n, <<>>)' = <<>>
      BY DEF GivenText
    <3>8. Ended(calls, p) = IF k = "message_complete" THEN Len(stderr) + 1 ELSE Len(stderr)
      <4>1. Len(stderr) = Ended(calls, p - 1)
        BY <2>4 DEF FieldsAt, calls
      <4> DEFINE q == p - 1
      <4>2. q \in Nat /\ q + 1 = p
        BY <3>1
      <4> HIDE DEF q
      <4>3. Ended(calls, q + 1) = IF EndsMessage(calls[q + 1]) THEN Ended(calls, q) + 1
                                  ELSE Ended(calls, q)
        BY <4>2, EndedMore
      <4> QED
        BY <2>7, <4>1, <4>2, <4>3 DEF EndsMessage, q
    <3>9. Begins(calls, first, p - 1)
      BY <2>4 DEF FieldsAt, calls
    <3>10. CASE k # "message_complete"
      <4>1. Begins(calls, first, p)
        <5>1. ~EndsMessage(calls[p])
          BY <2>7, <3>10 DEF EndsMessage
        <5>2. \A i \in first .. p : i = p \/ i \in first .. p - 1
          BY <2>3, <3>1
        <5> QED
          BY <3>9, <5>1, <5>2 DEF Begins
      <4>2. Keeps(headers', texts(first, n))
        BY <2>13, <3>3, <3>4, <3>10
      <4>3. texts(first, n) \o <<>> = texts(first, n)
        <5>1. FieldText(calls[p]) \in Text
          BY <2>8, FieldTextType
        <5>2. texts(first, n) \in Seq(STRING)
          BY <2>12, <3>4, <5>1, TextConcat DEF Text
        <5> QED
          BY <5>2, NothingAdded, Zenon
      <4>4. FieldsAt(n, first, <<>>)'
        <5>1. Begins(input'.calls, first, n - 1) /\ Len(stderr') = Ended(input'.calls, n - 1)
          BY <2>13, <3>1, <3>8, <3>10, <4>1 DEF calls
        <5>2. Keeps(headers', FieldTexts(SubSeq(input'.calls, first, n - 1))
                                \o GivenText(n, <<>>)')
          BY <3>7, <4>2, <4>3 DEF texts, calls
        <5> QED
          BY <3>6, <5>1, <5>2 DEF FieldsAt
      <4> QED
        BY <2>13, <3>1, <3>5, <3>10, <4>4
    <3>11. CASE k = "message_complete"
      <4> DEFINE e == [line |-> Line, fields |-> headers]
                 S == [line : Text, fields : Text]
      <4>1. stderr' = Append(stderr, e) /\ headers' = <<>>
        <5>1. CbLogMessageComplete
          BY <1>0, <3>11 DEF CalledBack, k
        <5>2. volume > 0
          BY VolumeAssumption DEF Copies
        <5> QED
          BY <5>1, <5>2 DEF CbLogMessageComplete
      <4>2. k \notin {"header_field", "header_value"} /\ kept \o <<>> = kept
        <5>1. kept \in Seq(STRING)
          BY <2>12 DEF Text
        <5> QED
          BY <3>11, <5>1, NothingAdded, Zenon
      <4>3. FieldText(calls[p]) = <<>> /\ GivenText(p, given) = <<>>
        BY <2>7, <2>9, <4>2, FieldTextIs, GivenTextIs DEF FieldText, calls
      <4>4. Keeps(headers, kept) /\ kept = texts(first, n)
        BY <2>12, <3>4, <4>2, <4>3
      <4>5. texts(first, n) = FieldsOf(input.messages[Ended(calls, p)])
        <5>1. p \in DOMAIN calls /\ first \in 1 .. p /\ EndsMessage(calls[p])
          BY <2>1, <2>3, <2>7, <3>11 DEF EndsMessage, Calling
        <5> QED
          BY <2>1, <3>1, <3>9, <5>1 DEF ListsFields, texts, calls
      <4>6. /\ stderr \in Seq(S) /\ e \in S
        <5>1. headers \in Text /\ stderr \in Seq(S)
          BY DEF Copies
        <5>2. Line \in Text
          BY LineFacts DEF Copies
        <5> QED
          BY <5>1, <5>2
      <4> HIDE DEF e, S
      <4>7. /\ Len(stderr') = Len(stderr) + 1 /\ Len(stderr) \in Nat
            /\ DOMAIN stderr' = 1 .. Len(stderr) + 1 /\ DOMAIN stderr = 1 .. Len(stderr)
            /\ \A i \in 1 .. Len(stderr) : stderr'[i] = stderr[i]
            /\ stderr'[Len(stderr) + 1] = e
        BY <4>1, <4>6
      <4>8. e.fields = headers
        BY DEF e
      <4>9. LogsOwnFields'
        <5> SUFFICES ASSUME NEW i \in DOMAIN stderr'
                     PROVE  Keeps(stderr'[i].fields, FieldsOf(input.messages[i]))
          BY DEF LogsOwnFields
        <5>1. CASE i = Len(stderr) + 1
          BY <3>8, <3>11, <4>4, <4>5, <4>7, <4>8, <5>1
        <5>2. CASE i # Len(stderr) + 1
          <6>1. i \in 1 .. Len(stderr)
            BY <4>7, <5>2
          <6> QED
            BY <4>7, <6>1 DEF FieldsInv, LogsOwnFields
        <5> QED
          BY <5>1, <5>2
      <4>10. FieldsAt(n, n, <<>>)'
        <5>1. Begins(calls, n, n - 1)
          <6>1. calls[n - 1].cb = "message_complete" /\ \A i \in n .. n - 1 : FALSE
            BY <2>7, <3>1, <3>11
          <6> QED
            BY <6>1 DEF Begins, EndsMessage
        <5>2. Len(stderr') = Ended(calls, n - 1)
          BY <3>1, <3>8, <3>11, <4>7
        <5>3. Keeps(headers', FieldTexts(SubSeq(calls, n, n - 1)) \o GivenText(n, <<>>)')
          <6>1. SubSeq(calls, n, n - 1) = <<>>
            BY <2>1, <3>1 DEF Calling
          <6>2. <<>> \o <<>> = <<>>
            OBVIOUS
          <6>3. IsPrefix(<<>>, <<>>)
            BY ConcatPrefix, NothingIsText
          <6> QED
            BY <3>7, <4>1, <6>1, <6>2, <6>3, FieldTextsNone, PlainNothing DEF Keeps
        <5> QED
          BY <3>6, <5>1, <5>2, <5>3 DEF FieldsAt, calls
      <4> QED
        BY <3>1, <3>5, <4>9, <4>10
    <3> QED
      BY <3>10, <3>11
  <2> QED
    BY <2>6, <2>14, <2>15
<1> QED
  BY <1>1, <1>2

LEMMA FieldsStart ==
  ASSUME LogInit
  PROVE  FieldsInv
<1> DEFINE calls == input.calls
<1>1. /\ input \in Inputs /\ todo = calls /\ stderr = <<>> /\ headers = <<>>
      /\ calls \in Seq(CallbacksWithText)
  BY CallsAssumption DEF LogInit, ListsFields
<1> HIDE DEF calls
<1>2. LogsOwnFields
  BY <1>1 DEF LogsOwnFields
<1>3. Len(calls) \in Nat /\ 1 \in 1 .. Len(calls) + 1 /\ 1 \in 1 .. 1 /\ 1 - 1 = 0
  BY <1>1
<1>4. <<>> \in Givens(1) /\ Due(1, <<>>)
  <2>1. CASE calls = <<>>
    <3>1. 1 > Len(calls)
      BY <2>1
    <3> QED
      BY <1>1, <2>1, <3>1 DEF Givens, Due, calls
  <2>2. CASE calls # <<>>
    <3>1. /\ ~(1 > Len(calls)) /\ calls[1] \in CallbacksWithText
          /\ Tail(calls) = SubSeq(calls, 1 + 1, Len(calls))
      BY <1>1, <2>2
    <3>2. calls[1].at \in Text
      BY <3>1 DEF CallbacksWithText
    <3>3. <<>> \o calls[1].at = calls[1].at
      BY <3>2 DEF Text
    <3>4. <<>> \in Prefixes(calls[1].at)
      BY <3>2, <3>3, NothingIsText, BeginsWith
    <3> QED
      BY <1>1, <2>2, <3>1, <3>3, <3>4 DEF Givens, Due, calls
  <2> QED
    BY <2>1, <2>2
<1>5. FieldsAt(1, 1, <<>>)
  <2>1. Begins(calls, 1, 0)
    BY DEF Begins
  <2>2. Len(stderr) = Ended(calls, 0)
    BY <1>1, EndedMore
  <2>3. Keeps(headers, FieldTexts(SubSeq(calls, 1, 0)) \o GivenText(1, <<>>))
    <3>1. SubSeq(calls, 1, 0) = <<>> /\ GivenText(1, <<>>) = <<>> /\ <<>> \o <<>> = <<>>
      BY <1>1 DEF GivenText
    <3>2. IsPrefix(<<>>, <<>>)
      BY ConcatPrefix, NothingIsText
    <3> QED
      BY <1>1, <3>1, <3>2, FieldTextsNone, PlainNothing DEF Keeps
  <2> QED
    BY <1>3, <1>4, <2>1, <2>2, <2>3 DEF FieldsAt, calls
<1> QED
  BY <1>1, <1>2, <1>3, <1>4, <1>5 DEF FieldsInv, calls

\* What is due stays callbacks with their text.
LEMMA DeliverKept ==
  ASSUME todo \in Calling, [DeliversCallbacks!Deliver]_todo
  PROVE  todo' \in Calling
<1>1. CASE UNCHANGED todo
  BY <1>1
<1>2. CASE DeliversCallbacks!Deliver
  <2>1. PICK at \in Pieces(todo, FALSE) : todo' \in Remaining(todo, at, FALSE)
    BY <1>2 DEF DeliversCallbacks!Deliver, DeliversCallbacks!Pieces, Pieces,
       DeliversCallbacks!Remaining, Remaining, DeliversCallbacks!Data, Data,
       DeliversCallbacks!Callback, Callback, DeliversCallbacks!Prefixes, Prefixes
  <2> DEFINE due == Head(todo)
             rest == SubSeq(due.at, Len(at) + 1, Len(due.at))
             x == Callback(due.cb, rest)
             left == Tail(todo)
  <2>2. todo' \in {<<x>> \o left, left}
    BY <2>1 DEF Remaining
  <2>3. due \in CallbacksWithText /\ left \in Calling
    BY <1>2 DEF DeliversCallbacks!Deliver, Calling
  <2>4. due.at \in Text /\ due.cb \in Data \union {"headers_complete", "message_complete"}
    BY <2>3 DEF CallbacksWithText
  <2>5. at \in Text
    BY <2>1, <2>4, PrefixesOf DEF Pieces
  <2>6. rest \in Text
    <3>1. due.at \in Seq(STRING) /\ at \in Seq(STRING)
      BY <2>4, <2>5 DEF Text
    <3>2. Len(at) + 1 \in Nat \ {0} /\ Len(due.at) \in 0 .. Len(due.at)
      BY <3>1
    <3> QED
      BY <3>1, <3>2, PartSeq, Zenon DEF Text
  <2>7. x \in CallbacksWithText
    BY <2>4, <2>6 DEF Callback, CallbacksWithText
  <2> HIDE DEF due, rest, x, left
  <2>8. <<x>> \o left \in Calling
    BY <2>3, <2>7, ConsTail DEF Calling
  <2> QED
    BY <2>2, <2>3, <2>8
<1> QED
  BY <1>1, <1>2

\* Every step of the tool that is one of the stream of its callbacks.
LEMMA FieldsStep ==
  ASSUME ToolInv, ToolInv', FieldsInv, [LogNext]_logVars,
         [DeliversCallbacks!Deliver]_todo
  PROVE  FieldsInv'
<1>1. Copies /\ parser \in Parsers /\ ParserOK'
  <2>1. Sizes /\ Copies /\ ParserOK
    BY ToolInvIs
  <2>2. ToolInv' => ParserOK'
    BY ToolInvIs, PTL
  <2> QED
    BY <2>1, <2>2 DEF ParserOK, Known
<1>2. cb'.at \in Text
  BY <1>1 DEF ParserOK, TextsOK
<1>3. todo' \in Calling
  BY DeliverKept DEF FieldsInv, Calling
<1>4. ASSUME UNCHANGED <<log_data, stderr, input, todo>> PROVE FieldsInv'
  BY <1>4, FieldsStay DEF log_data
<1>5. CASE ReadMessages \/ ReadFails
  BY <1>4, <1>5 DEF ReadMessages, ReadFails, stdin
<1>6. CASE Pass \/ Returns \/ Breaks
  BY <1>4, <1>6 DEF Pass, Returns, Breaks, stdin
<1>7. CASE ReadEof
  <2>1. CalledBack /\ UNCHANGED input /\ todo' = Delivered(cb', FALSE)
    BY <1>7 DEF ReadEof, stdin
  <2> QED
    BY <1>1, <1>2, <1>3, <2>1, FieldsAfterCallback
<1>8. CASE Parse
  <2>1. PICK atEnd : CalledBack /\ UNCHANGED input /\ todo' = Delivered(cb', atEnd)
    BY <1>8 DEF Parse, stdin
  <2> QED
    BY <1>1, <1>2, <1>3, <2>1, FieldsAfterCallback
<1>9. CASE UNCHANGED logVars
  BY <1>4, <1>9 DEF logVars, stdin
<1> QED
  BY <1>5, <1>6, <1>7, <1>8, <1>9 DEF LogNext, Main, Done

\* What is logged with a message are its own fields, all of them if they fit,
\* however the input is cut (log.c:128-175, 199-228), if the parser calls back
\* in order, as it does in every run of LogTool.cfg.
THEOREM OwnFieldsLogged == Spec /\ DeliversInOrder => []LogsOwnFields
<1>1. LogInit => FieldsInv
  BY FieldsStart
<1>2. ToolInv /\ ToolInv' /\ FieldsInv /\ [LogNext]_logVars
        /\ [DeliversCallbacks!Deliver]_todo => FieldsInv'
  BY FieldsStep
<1>3. FieldsInv => LogsOwnFields
  BY DEF FieldsInv, LogsOwnFields
<1> QED
  BY <1>1, <1>2, <1>3, ToolInvariant, PTL DEF Spec, DeliversInOrder, DeliversCallbacks!Spec
=============================================================================
