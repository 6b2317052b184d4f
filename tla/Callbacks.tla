----------------------------- MODULE Callbacks -----------------------------
(***************************************************************************)
(* What http_parser.c hands to the tools: for every message the callbacks  *)
(* it makes, in order, each with the text it points at.  A text is a       *)
(* sequence of atoms.                                                      *)
(*                                                                         *)
(* A message is a record of its type ("request" or "response"), its url    *)
(* (the reason phrase of a response, which may be empty), its header       *)
(* fields, the pieces its body arrives in, and its trailing fields (after  *)
(* a chunked body).  A field is a record of a name and a value.            *)
(***************************************************************************)
EXTENDS Naturals, Sequences, SequencesExt

Text == Seq(STRING)
FieldLines == Seq([name : Text, value : Text])
Messages == [type : {"request", "response"}, url : Text, fields : FieldLines,
             body : Seq(Text), trailers : FieldLines]

\* The callbacks that give text.
Data == {"url", "status", "header_field", "header_value", "body"}

CallbacksWithText ==
  [cb : Data \union {"headers_complete", "message_complete"}, at : Text]

Callback(cb, at) == [cb |-> cb, at |-> at]

RequestLine(message) == <<Callback("url", message.url)>>

\* on_status is not called for a response without a reason phrase.
StatusLine(message) ==
  IF message.url = <<>> THEN <<>> ELSE <<Callback("status", message.url)>>

StartCallbacks(message) ==
  IF message.type = "request" THEN RequestLine(message) ELSE StatusLine(message)

Name(field) == Callback("header_field", field.name)
Value(field) == Callback("header_value", field.value)

FieldCallbacks(fields) ==
  FlattenSeq([i \in DOMAIN fields |-> <<Name(fields[i]), Value(fields[i])>>])

\* A body by its length, in chunks, or up to the end of the input.
BodyCallbacks(body) == [i \in DOMAIN body |-> Callback("body", body[i])]

HeadersComplete == Callback("headers_complete", <<>>)
MessageComplete == Callback("message_complete", <<>>)

CallbacksOf(message) ==
  StartCallbacks(message) \o FieldCallbacks(message.fields)
    \o <<HeadersComplete>>
    \o BodyCallbacks(message.body) \o FieldCallbacks(message.trailers)
    \o <<MessageComplete>>

\* The whole stream.  Both tools initialise the parser again after each
\* message, so that one message does not depend on those before it.
Stream(messages) ==
  FlattenSeq([i \in DOMAIN messages |-> CallbacksOf(messages[i])])

-----------------------------------------------------------------------------
(***************************************************************************)
(* A text that crosses the end of the buffer given to http_parser_execute  *)
(* arrives in pieces: the first is what the buffer had of it, and when the *)
(* buffer ends right behind a text that is not a body, one more, empty,    *)
(* piece follows.  Texts are whole when whole is TRUE.                     *)
(***************************************************************************)
Pieces(todo, whole) ==
  IF whole \/ Head(todo).cb \notin Data THEN {Head(todo).at}
  ELSE {Head(todo).at} \union (Prefixes(Head(todo).at) \ {<<>>})

\* What can be left of the stream once the piece at was delivered.
Remaining(todo, at, whole) ==
  LET rest == SubSeq(Head(todo).at, Len(at) + 1, Len(Head(todo).at))
      more == <<Callback(Head(todo).cb, rest)>> \o Tail(todo)
  IN  IF rest # <<>> THEN {more}
      ELSE IF whole \/ at = <<>> \/ Head(todo).cb \notin Data \ {"body"}
           THEN {Tail(todo)} ELSE {Tail(todo), more}
-----------------------------------------------------------------------------
(***************************************************************************)
(* Where in the stream a tool can be: before a message, before a field of  *)
(* its head (m messages and j fields are past) or between the name and the *)
(* value of one, before a piece of its body.  Each operator gives the      *)
(* callbacks that are to come from there.                                  *)
(***************************************************************************)
Rest(s, j) == SubSeq(s, j + 1, Len(s))

MessageCalls(messages, m) == Stream(Rest(messages, m))
BodyCalls(messages, m, j) ==
  BodyCallbacks(Rest(messages[m + 1].body, j)) \o <<MessageComplete>>
    \o MessageCalls(messages, m + 1)
HeadCalls(messages, m, j) ==
  FieldCallbacks(Rest(messages[m + 1].fields, j)) \o <<HeadersComplete>>
    \o BodyCalls(messages, m, 0)
ValueCalls(messages, m, j) ==
  <<Value(messages[m + 1].fields[j + 1])>> \o HeadCalls(messages, m, j + 1)

\* Every response has a reason phrase, and no message trailing fields.
PlainMessages(messages) ==
  \A i \in DOMAIN messages :
    /\ messages[i].type = "response" => messages[i].url # <<>>
    /\ messages[i].trailers = <<>>
=============================================================================
