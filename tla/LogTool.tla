------------------------------ MODULE LogTool ------------------------------
(***************************************************************************)
(* log.c: copies its input to stdout, and reports on stderr each HTTP      *)
(* message that http_parser_execute finds in it.  The parser is that of    *)
(* HttpParser, its callbacks are those of log.c.                           *)
(*                                                                         *)
(* An input is a record: the bytes on the wire, the messages they are, the *)
(* callbacks that are due for them, and whether the bytes are "complete",  *)
(* "cut off" or "malformed"; cuts bounds the reads that get less than     *)
(* there is.                                                               *)
(***************************************************************************)
EXTENDS HttpParser, Util

CONSTANTS
  Inputs,      \* what stdin may have
  Volumes,     \* among 0 (-q), 1 and 2 (-v)
  BUFFER_MAX,  \* size of the read buffer and of the copy of the fields
  URL_MAX,     \* size of the copy of the URL
  STRING_MAX   \* size of the copy of the line that is logged

ASSUME InputAssumption == \A i \in Inputs : i.wire \in Text
ASSUME VolumeAssumption == Volumes \subseteq {0, 1, 2}
ASSUME SizeAssumption ==
  BUFFER_MAX \in Nat \ {0} /\ URL_MAX \in Nat \ {0} /\ STRING_MAX \in Nat \ {0}
\* What the tool adds to the texts is text (tlapm does not see this itself).
ASSUME LiteralAssumption ==
  {"\t", ": ", "\r\n", "[req]", "[res]", "unknown"}
    \union MethodNames \union StatusCodes \union Versions \subseteq STRING

VARIABLES
  pc,          \* where pass_http_messages is
  rc,          \* its exit code so far
  volume,      \* log_data->volume
  url,         \* log_data->url
  headers,     \* log_data->headers
  overrun,     \* history: something was put behind the block of url
  stdout,      \* what was written there
  stderr,      \* the messages logged, a record each
  input,       \* history: the input
  wire,        \* what of it was not read yet
  cuts,        \* history: the reads that got less than there is
  buffer,      \* what the last read got
  bytes_read,  \* how much of it is to be parsed
  todo,        \* history: the callbacks that are still due
  failed,      \* history: read has failed
  early        \* history: a call returned before the end of its buffer

log_data == <<volume, url, headers, overrun>>
stdin == <<input, wire, cuts, buffer>>
logVars == <<vars, pc, rc, log_data, stdout, stderr, stdin, bytes_read, todo,
             failed, early>>

-----------------------------------------------------------------------------
LogInit ==
  /\ Init
  /\ input \in Inputs
  /\ wire = input.wire
  /\ todo = input.calls
  /\ volume \in Volumes
  /\ url = <<>>
  /\ headers = <<>>
  /\ overrun = FALSE
  /\ stdout = <<>>
  /\ stderr = <<>>
  /\ pc = "read"
  /\ rc = "EX_OK"
  /\ cuts = 0
  /\ buffer = <<>>
  /\ bytes_read = 0
  /\ failed = FALSE
  /\ early = FALSE

-----------------------------------------------------------------------------
\* What the callbacks do with the text at.
Cut(text, n) == SubSeq(text, 1, IF Len(text) < n THEN Len(text) ELSE n)

KeptOfUrl(at) == Cut(at, URL_MAX)

\* Where the terminator is put behind it.
UrlEnd(at) == IF Len(at) < URL_MAX THEN Len(at) ELSE URL_MAX

UrlShown == IF url = <<>> THEN <<"unknown">> ELSE url

RequestShown(method, target, version) ==
  Cut(<<"[req]", method>> \o target \o <<version>>, STRING_MAX - 1)
ResponseShown(version, status, target) ==
  Cut(<<"[res]", version, status>> \o target, STRING_MAX - 1)

Line == IF parser.type = "HTTP_REQUEST"
        THEN RequestShown(parser.method, UrlShown, parser.version)
        ELSE ResponseShown(parser.version, parser.status_code, UrlShown)

CbLogUrlAppends(at) ==
  /\ url' = KeptOfUrl(url \o at)
  /\ overrun' = (overrun \/ UrlEnd(at) >= URL_MAX)
  /\ UNCHANGED <<headers, stderr>>
CbLogUrl(at) ==
  /\ url' = KeptOfUrl(at)
  /\ overrun' = (overrun \/ UrlEnd(at) >= URL_MAX)
  /\ UNCHANGED <<headers, stderr>>

CbLogHeaderField(at) ==
  LET tab == strlcat(headers, <<"\t">>, BUFFER_MAX)
  IN  /\ headers' = IF volume > 1
                    THEN strlcat(strlcat(tab, at, BUFFER_MAX), <<": ">>, BUFFER_MAX)
                    ELSE headers
      /\ UNCHANGED <<url, overrun, stderr>>

CbLogHeaderValue(at) ==
  /\ headers' = IF volume > 1
                THEN strlcat(strlcat(headers, at, BUFFER_MAX), <<"\r\n">>, BUFFER_MAX)
                ELSE headers
  /\ UNCHANGED <<url, overrun, stderr>>

CbLogMessageCompleteKeepsHeaders ==
  /\ stderr' = IF volume > 0
               THEN Append(stderr, [line |-> Line,
                      fields |-> IF volume > 1 THEN headers ELSE <<>>])
               ELSE stderr
  /\ UNCHANGED <<url, headers, overrun>>

\* The parser is initialised again as well, which is in MessageCompletes.
CbLogMessageComplete ==
  /\ stderr' = IF volume > 0
               THEN Append(stderr, [line |-> Line,
                      fields |-> IF volume > 1 THEN headers ELSE <<>>])
               ELSE stderr
  /\ headers' = <<>>
  /\ UNCHANGED <<url, overrun>>

CalledBack ==
  /\ volume' = volume
  /\ CASE cb'.cb = "url" -> CbLogUrl(cb'.at)
       [] cb'.cb = "header_field" -> CbLogHeaderField(cb'.at)
       [] cb'.cb = "header_value" -> CbLogHeaderValue(cb'.at)
       [] cb'.cb = "message_complete" -> CbLogMessageComplete
       [] OTHER -> UNCHANGED <<url, headers, overrun, stderr>>

-----------------------------------------------------------------------------
\* History: the callback c was made, by the end of the buffer or before it.
\* One that is not due shows as "unexpected".
Delivered(c, atEnd) ==
  LET due == Head(todo)
      rest == SubSeq(due.at, Len(c.at) + 1, Len(due.at))
      more == <<Callback(due.cb, rest)>> \o Tail(todo)
  IN  IF c = NoCallback THEN todo
      ELSE IF todo = <<>> \/ due.cb # c.cb \/ ~IsPrefix(c.at, due.at)
           THEN <<Callback("unexpected", c.at)>>
      ELSE IF rest # <<>> \/ (atEnd /\ c.cb \in Data \ {"body"} /\ c.at # <<>>)
           THEN more
      ELSE Tail(todo)

-----------------------------------------------------------------------------
\* pass_http_messages.
ReadMessages ==
  /\ pc = "read"
  /\ wire # <<>>
  /\ \E n \in 1 .. Min({Len(wire), BUFFER_MAX}) :
       /\ cuts < input.cuts \/ n = Min({Len(wire), BUFFER_MAX})
       /\ buffer' = SubSeq(wire, 1, n)
       /\ wire' = SubSeq(wire, n + 1, Len(wire))
       /\ bytes_read' = n
       /\ cuts' = IF n = Min({Len(wire), BUFFER_MAX}) THEN cuts ELSE cuts + 1
  /\ pc' = "pass"
  /\ UNCHANGED <<vars, rc, log_data, stdout, stderr, input, todo, failed, early>>

ReadFails ==
  /\ pc = "read"
  /\ pc' = "exit"
  /\ failed' = TRUE
  /\ UNCHANGED <<vars, rc, log_data, stdout, stderr, stdin, bytes_read, todo, early>>

\* The parser is told, what it answers is not looked at.
ReadEof ==
  /\ pc = "read"
  /\ wire = <<>>
  /\ ExecuteEof
  /\ CalledBack
  /\ todo' = Delivered(cb', FALSE)
  /\ pc' = "exit"
  /\ UNCHANGED <<rc, stdout, stdin, bytes_read, failed, early>>

\* write_all from the start of the buffer, then http_parser_execute from the
\* first byte that was not parsed (buf_ptr).
PassOnOneLess == stdout' = stdout \o SubSeq(buffer, 1, bytes_read - 1)
PassOn == stdout' = stdout \o SubSeq(buffer, 1, bytes_read)

Pass ==
  /\ pc = "pass"
  /\ PassOn
  /\ Execute(SubSeq(buffer, Len(buffer) - bytes_read + 1, Len(buffer)))
  /\ pc' = "execute"
  /\ UNCHANGED <<rc, log_data, stderr, stdin, bytes_read, todo, failed, early>>

Parse ==
  /\ pc = "execute"
  /\ Step
  /\ CalledBack
  /\ todo' = Delivered(cb', data = <<>>)
  /\ UNCHANGED <<pc, rc, stdout, stdin, bytes_read, failed, early>>

\* http_parser_execute has returned bytes_read - Len(data).
Returns ==
  /\ pc = "execute"
  /\ ~executing
  /\ \/ /\ parser.upgrade
        /\ pc' = "exit"
        /\ UNCHANGED <<rc, bytes_read>>
     \/ /\ ~parser.upgrade /\ Len(data) < bytes_read
        /\ bytes_read' = Len(data)
        /\ pc' = IF data = <<>> THEN "read" ELSE "pass"
        /\ UNCHANGED rc
     \/ /\ ~parser.upgrade /\ Len(data) = bytes_read
        /\ pc' = "exit"
        /\ rc' = "EX_IOERR"
        /\ UNCHANGED bytes_read
  /\ early' = (early \/ pc' = "pass")
  /\ UNCHANGED <<vars, log_data, stdout, stderr, stdin, todo, failed>>

\* What was put behind the block of url may have been put over something in
\* use.  Then the tool may do anything, which is not followed any further.
Breaks ==
  /\ pc \in {"read", "execute"}
  /\ overrun
  /\ pc' = "overrun"
  /\ UNCHANGED <<vars, rc, log_data, stdout, stderr, stdin, bytes_read, todo,
                 failed, early>>

Done == pc \in {"exit", "overrun"} /\ UNCHANGED logVars

Main == ReadMessages \/ ReadFails \/ ReadEof \/ Pass \/ Parse \/ Returns

LogNext == Main \/ Breaks \/ Done

Spec == LogInit /\ [][LogNext]_logVars

\* The tool runs, and its input ends.
FairSpec == Spec /\ WF_logVars(Main)

-----------------------------------------------------------------------------
\* The url is what the block holds and, when its terminator is the one byte
\* that was put behind it, not more.
StaysInBlock ==
  /\ Len(url) < URL_MAX \/ (Len(url) = URL_MAX /\ overrun)
  /\ pc = "overrun" => overrun

TypeOK ==
  /\ pc \in {"read", "pass", "execute", "exit", "overrun"}
  /\ executing => pc \in {"execute", "overrun"}
  /\ rc \in {"EX_OK", "EX_IOERR"}
  /\ ParserTypeOK
  /\ input.wire \in Text /\ wire \in Text /\ stdout \in Text
  /\ volume \in Volumes
  /\ bytes_read \in Nat
  /\ Len(data) <= bytes_read /\ bytes_read <= Len(buffer)
  /\ buffer \in Text /\ Len(buffer) <= BUFFER_MAX
  /\ headers \in Text /\ Len(headers) < BUFFER_MAX
  /\ url \in Text /\ overrun \in BOOLEAN
  /\ StaysInBlock
  /\ stderr \in Seq([line : Text, fields : Text])
  /\ \A i \in DOMAIN stderr : Len(stderr[i].line) < STRING_MAX

\* The parser delivers what the tools rely on, however the input is cut into
\* reads: each text of each message once, in order, whole or in pieces.
DeliversCallbacks == INSTANCE CallbackStream WITH
                       Streams <- {i.calls : i \in Inputs}
DeliversInOrder == DeliversCallbacks!Spec

\* A request to upgrade that has a body: the tool stops when a read ends
\* within that body.
AsksUpgrade(m) ==
  /\ m.body # <<>>
  /\ \E f, g \in ToSet(m.fields) :
       /\ f.name = <<"up", "grade">>
       /\ g.name = <<"conn", "ection">> /\ "grade" \in ToSet(g.value)

\* A normal end: the input was read to its end, and no upgrade stopped it.
Ends == /\ pc = "exit"
        /\ ~failed
        /\ parser.upgrade => \A m \in ToSet(input.messages) : ~AsksUpgrade(m)

\* The verdict does not depend on where the reads end: EX_IOERR for every
\* malformed input; EX_OK for every complete one, of which every callback was
\* made, and the parser is ready for the next message.  Nothing is said of an
\* input that is cut off.  The tool returns EX_OK for one, though it is to be
\* "0 if all OK, otherwise non-zero on parsing or other error" (log.c, above
\* main): what the parser answers to the end of the input is not looked at.
Verdict ==
  Ends => /\ input.kind = "malformed" => rc = "EX_IOERR"
          /\ input.kind = "complete" =>
               /\ rc = "EX_OK"
               /\ todo = <<>>
               /\ parser = Initialised \/ parser.state = "s_start_req_or_res"

\* "We always echo to stdout directly what we've read" (log.c): as long as
\* the parser takes all it is given, stdout is what was read, whole at the
\* end.
CopiesInput ==
  ~early => /\ IsPrefix(stdout, input.wire)
            /\ pc = "exit" /\ ~failed /\ ~parser.upgrade /\ rc = "EX_OK" =>
                 stdout = input.wire

\* The same without the condition: "log does not corrupt concatentated http
\* messages" (src/system-tests/log.t).
NeverCorrupts == IsPrefix(stdout, input.wire)

\* One line for each message that is complete, in their order, with its own
\* method or status.  Its URL is the end of its own, or, for a response, of
\* the last request's, as the code has it: a read that ends within a URL, and
\* a URL of an earlier message, show here and are not denied.  Only a URL of
\* URL_MAX bytes or more has something put behind its block.
Completed == Len(input.messages)
  - Len(SelectSeq(todo, LAMBDA c : c.cb = "message_complete"))

UrlFor(i) ==
  LET requests == {j \in 1 .. i : input.messages[j].type = "request"}
  IN  IF requests = {} THEN <<>> ELSE input.messages[Max(requests)].url

LineFor(i, u) ==
  LET shown == IF u = <<>> THEN <<"unknown">> ELSE Cut(u, URL_MAX)
      m == input.messages[i]
  IN  IF m.type = "request" THEN RequestShown(m.method, shown, m.version)
      ELSE ResponseShown(m.version, m.status, shown)

LogsEachMessage ==
  volume > 0 /\ (todo = <<>> \/ Head(todo).cb # "unexpected") =>
    /\ Len(stderr) = Completed
    /\ \A i \in DOMAIN stderr :
         \E u \in Suffixes(UrlFor(i)) : stderr[i].line = LineFor(i, u)
    /\ overrun => \E m \in ToSet(input.messages) :
                    m.type = "request" /\ Len(m.url) >= URL_MAX

\* What log.c puts around the names and values, and the rest.
FieldSeparators == {"\t", ": ", "\r\n"}
Plain(text) == FlattenSeq([i \in DOMAIN text |->
                 IF text[i] \in FieldSeparators THEN <<>> ELSE <<text[i]>>])

FieldsOf(m) == FlattenSeq([i \in DOMAIN (m.fields \o m.trailers) |->
                 (m.fields \o m.trailers)[i].name \o (m.fields \o m.trailers)[i].value])

\* What a copy in headers keeps of texts: all of them if they fit.
Keeps(copy, texts) ==
  /\ IsPrefix(Plain(copy), texts)
  /\ Len(copy) < BUFFER_MAX - 1 => Plain(copy) = texts

\* With -v the fields logged with a message are its own, all of them if they
\* fit, whatever the reads cut them into.  The tabs, colons and line ends are
\* not compared: log.c puts them around each piece of a text that is cut.
LogsOwnFields ==
  volume > 1 =>
    \A i \in DOMAIN stderr :
      Keeps(stderr[i].fields, FieldsOf(input.messages[i]))

\* However the input is cut and wherever it ends, the tool ends: no two
\* cases of the parser hand a byte to each other for ever, and a call that
\* takes nothing is an error.
Terminates == <>(pc \in {"exit", "overrun"})

-----------------------------------------------------------------------------
(***************************************************************************)
(* The inductive invariants of the tool, on top of the parser's.           *)
(***************************************************************************)
\* Every byte read is on stdout or in the buffer that is about to be, as
\* long as no buffer is passed on twice.
Unpassed == IF pc = "pass" THEN buffer ELSE <<>>

NothingLost ==
  ~early => /\ stdout \o Unpassed \o wire = input.wire
            /\ pc = "pass" => bytes_read = Len(buffer)
            /\ pc = "exit" /\ ~failed /\ ~parser.upgrade /\ rc = "EX_OK" =>
                 wire = <<>>

\* Between two reads nothing is left to be parsed.
ReadWhenParsed == pc = "read" => data = <<>>

ToolInv == TypeOK /\ ParserInv /\ ReadWhenParsed

-----------------------------------------------------------------------------
(***************************************************************************)
(* The inductive invariant of the fields.  It rests on the callbacks that  *)
(* an input is listed with: from the first to the last of a message, those *)
(* of its fields have the texts of its fields.                             *)
(***************************************************************************)
FieldText(calling) ==
  IF calling.cb \in {"header_field", "header_value"} THEN calling.at ELSE <<>>
FieldTexts(calls) == FlattenSeq([i \in DOMAIN calls |-> FieldText(calls[i])])

EndsMessage(calling) == calling.cb = "message_complete"
Ended(calls, n) == Cardinality({i \in 1 .. n : EndsMessage(calls[i])})

\* The first callback of a message, and none of the n after it are behind it.
Begins(calls, first, n) ==
  /\ first > 1 => EndsMessage(calls[first - 1])
  /\ \A i \in first .. n : ~EndsMessage(calls[i])

ListsFields(i) ==
  /\ i.calls \in Seq(CallbacksWithText)
  /\ \A k \in DOMAIN i.calls :
       /\ i.calls[k].cb \notin Data => i.calls[k].at = <<>>
       /\ ToSet(FieldText(i.calls[k])) \cap FieldSeparators = {}
  /\ \A last \in DOMAIN i.calls : \A first \in 1 .. last :
       EndsMessage(i.calls[last]) /\ Begins(i.calls, first, last - 1) =>
         FieldTexts(SubSeq(i.calls, first, last))
           = FieldsOf(i.messages[Ended(i.calls, last)])

ASSUME CallsAssumption == \A i \in Inputs : ListsFields(i)

\* The callback at p is due, but for the text that was given of it.
Due(p, given) ==
  IF p > Len(input.calls) THEN todo = <<>> /\ given = <<>>
  ELSE /\ todo # <<>>
       /\ todo[1].cb = input.calls[p].cb
       /\ given \o todo[1].at = input.calls[p].at
       /\ Tail(todo) = SubSeq(input.calls, p + 1, Len(input.calls))

\* The places of the text that a callback can have been given.
Givens(p) == IF p > Len(input.calls) THEN {<<>>} ELSE Prefixes(input.calls[p].at)

\* The text of a field that was given of the callback at p.
GivenText(p, given) ==
  IF given = <<>> THEN <<>> ELSE FieldText(Callback(input.calls[p].cb, given))

\* The callbacks from first on are those of a message that is not complete,
\* and headers is what they were given of its fields.
FieldsAt(p, first, given) ==
  /\ Due(p, given)
  /\ Begins(input.calls, first, p - 1)
  /\ Len(stderr) = Ended(input.calls, p - 1)
  /\ Keeps(headers, FieldTexts(SubSeq(input.calls, first, p - 1)) \o GivenText(p, given))

FieldsInv ==
  /\ input \in Inputs
  /\ todo \in Seq(CallbacksWithText)
  /\ volume > 1 =>
       /\ LogsOwnFields
       /\ \E p \in 1 .. Len(input.calls) + 1 :
            \E first \in 1 .. p : \E given \in Givens(p) : FieldsAt(p, first, given)
=============================================================================
