------------------------------ MODULE BodyTool ------------------------------
(***************************************************************************)
(* body.c: pipes the body of every HTTP message, or of those with a        *)
(* Content-Type that matches, through a command and corrects the           *)
(* Content-Length.  The head is held back until the command has printed    *)
(* the new body: the tool sends the command end of file, reads all of its  *)
(* output, writes the message and opens the pipes again.                   *)
(*                                                                         *)
(* The pipe handle is Pipes, whose actions the tool's steps take part in.  *)
(* Added to it here are the bytes in the two pipes, which are bounded: the *)
(* writer of a full pipe waits.  The command is any filter that reads and  *)
(* prints at its own pace and makes GROWTH atoms of each it reads.         *)
(***************************************************************************)
EXTENDS Integers, Sequences, SequencesExt, Callbacks

CONSTANTS
  MaxFd, MaxOpens, ForkMayFail, DrainsBeforeClose,  \* those of Pipes
  Inputs,         \* the sequences of messages read(2) may get
  WholeTexts,     \* no text crosses the end of a read
  MayBreakOff,    \* whether reads may fail, or the input end, anywhere
  MayLogAtStart,  \* whether ULOG_LEVEL may let main's first message through
  MayQuit,        \* whether the command may exit before the end of its input
  Matching,       \* the texts fnmatch finds to match it
  GROWTH,         \* what the command makes of an atom
  IN_CAPACITY,    \* how much the pipe to the command holds
  OUT_CAPACITY,   \* how much the pipe back holds
  URL_MAX,        \* size of the copy of the URL
  LINE_MAX,       \* size of the block the start line is put in
  BUFFER_MAX      \* what snprintf is told that size is

ASSUME FdAssumption == MaxFd \in Nat /\ MaxFd > 2
ASSUME OpensAssumption == MaxOpens \in Nat
ASSUME ClientAssumption ==
  ForkMayFail \in BOOLEAN /\ DrainsBeforeClose \in BOOLEAN
ASSUME InputAssumption ==
  Inputs \subseteq [pattern : BOOLEAN, messages : Seq(Messages)]
ASSUME SwitchAssumption ==
  /\ WholeTexts \in BOOLEAN /\ MayBreakOff \in BOOLEAN
  /\ MayLogAtStart \in BOOLEAN /\ MayQuit \in BOOLEAN
\* What the tool adds to the texts is text (tlapm does not see this itself).
ASSUME LiteralAssumption ==
  {"Content", "-Length", "-Type", "X-Mumpsimus-Original-", ": ", "\r\n",
   "blank line", "start "} \subseteq STRING
\* A start line without a target fits its block.
ASSUME SizeAssumption ==
  URL_MAX \in Nat \ {0} /\ LINE_MAX \in Nat \ (0 .. 2) /\ BUFFER_MAX \in Nat \ (0 .. 1)
ASSUME CommandAssumption ==
  /\ Matching \subseteq Text
  /\ GROWTH \in Nat
  /\ IN_CAPACITY \in Nat \ {0} /\ OUT_CAPACITY \in Nat \ {0}

VARIABLES
  state, child_pid, pipe_fds, bipipe_fds, call, old_state, eof_read,
  fds, proc, proc_state, cfds, opens, failed, widowed

Ph == INSTANCE Pipes
Drained == INSTANCE Pipes WITH DrainsBeforeClose <- TRUE

VARIABLES
  pc,           \* where the tool is
  rc,           \* the exit code so far
  input,        \* history: the messages of this run, and whether there is
                \* a type pattern (-t)
  mishaps,      \* history: what went wrong that the tool does not see
  todo,         \* the callbacks that are still to come
  content_length_at, last_field_was_content_type, do_pipe_this_message,
  url, status_line,
  headers,      \* what bstate->headers holds
  body,         \* what bstate->body holds
  unwritten,    \* what write_all in cb_body has not written yet
  in_pipe,      \* the bytes in the pipe to the command
  taken,        \* what the command has still to print
  out_pipe,     \* the bytes in the pipe back
  stdout        \* what the tool wrote to stdout

pipes == <<state, child_pid, pipe_fds, bipipe_fds, call, old_state, eof_read,
           fds, proc, proc_state, cfds, opens, failed, widowed>>
flags == <<content_length_at, last_field_was_content_type,
           do_pipe_this_message>>
parsed == <<flags, url, status_line, headers>>
bytes == <<in_pipe, taken, out_pipe>>
history == <<input, mishaps>>
vars == <<pipes, pc, rc, history, todo, parsed, body, unwritten, bytes, stdout>>

-----------------------------------------------------------------------------
\* An atom on stdout is paired with where it comes from: the input ("tool"),
\* the command, or the length the tool computes.
By(who, text) == [i \in DOMAIN text |-> <<who, text[i]>>]

Filter(text) == FlattenSeq([i \in DOMAIN text |->
                  [k \in 1 .. GROWTH |-> <<"command", text[i]>>]])

ContentLength == <<"Content", "-Length">>
ContentType == <<"Content", "-Type">>
Original == <<"X-Mumpsimus-Original-">>
Colon == <<": ">>
Crlf == <<"\r\n">>
Blank == <<"blank line">>

AtMost(n, room) == IF n < room THEN n ELSE room
From(text, n) == SubSeq(text, n, Len(text))
Cut(text, n) == SubSeq(text, 1, AtMost(Len(text), n))

\* snprintf, which would stop at BUFFER_MAX bytes.
StartLineUncut(target) == <<"start ">> \o target \o Crlf
StartLine(target) == Cut(StartLineUncut(target), BUFFER_MAX - 1)

HasPattern == input.pattern

\* strncasecmp of the first MIN(length, n) bytes.
Resembles(name, at) == IsPrefix(name, at) \/ IsPrefix(at, name)

\* A message that every mask lets through: syslog's socket is open after it,
\* if there is a descriptor for it.
Logs == IF Ph!Holds(fds, Ph!Log) \/ ~Ph!Holds(fds, Ph!Free)
        THEN UNCHANGED pipes ELSE Ph!LogConnect

CommandReads == Ph!Held(Ph!End("in", proc, "r"))
ToolReads == Ph!Held(Ph!End("out", proc, "r"))

-----------------------------------------------------------------------------
\* body_state_new.
Init ==
  /\ Ph!Init
  /\ pc = "start"
  /\ rc = "EX_OK"
  /\ input \in Inputs
  /\ mishaps = {}
  /\ todo = Stream(input.messages)
  /\ content_length_at = -1
  /\ last_field_was_content_type = FALSE
  /\ do_pipe_this_message = TRUE
  /\ url = <<>> /\ status_line = <<>>
  /\ headers = <<>> /\ body = <<>>
  /\ unwritten = <<>>
  /\ in_pipe = <<>> /\ taken = <<>> /\ out_pipe = <<>>
  /\ stdout = <<>>

UlogInit ==
  /\ pc = "start"
  /\ pc' = "open"
  /\ (MayLogAtStart /\ Ph!LogConnect) \/ UNCHANGED pipes
  /\ UNCHANGED <<rc, history, todo, parsed, body, unwritten, bytes, stdout>>

Open ==
  /\ pc = "open"
  /\ Ph!PipeOpen2
  /\ IF state' = "PIPES_OPEN_BI" THEN pc' = "parse" /\ UNCHANGED rc
                                 ELSE pc' = "exit" /\ rc' = "-1"
  /\ UNCHANGED <<history, todo, parsed, body, unwritten, bytes, stdout>>

-----------------------------------------------------------------------------
\* http_parser_execute makes the callback cb with the text at.
Calls(cb, at) ==
  /\ pc = "parse"
  /\ todo # <<>>
  /\ Head(todo).cb = cb
  /\ at \in Pieces(todo, WholeTexts)
  /\ todo' \in Remaining(todo, at, WholeTexts)
  /\ UNCHANGED <<rc, input>>

\* What of a text strncpy copies to bstate->url.  The last byte of that block
\* is never anything but 0.
KeptOfUrl(at) == Cut(at, URL_MAX - 1)

\* Where the terminator is put behind it.
UrlEnd(at) == IF Len(at) < URL_MAX THEN Len(at) ELSE URL_MAX - 1
StatusEnd(at) == IF Len(at) < URL_MAX THEN Len(at) ELSE URL_MAX

\* The byte at end is the last that is written in a block of this size.
PutsEnd(end, size) ==
  mishaps' = IF end < size THEN mishaps ELSE mishaps \union {"overrun"}

\* A long URL is cut, which is logged at a level that is always let through.
CbUrl(at) ==
  /\ Calls("url", at)
  /\ url' = KeptOfUrl(at)
  /\ PutsEnd(UrlEnd(at), URL_MAX)
  /\ IF Len(at) >= URL_MAX THEN Logs ELSE UNCHANGED pipes
  /\ UNCHANGED <<pc, flags, status_line, headers, body, unwritten, bytes, stdout>>

CbStatusComplete(at) ==
  /\ Calls("status", at)
  /\ content_length_at' = -1
  /\ headers' = <<>>
  /\ url' = KeptOfUrl(at)
  /\ PutsEnd(StatusEnd(at), URL_MAX)
  /\ UNCHANGED <<pipes, pc, last_field_was_content_type, do_pipe_this_message,
                 status_line, body, unwritten, bytes, stdout>>

PositionAfterName(at) == Len(headers) + Len(at)
Position(at) == Len(headers)

CbHeaderField(at) ==
  /\ Calls("header_field", at)
  /\ IF Resembles(ContentLength, at)
     THEN /\ content_length_at' = Position(at)
          /\ last_field_was_content_type' = FALSE
     ELSE /\ last_field_was_content_type' = Resembles(ContentType, at)
          /\ UNCHANGED content_length_at
  /\ headers' = headers \o at \o Colon
  /\ UNCHANGED <<pipes, pc, mishaps, do_pipe_this_message, url, status_line, body,
                 unwritten, bytes, stdout>>

CbHeaderValue(at) ==
  /\ Calls("header_value", at)
  /\ headers' = headers \o at \o Crlf
  /\ do_pipe_this_message' =
       IF last_field_was_content_type /\ HasPattern THEN at \in Matching
                                                    ELSE do_pipe_this_message
  /\ UNCHANGED <<pipes, pc, mishaps, content_length_at, last_field_was_content_type,
                 url, status_line, body, unwritten, bytes, stdout>>

CbHeadersComplete ==
  /\ Calls("headers_complete", <<>>)
  /\ status_line' = StartLine(url)
  /\ PutsEnd(Len(status_line'), LINE_MAX)
  /\ headers' = headers \o Blank
  /\ UNCHANGED <<pipes, pc, flags, url, body, unwritten, bytes, stdout>>

-----------------------------------------------------------------------------
\* pipe_write_fileno asserts that the pipe is open.
CbBodyPiped(at) ==
  /\ Calls("body", at)
  /\ do_pipe_this_message
  /\ IF state \in {"PIPES_OPEN_UNI", "PIPES_OPEN_BI"}
     THEN pc' = "write" /\ unwritten' = at
     ELSE pc' = "aborted" /\ UNCHANGED unwritten
  /\ UNCHANGED <<pipes, mishaps, parsed, body, bytes, stdout>>

\* The first piece of a body that is not piped has the head go before it.
CbBodyCopied(at) ==
  /\ Calls("body", at)
  /\ ~do_pipe_this_message
  /\ stdout' = stdout \o By("tool", (IF headers = <<>> THEN <<>>
                                     ELSE status_line \o headers) \o at)
  /\ headers' = <<>>
  /\ UNCHANGED <<pipes, pc, mishaps, flags, url, status_line, body, unwritten, bytes>>

\* The write_all of cb_body writes what the pipe has room for and waits when
\* there is none.  With nobody left to read, SIGPIPE kills the tool.
WriteAll ==
  /\ pc = "write"
  /\ \/ /\ CommandReads
        /\ Len(in_pipe) < IN_CAPACITY
        /\ LET n == AtMost(Len(unwritten), IN_CAPACITY - Len(in_pipe)) IN
           /\ in_pipe' = in_pipe \o SubSeq(unwritten, 1, n)
           /\ unwritten' = From(unwritten, n + 1)
           /\ pc' = IF unwritten' = <<>> THEN "parse" ELSE "write"
     \/ ~CommandReads /\ pc' = "killed" /\ UNCHANGED <<in_pipe, unwritten>>
  /\ UNCHANGED <<pipes, rc, history, todo, parsed, body, taken, out_pipe, stdout>>

\* cb_message_complete of a message that is not piped.
CbMessageCompleteCopied ==
  /\ Calls("message_complete", <<>>)
  /\ ~do_pipe_this_message
  /\ content_length_at' = -1
  /\ UNCHANGED <<pipes, pc, mishaps, last_field_was_content_type,
                 do_pipe_this_message, url, status_line, headers, body, unwritten, bytes, stdout>>

\* cb_message_complete of one that is: pipe_send_eof, which asserts that
\* both pipes are open, ...
CbMessageCompletePiped ==
  /\ Calls("message_complete", <<>>)
  /\ do_pipe_this_message
  /\ IF state = "PIPES_OPEN_BI" THEN pc' = "drain" /\ Ph!PipeSendEof
                                ELSE pc' = "aborted" /\ UNCHANGED pipes
  /\ UNCHANGED <<mishaps, parsed, body, unwritten, bytes, stdout>>

\* ... the loop that reads the command's output, ...
DrainRead ==
  /\ pc = "drain"
  /\ out_pipe # <<>>
  /\ body' = body \o out_pipe
  /\ out_pipe' = <<>>
  /\ IF proc_state = "blocked" THEN Ph!ReadData ELSE UNCHANGED pipes
  /\ UNCHANGED <<pc, rc, history, todo, parsed, unwritten, in_pipe, taken, stdout>>

DrainEndOnceEmpty ==
  /\ pc = "drain"
  /\ out_pipe = <<>>
  /\ body # <<>>
  /\ pc' = "flush"
  /\ UNCHANGED <<pipes, rc, history, todo, parsed, body, unwritten, bytes, stdout>>

DrainEnd ==
  /\ pc = "drain"
  /\ out_pipe = <<>>
  /\ Ph!ReadEof
  /\ pc' = "flush"
  /\ UNCHANGED <<rc, history, todo, parsed, body, unwritten, bytes, stdout>>

\* The loop ends as well when read fails, which is logged.
DrainFails ==
  /\ pc = "drain"
  /\ MayBreakOff
  /\ pc' = "flush"
  /\ mishaps' = mishaps \union {"drain failed"}
  /\ Logs
  /\ UNCHANGED <<rc, input, todo, parsed, body, unwritten, bytes, stdout>>

\* ... and the message, with the new length put before the old one.
NewLengthOfInput == <<<<"length", Len(headers)>>>>
NewLength == <<<<"length", Len(body)>>>>

\* The head can be shorter than the position when it was written before
\* the message turned out, in its trailing fields, to match.
NewHeaders ==
  IF content_length_at >= 0
  THEN LET at == AtMost(content_length_at, Len(headers)) IN
       By("tool", SubSeq(headers, 1, at) \o ContentLength \o Colon)
         \o NewLength
         \o By("tool", Crlf \o Original \o From(headers, at + 1))
  ELSE By("tool", headers)

FlushOnlyBodies ==
  /\ pc = "flush"
  /\ stdout' = IF body = <<>> THEN stdout
               ELSE stdout \o By("tool", status_line) \o NewHeaders \o body
  /\ headers' = <<>>
  /\ body' = <<>>
  /\ pc' = "reset"
  /\ Ph!PipeReset
  /\ UNCHANGED <<rc, history, todo, flags, url, status_line, unwritten, bytes>>

\* pipe_reset closes the pipes behind it.
Flush ==
  /\ pc = "flush"
  /\ stdout' = stdout \o By("tool", status_line) \o NewHeaders \o body
  /\ headers' = <<>>
  /\ body' = <<>>
  /\ pc' = "reset"
  /\ Ph!PipeReset
  /\ UNCHANGED <<rc, history, todo, flags, url, status_line, unwritten, bytes>>

\* waitpid and pipe_open2 within pipe_reset and pipe_handle_delete.  What a
\* drain that failed left in the pipe back is lost: the next pipe is a new one.
WaitsOrReopens ==
  /\ Ph!Waitpid \/ (call = "reopen_bi" /\ Ph!PipeOpen2)
  /\ out_pipe' = <<>>
  /\ UNCHANGED <<pc, rc, history, todo, parsed, body, unwritten, in_pipe, taken,
                 stdout>>

ResetReturnsKeepsPosition ==
  /\ pc = "reset"
  /\ call = "none"
  /\ pc' = "parse"
  /\ UNCHANGED <<pipes, rc, history, todo, parsed, body, unwritten, bytes, stdout>>

\* What pipe_reset returns is ignored.
ResetReturns ==
  /\ pc = "reset"
  /\ call = "none"
  /\ pc' = "parse"
  /\ content_length_at' = -1
  /\ IF state = "PIPES_OPEN_BI" THEN UNCHANGED pipes ELSE Logs
  /\ UNCHANGED <<rc, history, todo, last_field_was_content_type,
                 do_pipe_this_message, url, status_line, headers, body,
                 unwritten, bytes, stdout>>

-----------------------------------------------------------------------------
\* read returned 0.  The parser reports an error within a message, but the
\* tool looks for one only after a read that got something.
Eof ==
  /\ pc = "parse"
  /\ todo = <<>> \/ MayBreakOff
  /\ pc' = "delete"
  /\ UNCHANGED <<pipes, rc, history, todo, parsed, body, unwritten, bytes, stdout>>

\* read fails, or the parser reports an error or an upgrade.
InputFails ==
  /\ pc = "parse"
  /\ MayBreakOff
  /\ pc' = "delete"
  /\ rc' = "EX_IOERR"
  /\ Logs
  /\ UNCHANGED <<history, todo, parsed, body, unwritten, bytes, stdout>>

\* body_state_delete, of which pipe_handle_delete may close the pipes.
DeleteSkipsHandle ==
  /\ pc = "delete"
  /\ pc' = "exit"
  /\ UNCHANGED <<pipes, rc, history, todo, parsed, body, unwritten, bytes, stdout>>

Delete ==
  /\ pc = "delete"
  /\ \/ Ph!PipeHandleDelete /\ UNCHANGED pc
     \/ call = "freed" /\ pc' = "exit" /\ UNCHANGED pipes
  /\ UNCHANGED <<rc, history, todo, parsed, body, unwritten, bytes, stdout>>

\* What was put behind a block may have been put over something in use.  Then
\* the tool may do anything, which is not followed any further.
Breaks ==
  /\ pc \in {"parse", "drain", "flush"}
  /\ "overrun" \in mishaps
  /\ pc' = "overrun"
  /\ UNCHANGED <<pipes, rc, history, todo, parsed, body, unwritten, bytes, stdout>>

-----------------------------------------------------------------------------
\* The command, a filter.
rest == <<pc, rc, history, todo, parsed, body, unwritten, stdout>>

CommandSetUp == Ph!ChildSetUp /\ UNCHANGED <<rest, bytes>>

CommandTakes ==
  /\ proc_state = "running"
  /\ in_pipe # <<>>
  /\ taken' = taken \o Filter(in_pipe)
  /\ in_pipe' = <<>>
  /\ UNCHANGED <<pipes, rest, out_pipe>>

CommandPrints ==
  /\ proc_state = "running"
  /\ ToolReads
  /\ \E n \in 1 .. AtMost(Len(taken), OUT_CAPACITY - Len(out_pipe)) :
       /\ out_pipe' = out_pipe \o SubSeq(taken, 1, n)
       /\ taken' = From(taken, n + 1)
  /\ UNCHANGED <<pipes, rest, in_pipe>>

CommandBlocks ==
  /\ taken # <<>>
  /\ Len(out_pipe) = OUT_CAPACITY
  /\ Ph!ChildBlocks
  /\ UNCHANGED <<rest, bytes>>

CommandEnds ==
  /\ in_pipe = <<>> /\ taken = <<>>
  /\ Ph!ChildExitsOnEof
  /\ UNCHANGED <<rest, bytes>>

\* Killed by SIGPIPE when it prints to a pipe the tool has closed.
CommandKilled ==
  /\ taken # <<>>
  /\ ~ToolReads
  /\ Ph!ChildKilled \/ Ph!ChildExitsEarly
  /\ in_pipe' = <<>> /\ taken' = <<>>
  /\ UNCHANGED <<rest, out_pipe>>

CommandQuits ==
  /\ MayQuit
  /\ Ph!ChildExitsEarly \/ Ph!ChildAborts
  /\ in_pipe' = <<>> /\ taken' = <<>>
  /\ mishaps' = mishaps \union {"quit"}
  /\ UNCHANGED <<pc, rc, input, todo, parsed, body, unwritten, stdout, out_pipe>>

Final == pc \in {"exit", "aborted", "killed", "overrun"}

\* The tool waits for a command that waits for the tool: both write to a full
\* pipe, ...
BothWrite == pc = "write" /\ Len(in_pipe) = IN_CAPACITY /\ proc_state = "blocked"

\* ... or the drain failed and the tool is in waitpid, for pipe_close leaves
\* the pipe back open after an end of file was sent.
WaitsUndrained == pc = "reset" /\ "drain failed" \in mishaps /\ proc_state = "blocked"

HeldUp == BothWrite \/ WaitsUndrained

Done == (Final \/ HeldUp) /\ UNCHANGED vars

-----------------------------------------------------------------------------
\* The texts a callback can come with.
Texts == IF todo = <<>> THEN {} ELSE Pieces(todo, WholeTexts)

Tool ==
  \/ UlogInit \/ Open
  \/ \E at \in Texts : \/ CbUrl(at) \/ CbStatusComplete(at)
                       \/ CbHeaderField(at) \/ CbHeaderValue(at)
                       \/ CbBodyPiped(at) \/ CbBodyCopied(at)
  \/ CbHeadersComplete \/ WriteAll
  \/ CbMessageCompleteCopied \/ CbMessageCompletePiped
  \/ DrainRead \/ DrainEnd \/ Flush \/ ResetReturns
  \/ Eof \/ InputFails \/ Delete
  \/ WaitsOrReopens

Command == CommandSetUp \/ CommandTakes \/ CommandPrints \/ CommandBlocks
             \/ CommandEnds \/ CommandKilled

Next == Tool \/ DrainFails \/ Breaks \/ Command \/ CommandQuits \/ Done

Spec == Init /\ [][Next]_vars

\* The kernel runs both processes, and the filter goes on to the end of its
\* input.  Input to the tool ends.
FairSpec == Spec /\ WF_vars(Tool) /\ WF_vars(Command)

-----------------------------------------------------------------------------
Sources == {"tool", "command"}
Written == (Sources \X STRING) \union ({"length"} \X Nat)

\* No position in the head of an earlier message is left behind.
PositionIsOfThisHead ==
  do_pipe_this_message /\ headers = <<>> /\ pc # "reset" => content_length_at = -1

\* No text makes the tool write behind the blocks of the URL and of the start
\* line but a reason phrase of URL_MAX bytes or more, or one or a URL that,
\* cut to URL_MAX, makes a start line of LINE_MAX or more.
IsStartText(calling) == calling.cb \in {"url", "status"}
LongText ==
  \E due \in ToSet(Stream(input.messages)) :
    \/ due.cb = "status" /\ Len(due.at) >= URL_MAX
    \/ IsStartText(due) /\ Len(StartLine(KeptOfUrl(due.at))) >= LINE_MAX
StaysInBlocks ==
  /\ "overrun" \in mishaps => LongText
  /\ Len(url) < URL_MAX
  /\ Len(status_line) < LINE_MAX \/ "overrun" \in mishaps
  /\ pc = "overrun" => "overrun" \in mishaps

TypeOK ==
  /\ Ph!TypeOK
  /\ pc \in {"start", "open", "parse", "write", "drain", "flush", "reset",
             "delete", "exit", "aborted", "killed", "overrun"}
  /\ rc \in {"EX_OK", "EX_IOERR", "-1"}
  /\ input \in Inputs /\ mishaps \subseteq {"quit", "drain failed", "overrun"}
  /\ todo \in Seq(CallbacksWithText)
  /\ content_length_at \in Nat \union {-1}
  /\ PositionIsOfThisHead
  /\ StaysInBlocks
  /\ last_field_was_content_type \in BOOLEAN
  /\ do_pipe_this_message \in BOOLEAN
  /\ url \in Text /\ status_line \in Text /\ headers \in Text
  /\ unwritten \in Text /\ in_pipe \in Text
  /\ body \in Seq(Sources \X STRING)
  /\ taken \in Seq(Sources \X STRING)
  /\ out_pipe \in Seq(Sources \X STRING)
  /\ Len(in_pipe) <= IN_CAPACITY /\ Len(out_pipe) <= OUT_CAPACITY
  /\ stdout \in Seq(Written)

\* The handle the tool works with is one of Pipes, used in an order Pipes
\* allows, also the stricter one: having sent end of file it reads to end of
\* file before it closes, unless that read fails.
UsesPipes ==
  /\ Drained!Init
  /\ [][IF "drain failed" \in mishaps THEN Ph!Next ELSE Drained!Next]_pipes

-----------------------------------------------------------------------------
\* What the tool is for.  A message is piped when there is no pattern or its
\* Content-Type matches.
Piped(message) ==
  HasPattern => \E i \in DOMAIN message.fields :
                  /\ message.fields[i].name = ContentType
                  /\ message.fields[i].value \in Matching

FieldOut(field, length) ==
  IF field.name = ContentLength /\ length >= 0
  THEN By("tool", field.name \o Colon) \o <<<<"length", length>>>>
         \o By("tool", Crlf \o Original \o field.name \o Colon
                         \o field.value \o Crlf)
  ELSE By("tool", field.name \o Colon \o field.value \o Crlf)

FieldsOut(fields, length) ==
  FlattenSeq([i \in DOMAIN fields |-> FieldOut(fields[i], length)])

HeadOut(message, length) ==
  By("tool", StartLineUncut(message.url)) \o FieldsOut(message.fields, length)
    \o By("tool", Blank)

Out(message) ==
  LET whole == FlattenSeq(message.body) IN
  IF Piped(message)
  THEN HeadOut(message, Len(Filter(whole))) \o Filter(whole)
  ELSE HeadOut(message, -1) \o By("tool", whole)

Outs(messages) == FlattenSeq([i \in DOMAIN messages |-> Out(messages[i])])
Expected == Outs(input.messages)

\* The copy of the URL and the block of the start line are long enough; then
\* nothing is written behind them.
Fits(message) ==
  /\ Len(message.url) < URL_MAX
  /\ Len(StartLineUncut(message.url)) < AtMost(LINE_MAX, BUFFER_MAX)

\* The messages body.c is made for.  The callbacks compare a name as far as
\* it goes; there is one length and, when there is a pattern, one type, or
\* the message before decides (OnlyMatchingPiped); what is not piped has a
\* body, for its head goes with the first piece of it.
Regular(message) ==
  LET name(i) == message.fields[i].name IN
  /\ Fits(message)
  /\ \A i \in DOMAIN message.fields :
       \A known \in {ContentLength, ContentType} :
         /\ Resembles(known, name(i)) => name(i) = known
         /\ name(i) = known => \A k \in DOMAIN message.fields : name(k) = known => k = i
  /\ HasPattern => \E i \in DOMAIN message.fields : name(i) = ContentType
  /\ Piped(message) \/ message.body # <<>>

\* And none has trailing fields, which are appended to the head when it is
\* complete already and printed between the head and the body.
AllRegular ==
  /\ PlainMessages(input.messages)
  /\ \A i \in DOMAIN input.messages : Regular(input.messages[i])

\* stdout has the messages in order, piped ones with the command's body and
\* its length, others unchanged, whatever forks fail and wherever the input
\* ends, as long as the commands read to the end of theirs.
OutputInOrder ==
  AllRegular /\ mishaps = {} => IsPrefix(stdout, Expected)

\* An input that was read to its end has been printed completely when the
\* tool exits.  "Output the headers" (body.c, cb_message_complete).
ExitMeansPrinted ==
  AllRegular /\ mishaps = {} /\ pc = "exit" /\ rc = "EX_OK" /\ todo = <<>> =>
    stdout = Expected

\* Text within a line: the blank line is the line end that ends a head.
OneLine(text) == Blank[1] \notin ToSet(text)

\* Names and values are text within a line, and a message with trailing fields
\* has no name that body.c takes for the Content-Length, in its head or behind
\* it; as the first piece of a name may do, no read cuts one there.  Trailing
\* fields are printed between the head and the body.
LengthInHead(message) ==
  \A fields \in {message.fields, message.trailers} : \A k \in DOMAIN fields :
    /\ OneLine(fields[k].name) /\ OneLine(fields[k].value)
    /\ message.trailers # <<>> =>
         WholeTexts /\ ~Resembles(ContentLength, fields[k].name)
LengthsInHeads ==
  \A i \in DOMAIN input.messages : LengthInHead(input.messages[i])

\* The atoms on either side of what the tool prints of a message.
StartAtom == <<"tool", "start ">>
BlankAtom == <<"tool", Blank[1]>>

\* Behind the head of the length at i, which ends at blank, there is that much
\* of the command's output.
BodyBehind(out, i, blank) ==
  /\ out[blank] = BlankAtom
  /\ \A k \in i .. blank - 1 : out[k] # BlankAtom
  /\ blank + out[i][2] <= Len(out)
  /\ \A k \in blank + 1 .. blank + out[i][2] : out[k][1] = "command"

\* And what follows it is the next message.
AllRight(out) ==
  \A i \in DOMAIN out : out[i][1] = "length" =>
    \E blank \in i .. Len(out) :
      /\ BodyBehind(out, i, blank)
      /\ blank + out[i][2] < Len(out) => out[blank + out[i][2] + 1] = StartAtom

\* A length on stdout is the length of the body that follows its head, also
\* when the command quits and leaves a body incomplete.
LengthIsRight == LengthsInHeads => AllRight(stdout)

\* However it ends, the tool leaves no command behind when it returns.
LeavesNoCommand == pc = "exit" => proc = 0

\* The tool ends, whatever fails and quits, or breaks behind an overrun, but
\* for two cases, in which the command has more to print than the pipe holds
\* and the tool does not read: it is still writing a body, or the read that
\* drains the command has failed.
Terminates == <>Final \/ <>[]HeldUp

-----------------------------------------------------------------------------
\* "make sure the piped command doesn't block on write because its output
\* buffers are full" (body.c, above cb_body): the tool and the command do
\* not wait for each other, both in a write to a full pipe.
NeverStuck == ~BothWrite

\* "Only messages that match are sent to pipe_cmd" (body.c, above
\* pipe_http_messages).
OnlyMatchingPiped ==
  \A i \in DOMAIN stdout : stdout[i][1] = "command" =>
    \E m \in ToSet(input.messages) :
      Piped(m) /\ \E piece \in ToSet(m.body) : Contains(piece, stdout[i][2])

\* "assert((ph->state == PIPES_OPEN_UNI) || (ph->state == PIPES_OPEN_BI))"
\* (pipes.c, pipe_write_fileno) and its like never fail.
AssertionsHold == pc # "aborted"

-----------------------------------------------------------------------------
(***************************************************************************)
(* The inductive invariant.                                                *)
(***************************************************************************)
\* Which call of pipes.c the tool is in.  The handle is widowed from the end
\* of a message's body until it is open again.
Control ==
  /\ state \in {"PIPES_CLOSED", "PIPES_OPENING", "PIPES_OPEN_BI",
                "PIPES_WIDOWED"}
  /\ pc \in {"start", "open"} => call = "none" /\ state = "PIPES_CLOSED"
  /\ pc = "parse" => call = "none" /\ state # "PIPES_WIDOWED"
  /\ pc = "write" => call = "none" /\ state = "PIPES_OPEN_BI"
  /\ pc \in {"drain", "flush"} => call = "none" /\ state = "PIPES_WIDOWED"
  /\ pc = "reset" =>
       \/ call = "none" /\ state # "PIPES_WIDOWED"
       \/ call = "reopen_bi" /\ state = "PIPES_CLOSED"
       \/ /\ call = "pipe_reset"
          /\ state = "PIPES_WIDOWED" /\ old_state = "PIPES_WIDOWED"
  /\ pc = "delete" => \/ call = "none" /\ state # "PIPES_WIDOWED"
                      \/ call \in {"pipe_handle_delete", "freed"}
  /\ pc = "exit" => \/ call = "none" /\ state \in {"PIPES_CLOSED", "PIPES_OPENING"}
                    \/ call = "freed"
  /\ pc \in {"aborted", "killed", "overrun"} => call = "none"

\* What is still to come of the text of a start line, and what is kept of one,
\* is no longer than all of it.
TextsDue ==
  /\ \A k \in DOMAIN todo : IsStartText(todo[k]) =>
       \E due \in ToSet(Stream(input.messages)) :
         due.cb = todo[k].cb /\ Len(todo[k].at) <= Len(due.at)
  /\ url # <<>> => \E due \in ToSet(Stream(input.messages)) :
                     IsStartText(due) /\ Len(url) <= Len(due.at)

\* It closes what it sent end of file to only when it has read that far.
ReadToTheEnd == pc = "flush" /\ "drain failed" \notin mishaps => eof_read

-----------------------------------------------------------------------------
(***************************************************************************)
(* The inductive invariant of the order of the output.                     *)
(***************************************************************************)
\* A command that runs holds the pipe back open, so that the tool reads no end
\* of file before it has ended; one that is gone leaves nothing unread and
\* nothing it took unprinted; and the tool has written what it was given when
\* it takes the next callback.
CommandInv ==
  /\ proc_state \in {"running", "blocked"} => cfds[1] = Ph!End("out", proc, "w")
  /\ proc_state \in {"none", "zombie"} => in_pipe = <<>> /\ taken = <<>>
  /\ pc \notin {"write", "killed"} => unwritten = <<>>

Current(m) == input.messages[m + 1]
Fields(m) == Current(m).fields
Upto(s, j) == SubSeq(s, 1, j)

\* A head with its Content-Length at this position, printed with this length,
\* as NewHeaders does; printed as it is without one, when the message is not
\* piped.
Lengths == Nat \union {-1}
Marked(text, position, length) ==
  IF position >= 0 /\ length >= 0
  THEN LET at == AtMost(position, Len(text)) IN
       By("tool", SubSeq(text, 1, at) \o ContentLength \o Colon)
         \o <<<<"length", length>>>>
         \o By("tool", Crlf \o Original \o From(text, at + 1))
  ELSE By("tool", text)

\* What the command was given and has made of it, in the order it will be
\* read.
Coming == body \o out_pipe \o taken \o Filter(in_pipe \o unwritten)
NothingComes ==
  body = <<>> /\ out_pipe = <<>> /\ taken = <<>> /\ in_pipe = <<>> /\ unwritten = <<>>

\* The position is one in what is held of this head, after j fields.
PositionHere(m, j) ==
  content_length_at # -1 =>
    /\ content_length_at \in 0 .. Len(headers)
    /\ \E i \in 1 .. j : Fields(m)[i].name = ContentLength

\* Whether the message is piped is known once its type was read.
Decided(m, j) ==
  IF HasPattern
  THEN (\E i \in 1 .. j : Fields(m)[i].name = ContentType) =>
         do_pipe_this_message = Piped(Current(m))
  ELSE do_pipe_this_message

PrintedTo(m) == stdout \o Outs(Rest(input.messages, m)) = Expected

\* Where the tool is in the input: before a message, before a field, between
\* the name and the value of one, before a piece of a body that is piped or
\* copied, or behind a body, when the command has been sent all of it.
AtMessage(m) ==
  /\ todo = MessageCalls(input.messages, m)
  /\ PrintedTo(m) /\ NothingComes
  /\ headers = <<>>
  /\ pc # "reset" => content_length_at = -1
  /\ ~HasPattern => do_pipe_this_message

InHead(m, j) ==
  /\ todo = HeadCalls(input.messages, m, j)
  /\ PrintedTo(m) /\ NothingComes
  /\ url = Current(m).url
  /\ PositionHere(m, j) /\ Decided(m, j)
  /\ \A length \in Lengths :
       Marked(headers, content_length_at, length) = FieldsOut(Upto(Fields(m), j), length)

AtValue(m, j) ==
  LET field == Fields(m)[j + 1] IN
  /\ todo = ValueCalls(input.messages, m, j)
  /\ PrintedTo(m) /\ NothingComes
  /\ url = Current(m).url
  /\ PositionHere(m, j + 1) /\ Decided(m, j)
  /\ last_field_was_content_type = (field.name = ContentType)
  /\ \A length \in Lengths :
       Marked(headers, content_length_at, length) \o By("tool", field.value \o Crlf) =
         FieldsOut(Upto(Fields(m), j + 1), length)

\* The whole head is held.
HeadIsHeld(m) ==
  /\ do_pipe_this_message = Piped(Current(m))
  /\ headers # <<>>
  /\ \A length \in Lengths :
       By("tool", status_line) \o Marked(headers, content_length_at, length) =
         HeadOut(Current(m), length)

InPipedBody(m, j) ==
  /\ todo = BodyCalls(input.messages, m, j)
  /\ PrintedTo(m)
  /\ HeadIsHeld(m) /\ Piped(Current(m))
  /\ Coming \o Filter(FlattenSeq(Rest(Current(m).body, j))) =
       Filter(FlattenSeq(Current(m).body))

InCopiedBody(m, j) ==
  /\ todo = BodyCalls(input.messages, m, j)
  /\ NothingComes /\ ~Piped(Current(m))
  /\ IF j = 0 THEN PrintedTo(m) /\ HeadIsHeld(m)
     ELSE /\ headers = <<>> /\ ~do_pipe_this_message
          /\ stdout \o By("tool", FlattenSeq(Rest(Current(m).body, j)))
               \o Outs(Rest(input.messages, m + 1)) = Expected

Draining(m) ==
  /\ todo = MessageCalls(input.messages, m + 1)
  /\ PrintedTo(m)
  /\ HeadIsHeld(m) /\ Piped(Current(m))
  /\ Coming = Filter(FlattenSeq(Current(m).body))

Piping == \E m \in 0 .. Len(input.messages) - 1 :
            \E j \in 0 .. Len(Current(m).body) : InPipedBody(m, j)
Between == \E m \in 0 .. Len(input.messages) : AtMessage(m)
Copying == \E m \in 0 .. Len(input.messages) - 1 :
             \/ \E j \in 0 .. Len(Fields(m)) : InHead(m, j)
             \/ \E j \in 0 .. Len(Fields(m)) - 1 : AtValue(m, j)
             \/ \E j \in 0 .. Len(Current(m).body) : InCopiedBody(m, j)

OrderInv ==
  AllRegular /\ mishaps = {} =>
    /\ pc \in {"start", "open"} => Between
    /\ pc = "parse" => Between \/ Copying \/ Piping
    /\ pc = "write" => Piping
    /\ pc \in {"drain", "flush"} =>
         \E m \in 0 .. Len(input.messages) - 1 : Draining(m)
    /\ pc = "flush" => out_pipe = <<>> /\ taken = <<>> /\ in_pipe = <<>>
    /\ pc = "reset" => Between
    /\ pc \in {"delete", "exit"} /\ todo = <<>> => stdout = Expected
    /\ IsPrefix(stdout, Expected)
-----------------------------------------------------------------------------
(***************************************************************************)
(* The inductive invariant of the lengths.                                 *)
(***************************************************************************)
Plain(calling) == OneLine(calling.at)

\* From the callback at i on, there is the rest of a body or of a head.
BodyGoesOn(calls, i) ==
  \E k \in i .. Len(calls) :
    /\ calls[k].cb = "message_complete"
    /\ \A j \in i .. k - 1 : calls[j].cb = "body"
HeadGoesOn(calls, i) ==
  \E h \in i .. Len(calls) :
    /\ calls[h].cb = "headers_complete"
    /\ \A j \in i .. h - 1 :
         calls[j].cb \in {"header_field", "header_value"} /\ Plain(calls[j])
    /\ BodyGoesOn(calls, h + 1)

\* A name that may be taken for the Content-Length, as a whole or cut, is in a
\* head with no trailing fields to come.
LengthsAhead(calls) ==
  \A i \in DOMAIN calls :
    /\ calls[i].cb = "header_field"
    /\ WholeTexts => Resembles(ContentLength, calls[i].at)
    => HeadGoesOn(calls, i)

\* The body is behind the head, and no message ends before its head does.
BodiesBehindHeads(calls) ==
  \A i \in DOMAIN calls : i > 1 /\ calls[i].cb = "body" =>
    calls[i - 1].cb \in {"headers_complete", "body"}
HeadsFirst(calls) ==
  \A i \in DOMAIN calls : calls[i].cb \in {"body", "message_complete"} =>
    \E h \in 1 .. i - 1 : calls[h].cb = "headers_complete"

FromCommand == {"command"} \X STRING

\* From the position of the length on, the head that is held has no blank line
\* but its end.
InLengthsHead ==
  /\ content_length_at <= Len(headers)
  /\ \A k \in content_length_at + 1 .. Len(headers) : headers[k] # Blank[1]
HoldsLengthsHead ==
  /\ content_length_at < Len(headers)
  /\ headers[Len(headers)] = Blank[1]
  /\ \A k \in content_length_at + 1 .. Len(headers) - 1 : headers[k] # Blank[1]

LengthPlace ==
  content_length_at >= 0 =>
    /\ pc \in {"start", "open", "parse", "write"} =>
         \/ HeadGoesOn(todo, 1) /\ InLengthsHead
         \/ BodyGoesOn(todo, 1) /\ (do_pipe_this_message => HoldsLengthsHead)
    /\ pc \in {"drain", "flush"} => HoldsLengthsHead

StatusStarts ==
  IF status_line = <<>> THEN HeadsFirst(todo) /\ pc \notin {"drain", "flush"}
                        ELSE status_line[1] = "start "

\* The bodies on stdout are complete and something follows them.
AllEnded(out) ==
  \A i \in DOMAIN out : out[i][1] = "length" =>
    \E blank \in i .. Len(out) :
      /\ BodyBehind(out, i, blank)
      /\ blank + out[i][2] < Len(out)
      /\ out[blank + out[i][2] + 1] = StartAtom

BodyComes == todo # <<>> /\ todo[1].cb = "body"
HeadBeforeBody ==
  BodyComes => /\ pc \notin {"start", "open", "drain", "flush", "reset"}
               /\ pc \in {"parse", "write"} => headers # <<>> \/ AllEnded(stdout)

LengthInv ==
  LengthsInHeads =>
    /\ body \in Seq(FromCommand) /\ taken \in Seq(FromCommand)
    /\ out_pipe \in Seq(FromCommand)
    /\ LengthsAhead(todo) /\ BodiesBehindHeads(todo)
    /\ LengthPlace /\ StatusStarts /\ HeadBeforeBody
    /\ AllRight(stdout)
=============================================================================
