---------------------------- MODULE HeadersTool ----------------------------
(***************************************************************************)
(* headers.c: pipes the head of every HTTP message through a command and   *)
(* copies the bodies.  The command and the tool share one stdout, so the   *)
(* tool closes the pipe after each head and waits for the command to exit  *)
(* before it goes on to the body, then opens the pipe again.               *)
(*                                                                         *)
(* The pipe handle is Pipes, whose actions the tool's steps take part in.  *)
(* Added to it here are the bytes: what is in the pipe, what the command   *)
(* has read, and what is on stdout, where each atom is paired with the     *)
(* process that wrote it.  The command is any filter that prints all it    *)
(* reads, at its own pace.                                                 *)
(***************************************************************************)
EXTENDS Naturals, Sequences, SequencesExt, Callbacks

CONSTANTS
  MaxFd, MaxOpens, ForkMayFail, DrainsBeforeClose,  \* those of Pipes
  Inputs,         \* the sequences of messages read(2) may get
  WholeTexts,     \* no text crosses the end of a read
  MayBreakOff,    \* whether the input may end, or fail, within a message
  MayLogAtStart,  \* whether ULOG_LEVEL may let main's first message through
  MayQuit,        \* whether the command may exit before the end of its input
  URL_MAX,        \* size of the copy of the URL
  STRING_MAX      \* size of the copy of the start line

ASSUME FdAssumption == MaxFd \in Nat /\ MaxFd > 2
ASSUME OpensAssumption == MaxOpens \in Nat
ASSUME ClientAssumption ==
  ForkMayFail \in BOOLEAN /\ DrainsBeforeClose \in BOOLEAN
ASSUME InputAssumption == Inputs \subseteq Seq(Messages)
ASSUME SwitchAssumption ==
  /\ WholeTexts \in BOOLEAN /\ MayBreakOff \in BOOLEAN
  /\ MayLogAtStart \in BOOLEAN /\ MayQuit \in BOOLEAN
\* What the tool adds to the texts is text (tlapm does not see this itself).
ASSUME LiteralAssumption ==
  {"start ", ": ", "\r\n", "not set"} \subseteq STRING
ASSUME SizeAssumption == URL_MAX \in Nat \ {0} /\ STRING_MAX \in Nat \ {0}

VARIABLES
  state, child_pid, pipe_fds, bipipe_fds, call, old_state, eof_read,
  fds, proc, proc_state, cfds, opens, failed, widowed

Ph == INSTANCE Pipes

VARIABLES
  pc,       \* where the tool is
  rc,       \* the exit code so far
  input,    \* history: the messages of this run
  mishaps,  \* history: what went wrong that the tool does not see
  todo,     \* the callbacks that are still to come
  fd_pipe,  \* hset.fd_pipe
  url,      \* hset.url
  sbuf,     \* what hset.sbuf holds
  in_pipe,  \* the bytes in the pipe to the command
  taken,    \* the bytes the command has read and not yet printed
  stdout    \* what was written to stdout, by whom

pipes == <<state, child_pid, pipe_fds, bipipe_fds, call, old_state, eof_read,
           fds, proc, proc_state, cfds, opens, failed, widowed>>
data == <<in_pipe, taken, stdout>>
parsed == <<fd_pipe, url, sbuf>>
history == <<input, mishaps>>
tool == <<pc, rc, history, todo, parsed>>
vars == <<pipes, tool, data>>

-----------------------------------------------------------------------------
By(who, text) == [i \in DOMAIN text |-> <<who, text[i]>>]

Cut(text, n) == SubSeq(text, 1, IF Len(text) < n THEN Len(text) ELSE n)

\* snprintf into a string of STRING_MAX bytes.
StartLineUncut(target) == <<"start ">> \o target \o <<"\r\n">>
StartLine(target) == Cut(StartLineUncut(target), STRING_MAX - 1)

\* A message that every mask lets through: syslog's socket is open after it,
\* if there is a descriptor for it.
Logs == IF Ph!Holds(fds, Ph!Log) \/ ~Ph!Holds(fds, Ph!Free)
        THEN UNCHANGED pipes ELSE Ph!LogConnect

\* The descriptor is the write end of the running command's input.
IsCommandInput(fd) == fds[fd] = Ph!End("in", proc, "w")
CommandReads == Ph!Held(Ph!End("in", proc, "r"))

-----------------------------------------------------------------------------
Init ==
  /\ Ph!Init
  /\ pc = "start"
  /\ rc = "EX_OK"
  /\ input \in Inputs
  /\ mishaps = {}
  /\ todo = Stream(input)
  /\ fd_pipe = 0
  /\ url = <<>>
  /\ sbuf = <<>>
  /\ in_pipe = <<>>
  /\ taken = <<>>
  /\ stdout = <<>>

\* main: the first message it logs, then the pipe.
UlogInit ==
  /\ pc = "start"
  /\ pc' = "open"
  /\ (MayLogAtStart /\ Ph!LogConnect) \/ UNCHANGED pipes
  /\ UNCHANGED <<rc, history, todo, parsed, data>>

\* pipe_open, then pipe_http_messages, which keeps the descriptor number.
Open ==
  /\ pc = "open"
  /\ Ph!PipeOpen
  /\ IF state' = "PIPES_OPEN_UNI"
     THEN pc' = "parse" /\ fd_pipe' = pipe_fds'[1] /\ UNCHANGED rc
     ELSE pc' = "exit" /\ rc' = "EX_UNAVAILABLE" /\ UNCHANGED fd_pipe
  /\ UNCHANGED <<history, todo, url, sbuf, data>>

\* http_parser_execute makes the callback cb with the text at.
Calls(cb, at) ==
  /\ pc = "parse"
  /\ todo # <<>>
  /\ Head(todo).cb = cb
  /\ at \in Pieces(todo, WholeTexts)
  /\ todo' \in Remaining(todo, at, WholeTexts)
  /\ UNCHANGED <<input, fd_pipe>>

\* What of a text strncpy copies to hset.url.
KeptOfUrl(at) == Cut(at, URL_MAX - 1)

\* Where the terminator is put behind it: hset.url[URL_MAX - 1] is the last
\* byte of the block.
UrlEndOneMore(at) == IF Len(at) < URL_MAX THEN Len(at) ELSE URL_MAX
UrlEnd(at) == IF Len(at) < URL_MAX THEN Len(at) ELSE URL_MAX - 1
StatusEnd(at) == IF Len(at) < URL_MAX THEN Len(at) ELSE URL_MAX

PutsEnd(end) ==
  mishaps' = IF end < URL_MAX THEN mishaps ELSE mishaps \union {"overrun"}

\* A long URL is cut, which is logged at a level that is always let through.
CbUrl(at) ==
  /\ Calls("url", at)
  /\ url' = KeptOfUrl(at)
  /\ PutsEnd(UrlEnd(at))
  /\ IF Len(at) >= URL_MAX THEN Logs ELSE UNCHANGED pipes
  /\ UNCHANGED <<pc, rc, sbuf, data>>

\* A terminator at hset.url[URL_MAX] leaves the byte before it as it was: the
\* end of an earlier text, or what malloc found there.
CbStatusComplete(at) ==
  /\ Calls("status", at)
  /\ url' \in IF StatusEnd(at) < URL_MAX THEN {KeptOfUrl(at)}
              ELSE {KeptOfUrl(at), KeptOfUrl(at) \o <<"not set">>}
  /\ PutsEnd(StatusEnd(at))
  /\ UNCHANGED <<pipes, pc, rc, sbuf, data>>

CbHeaderField(at) ==
  /\ Calls("header_field", at)
  /\ sbuf' = sbuf \o at \o <<": ">>
  /\ UNCHANGED <<pipes, pc, rc, mishaps, url, data>>

CbHeaderValue(at) ==
  /\ Calls("header_value", at)
  /\ sbuf' = sbuf \o at \o <<"\r\n">>
  /\ UNCHANGED <<pipes, pc, rc, mishaps, url, data>>

\* A write to a pipe nobody reads kills the tool; a write to a descriptor
\* that is not the pipe (closed, or syslog's socket) is lost, unnoticed.
WriteHead(head) ==
  IF ~IsCommandInput(fd_pipe) THEN pc' = "reset" /\ UNCHANGED in_pipe
  ELSE IF CommandReads THEN pc' = "reset" /\ in_pipe' = in_pipe \o head
  ELSE pc' = "killed" /\ UNCHANGED in_pipe

CbHeadersCompleteNoReset ==
  /\ Calls("headers_complete", <<>>)
  /\ pc' = "parse"
  /\ IsCommandInput(fd_pipe) /\ CommandReads
  /\ in_pipe' = in_pipe \o StartLine(url) \o sbuf \o <<"\r\n">>
  /\ sbuf' = <<>>
  /\ UNCHANGED <<pipes, rc, mishaps, url, taken, stdout>>

\* The head is written, and pipe_reset closes the pipe.
CbHeadersComplete ==
  /\ Calls("headers_complete", <<>>)
  /\ WriteHead(StartLine(url) \o sbuf \o <<"\r\n">>)
  /\ sbuf' = <<>>
  /\ IF pc' = "reset" THEN Ph!PipeReset ELSE UNCHANGED pipes
  /\ UNCHANGED <<rc, mishaps, url, taken, stdout>>

\* waitpid and pipe_open within pipe_reset and pipe_close.
WaitsOrReopens ==
  /\ Ph!Waitpid \/ (call = "reopen_uni" /\ Ph!PipeOpen)
  /\ UNCHANGED <<tool, data>>

ResetReturnsKeepsRc ==
  /\ pc = "reset"
  /\ call = "none"
  /\ IF state = "PIPES_OPEN_UNI"
     THEN pc' = "parse" /\ UNCHANGED pipes
     ELSE pc' = "close" /\ Logs
  /\ UNCHANGED <<rc, history, todo, parsed, data>>

\* pipe_reset has returned to cb_headers_complete.  After a -1 from the
\* callback the parser is in error, which ends the loop.
ResetReturns ==
  /\ pc = "reset"
  /\ call = "none"
  /\ IF state = "PIPES_OPEN_UNI"
     THEN pc' = "parse" /\ UNCHANGED <<pipes, rc>>
     ELSE pc' = "close" /\ rc' = "EX_IOERR" /\ Logs
  /\ UNCHANGED <<history, todo, parsed, data>>

CbBody(at) ==
  /\ Calls("body", at)
  /\ stdout' = stdout \o By("tool", at)
  /\ UNCHANGED <<pipes, pc, rc, mishaps, url, sbuf, in_pipe, taken>>

\* Initialises the parser again.
CbMessageComplete ==
  /\ Calls("message_complete", <<>>)
  /\ UNCHANGED <<pipes, pc, rc, mishaps, url, sbuf, data>>

\* read returned 0.  The parser reports an error within a message, but the
\* tool looks for one only after a read that got something.
Eof ==
  /\ pc = "parse"
  /\ todo = <<>> \/ MayBreakOff
  /\ pc' = "close"
  /\ mishaps' = IF todo = <<>> THEN mishaps ELSE mishaps \union {"cut off"}
  /\ UNCHANGED <<pipes, rc, input, todo, parsed, data>>

\* read fails, or the parser reports an error or an upgrade.
InputFails ==
  /\ pc = "parse"
  /\ MayBreakOff
  /\ pc' = "close"
  /\ rc' = "EX_IOERR"
  /\ Logs
  /\ UNCHANGED <<history, todo, parsed, data>>

CloseJustFrees ==
  /\ pc = "close"
  /\ pc' = "exit"
  /\ call' = "freed"
  /\ UNCHANGED <<state, child_pid, pipe_fds, bipipe_fds, old_state, eof_read,
                 fds, proc, proc_state, cfds, opens, failed, widowed,
                 rc, history, todo, parsed, data>>

\* main again: pipe_close asserts that the handle is not closed.
Close ==
  /\ pc = "close"
  /\ IF state = "PIPES_CLOSED" THEN pc' = "aborted" /\ UNCHANGED pipes
                               ELSE pc' = "delete" /\ Ph!PipeClose
  /\ UNCHANGED <<rc, history, todo, parsed, data>>

Delete ==
  /\ pc = "delete"
  /\ Ph!PipeHandleDelete
  /\ pc' = "exit"
  /\ UNCHANGED <<rc, history, todo, parsed, data>>

\* What was put behind a block may have been put over something in use.  Then
\* the tool may do anything, which is not followed any further.
Breaks ==
  /\ pc \in {"parse", "close"}
  /\ "overrun" \in mishaps
  /\ pc' = "overrun"
  /\ UNCHANGED <<pipes, rc, history, todo, parsed, data>>

-----------------------------------------------------------------------------
\* The command, a filter.
CommandSetUp == Ph!ChildSetUp /\ UNCHANGED <<tool, data>>

CommandRuns == proc_state = "running" /\ UNCHANGED <<pipes, tool>>

CommandTakes ==
  /\ CommandRuns
  /\ in_pipe # <<>>
  /\ taken' = taken \o in_pipe
  /\ in_pipe' = <<>>
  /\ UNCHANGED stdout

CommandPrints ==
  /\ CommandRuns
  /\ \E n \in DOMAIN taken :
       /\ stdout' = stdout \o By("command", SubSeq(taken, 1, n))
       /\ taken' = SubSeq(taken, n + 1, Len(taken))
  /\ UNCHANGED in_pipe

CommandEnds ==
  /\ in_pipe = <<>> /\ taken = <<>>
  /\ Ph!ChildExitsOnEof
  /\ UNCHANGED <<tool, data>>

CommandQuits ==
  /\ MayQuit
  /\ Ph!ChildExitsEarly \/ Ph!ChildAborts
  /\ in_pipe' = <<>> /\ taken' = <<>>
  /\ mishaps' = mishaps \union {"quit"}
  /\ UNCHANGED <<pc, rc, input, todo, parsed, stdout>>

Final == pc \in {"exit", "aborted", "killed", "overrun"}
Done == Final /\ UNCHANGED vars

-----------------------------------------------------------------------------
\* The text a callback can come with.
Texts == IF todo = <<>> THEN {} ELSE Pieces(todo, WholeTexts)

Tool ==
  \/ UlogInit \/ Open
  \/ \E at \in Texts : \/ CbUrl(at) \/ CbStatusComplete(at)
                       \/ CbHeaderField(at) \/ CbHeaderValue(at)
                       \/ CbBody(at)
  \/ CbHeadersComplete \/ ResetReturns \/ CbMessageComplete
  \/ Eof \/ InputFails \/ Close \/ Delete
  \/ WaitsOrReopens

Command == CommandSetUp \/ CommandTakes \/ CommandPrints \/ CommandEnds

Next == Tool \/ Breaks \/ Command \/ CommandQuits \/ Done

Spec == Init /\ [][Next]_vars

\* The kernel runs both processes, and the filter goes on to the end of its
\* input.  Input to the tool ends.
FairSpec == Spec /\ WF_vars(Tool) /\ WF_vars(Command)

-----------------------------------------------------------------------------
\* No text makes the tool write behind its copy of the URL but a reason phrase
\* of URL_MAX bytes or more: no URL does, and no piece of one.
LongReason ==
  \E due \in ToSet(Stream(input)) : due.cb = "status" /\ Len(due.at) >= URL_MAX
StaysInCopies ==
  /\ "overrun" \in mishaps => LongReason
  /\ Len(url) < URL_MAX \/ (Len(url) = URL_MAX /\ "overrun" \in mishaps)
  /\ pc = "overrun" => "overrun" \in mishaps

TypeOK ==
  /\ Ph!TypeOK
  /\ pc \in {"start", "open", "parse", "reset", "close", "delete",
             "exit", "aborted", "killed", "overrun"}
  /\ rc \in {"EX_OK", "EX_IOERR", "EX_UNAVAILABLE"}
  /\ input \in Inputs /\ mishaps \subseteq {"quit", "cut off", "overrun"}
  /\ todo \in Seq(CallbacksWithText)
  /\ fd_pipe \in Ph!Fd
  /\ url \in Text
  /\ StaysInCopies
  /\ sbuf \in Text
  /\ in_pipe \in Text
  /\ taken \in Text
  /\ stdout \in Seq({"tool", "command"} \X STRING)

\* The handle the tool works with is one of Pipes: everything that holds of
\* those holds of it, and the tool calls in an order Pipes allows.
UsesPipes == Ph!Spec

\* What the tool is for: the command prints the head of each message and
\* after it the tool its body, all of them in the order of the input.
Line(field) == field.name \o <<": ">> \o field.value \o <<"\r\n">>
Lines(fields) == FlattenSeq([i \in DOMAIN fields |-> Line(fields[i])])
Out(message) ==
  By("command", StartLineUncut(message.url) \o Lines(message.fields) \o <<"\r\n">>)
    \o By("tool", FlattenSeq(message.body))
Outs(messages) == FlattenSeq([i \in DOMAIN messages |-> Out(messages[i])])
Expected == Outs(input)

\* The copies of the URL and of the start line are long enough; then nothing
\* is written behind the first.
Fits == \A i \in DOMAIN input :
          StartLine(KeptOfUrl(input[i].url)) = StartLineUncut(input[i].url)

\* stdout never has anything that is out of order, no body ahead of its
\* head, although two processes write to it: whatever forks fail, wherever
\* the input ends, as long as the commands read to the end of theirs.
OutputInOrder ==
  Fits /\ PlainMessages(input) /\ "quit" \notin mishaps =>
    IsPrefix(stdout, Expected)

\* An exit code of EX_OK says that every message has been printed
\* completely, unless a command quit or the input was cut off, which the
\* tool does not notice; a fork that fails it does.
ExitMeansPrinted ==
  Fits /\ PlainMessages(input) /\ mishaps = {} /\ pc = "exit" /\ rc = "EX_OK" =>
    stdout = Expected

\* Between two calls the command has nothing of an earlier head left, so
\* that it cannot print into the body, also when commands quit, forks fail
\* and inputs end anywhere.
HeadsAreFlushed == pc = "parse" => in_pipe = <<>> /\ taken = <<>>

\* However it ends, the tool leaves no command behind, except a command it
\* was killed by.
LeavesNoCommand == pc = "exit" => proc = 0

\* The tool ends, or has written behind its copy of the URL and breaks.
Terminates == <>Final

\* "Headers are written to the pipe" (headers.c, cb_headers_complete): the
\* number kept since the first pipe_open is the write end of the pipe.
WritesToThePipe == pc = "parse" => IsCommandInput(fd_pipe)

-----------------------------------------------------------------------------
(***************************************************************************)
(* The inductive invariant of the safety properties, besides Ph!IInv.      *)
(***************************************************************************)
\* Which call of pipes.c the tool is in, and what it finds when it is back.
Control ==
  /\ state \in {"PIPES_CLOSED", "PIPES_OPENING", "PIPES_OPEN_UNI"}
  /\ pc \in {"start", "open"} => state = "PIPES_CLOSED" /\ call = "none"
  /\ pc = "parse" => state = "PIPES_OPEN_UNI" /\ call = "none"
  /\ pc = "reset" =>
       \/ /\ call = "pipe_reset"
          /\ state = "PIPES_OPEN_UNI" /\ old_state = "PIPES_OPEN_UNI"
       \/ call = "reopen_uni" /\ state = "PIPES_CLOSED"
       \/ call = "none"
  /\ pc = "delete" => \/ call = "pipe_close"
                      \/ call = "none" /\ state = "PIPES_CLOSED"
  /\ pc = "exit" => call \in {"none", "freed"} /\ state # "PIPES_OPEN_UNI"
  /\ pc \in {"close", "aborted", "killed", "overrun"} => call = "none"

\* Bytes are between the tool and its stdout only while pipe_reset waits
\* for the command that has them.
OnTheWay ==
  in_pipe # <<>> \/ taken # <<>> =>
    call = "pipe_reset" /\ proc_state \notin {"none", "zombie"}

\* What is still to come of a reason phrase is no longer than all of it.
ReasonsDue ==
  \A k \in DOMAIN todo : todo[k].cb = "status" =>
    \E due \in ToSet(Stream(input)) :
      due.cb = "status" /\ Len(todo[k].at) <= Len(due.at)

ToolInv == TypeOK /\ Control /\ OnTheWay /\ ReasonsDue

\* What is on stdout and what the command will print.
Sent == stdout \o By("command", taken \o in_pipe)

\* What was sent, what the tool holds, and what the callbacks to come will
\* add to it, make what is expected.
AtMessage(m) ==
  /\ todo = MessageCalls(input, m) /\ sbuf = <<>>
  /\ Sent \o Outs(Rest(input, m)) = Expected

InHead(m, j) ==
  /\ todo = HeadCalls(input, m, j)
  /\ url = KeptOfUrl(input[m + 1].url)
  /\ sbuf \o Lines(Rest(input[m + 1].fields, j)) = Lines(input[m + 1].fields)
  /\ Sent \o Outs(Rest(input, m)) = Expected

AtValue(m, j) ==
  /\ todo = ValueCalls(input, m, j)
  /\ url = KeptOfUrl(input[m + 1].url)
  /\ sbuf \o input[m + 1].fields[j + 1].value \o <<"\r\n">>
       \o Lines(Rest(input[m + 1].fields, j + 1)) = Lines(input[m + 1].fields)
  /\ Sent \o Outs(Rest(input, m)) = Expected

InBody(m, j) ==
  /\ todo = BodyCalls(input, m, j) /\ sbuf = <<>>
  /\ Sent \o By("tool", FlattenSeq(Rest(input[m + 1].body, j)))
       \o Outs(Rest(input, m + 1)) = Expected

Somewhere ==
  \/ \E m \in 0 .. Len(input) : AtMessage(m)
  \/ \E m \in 0 .. Len(input) - 1 :
       \/ \E j \in 0 .. Len(input[m + 1].fields) : InHead(m, j)
       \/ \E j \in 0 .. Len(input[m + 1].fields) - 1 : AtValue(m, j)
       \/ \E j \in 0 .. Len(input[m + 1].body) : InBody(m, j)

\* The next pipe has the write end that the tool keeps the number of: no
\* number is taken or given back between two opens but the pipe's own.
NextIsSame(table) == \A r, w \in Ph!Fd : Ph!IsPipe(table, r, w) => w = fd_pipe

FdPipeIsKept ==
  /\ pc \in {"parse", "reset"} /\ call = "none" /\ state = "PIPES_OPEN_UNI" =>
       /\ fd_pipe = pipe_fds[1]
       /\ NextIsSame([fds EXCEPT ![fd_pipe] = Ph!Free])
  /\ call \in {"pipe_reset", "reopen_uni"} => NextIsSame(fds)

\* A tool that will exit with EX_OK has had every callback, or its input
\* was cut off.
EndsAtTheEnd ==
  pc \in {"close", "delete", "exit"} /\ rc = "EX_OK" /\ mishaps = {} => todo = <<>>

OrderInv ==
  Fits /\ PlainMessages(input) /\ "quit" \notin mishaps =>
    /\ FdPipeIsKept
    /\ pc # "killed" => Somewhere
    /\ IsPrefix(Sent, Expected)

=============================================================================
