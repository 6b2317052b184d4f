# A TLA+ model of Mumpsimus

Mumpsimus is a set of small Unix filters for HTTP streams. Each reads requests
and responses from standard input, parses them with a callback parser, does one
thing to them, and writes them to standard output. Two of them, `headers` and
`body`, pipe a part of every message through a shell command; `log` reports
messages and `noop` only copies. This directory holds TLA+ modules for the four
tools and the libraries beneath them, the HTTP parser included, TLC configurations
that check the modules on small instances, and TLAPS proofs.

Paths below are relative to the repository; `pipes.c` means `src/pipes.c`.

## 1. The system

| component | state | operations | modelled by |
|---|---|---|---|
| pipe handle (`pipes.c`) | `struct Pipe_Handle`: state, child pid, two descriptor pairs; the descriptor tables of parent and child | `pipe_open`, `pipe_open2`, `pipe_send_eof`, `pipe_close`, `pipe_reset`, `pipe_handle_delete`; the child's set-up | `Pipes`, `PipesProofs` |
| stream buffer (`stream_buffer.c`) | block, tail, current and maximal size | add (with growth), clear, write, write_to | `StreamBuffer`, `ByteQueue`, `StreamBufferProofs` |
| utilities (`util.c`) | none | `upper_power_of_two`, `strlcat`, `write_all`, `pass_through` | `Util`, `Strlcat`, `UtilProofs`; `write_all` and `pass_through` in `Noop` |
| headers tool (`headers.c`) | `struct headers_settings`, parser position, one pipe handle | seven parser callbacks, the read loop, `main` | `HeadersTool`, `HeadersToolProofs` |
| body tool (`body.c`) | `struct Body_State`, parser position, one pipe handle with two pipes | seven parser callbacks, the read loop, `main` | `BodyTool`, `BodyToolProofs` |
| HTTP parser (`http_parser.c`, vendored) | automaton state, flags, remaining length, marks | `http_parser_execute`, `http_parser_init` | `HttpParser`; what the tools rely on: `CallbackStream`, `Callbacks`, `CallbacksProofs`; its proofs are in `LogToolProofs` |
| log tool (`log.c`) | copies of URL and fields, volume, parser | callbacks, read loop | `LogTool`, `LogToolProofs` |
| noop tool (`noop.c`) | none | copy loop, as `noop`, `null` and `dup` | `Noop`, `UtilProofs` |
| logging (`ulog.c`) | syslog's socket and mask | `ulog`, `ulog_close` | only its effect on descriptors, in `Pipes` |
| `connect.c`, `exp/perl`, tests | | | no: a libcurl sample outside the build, prototypes, and tests (read for what they expect) |

**How they interact.** A tool's loop gives what it read to
`http_parser_execute`, which calls the tool's callbacks; the callbacks keep
pieces of the message in buffers and, through a pipe handle, talk to the child
process. `headers` shares its standard output with its command: it writes a
head, closes the pipe, *waits for the command to exit*, opens the next pipe and
only then prints the body. `body` has pipes in both directions: it writes the
body, sends end of file, reads the command's output to its end, prints head and
new body, and resets the pipes. Both rely on the kernel for three facts: a pipe
gets the lowest free descriptors, a reader sees end of file when every copy of
the write end is closed, a writer is killed when every copy of the read end is.

**What is hard.** Two processes and a kernel run concurrently. Whether a wait
ends depends on who still holds a copy of which descriptor, at the time of the
fork and later. Descriptor numbers are reused, and `vsyslog` opens a socket at a
moment of its own. `pipe`, `fork` and the command can fail halfway through a
sequence of steps. State kept from one callback to the next outlives the message
it was about. `PROJECT.json` lists these hazards, each at its line.

**What makes each part correct.**

- pipe handle: an open handle's numbers are its own pipes'; stdio is never
  closed; end of file can get through in both directions; no child is left
  unreaped; every descriptor left open has a known origin; close and drain end.
- stream buffer: it is a queue of bytes, and its sizes agree with its tail.
- HTTP parser: each text of each message is delivered once, in order, whole or in
  pieces, wherever the reads end; whether an input is accepted does not depend on
  the reads either; its assertions hold.
- `strlcat`: it stays within its array, terminated or not.
- `log`: stdout is what was read; one line for each complete message, with its own
  method or status and its own fields.
- `noop`: a copy, byte for byte, whatever a single write takes; a failed write
  costs the end of one buffer.
- `headers`, `body`: everything is printed once, in order, heads before bodies; a printed
  length is the length of the body behind it; the program ends and leaves no
  command behind; the pipe handle is only used in an order it allows.

## 2. Modules, and how they correspond to the code

`PROJECT.json` "map" names the lines each definition stands for.

**Pipes.** One handle, the descriptor table of the parent (`fds`) and of the
child that exists (`cfds`). A table maps a number to what it is open on: nothing,
stdio, syslog's socket, or an end of the *n*-th pipe to (`"in"`) or from
(`"out"`) a command. `PipeOpen` and `PipeOpen2` are whole calls, with a case for
each failure: the first `pipe(2)` (nothing changes), the second (the first one's
ends stay open, the handle stays closed), `fork` (everything stays open, state
`PIPES_OPENING`, pid -1). `pipe_close` blocks, so it is two steps: `BeginClose`,
what it does to the table, and `Waitpid`. `PipeReset` and `PipeHandleDelete`
share both and go on from there (`AfterClose`): a reset remembers the state and
calls the open that belongs to it. The child's set-up (closes, `dup2`, `execl`)
is one step, since between a fork and a reap only the child changes its table;
until it runs, the child holds copies of everything, and that matters. A command
may exit at end of file or earlier, block on a full output pipe, be killed when
nobody reads. `LogConnect` and `LogClose` are syslog's, at any time.
`opens`, `failed` and `widowed` are history variables; `opens` also numbers the
processes. `DrainsBeforeClose` restricts the caller: having sent end of file, it
reads to end of file before it closes.

**ByteQueue, StreamBuffer.** `StreamBuffer` keeps the block of memory as a
function on offsets in which `Junk` stands for what `malloc` and `realloc` leave;
`memmove`, `memcpy` and `realloc` are operators on it. The write operations take
any number of bytes up to the length, as `write_all` may stop at an error.
`ByteQueue` says what a caller may rely on; `StreamBuffer!IsQueue` is the
refinement, with the queue mapped to the block's first `curr_size` bytes.

**Util, Strlcat.** `upper_power_of_two` on a `size_t` of 64 bits, given as the set
of the positions of its ones, so that no width is lost. `Strlcat` has one step for
each round of the two loops of `strlcat`, on an array that may lack a terminator;
`strlcat` in `Util` is what a call does to terminated strings, for `LogTool`.

**Noop.** One step for each `read` and each `write` of `write_all`; a write takes
any part of what is left, fails, or kills the tool. `chunks` (what each `read`
got), `took` (how much of each `write` took for stdout) and `lost` are history;
`CopiesAll` says what stdout is in terms of them. An interrupted write is one that fails: `write_all` does not look at
`errno`, although the comment above it says that it continues after `EINTR`
(no tool installs a signal handler).

**Callbacks, CallbackStream.** A message is a record; `CallbacksOf` is the sequence
of callbacks the parser makes for it, trailing fields included. `Pieces` and
`Remaining` cut a text where a read may end in it, with the additional empty piece
the parser delivers when the buffer ends right behind a text. `CallbackStream` is
the abstract specification of the parser: it delivers such a sequence, each text
whole or in pieces. `HeadersTool` and `BodyTool` are written against it.

**HttpParser.** `http_parser_execute`. A stream is a sequence of atoms: a word the
parser knows or a part of it, a name, a digit, a separator. A read may end between
any two. A step is one case of the code's switch: it consumes the atom or goes to
another case with it (`REEXECUTE`). States between the letters of one word are
collapsed into the one before; those of the URL are one state, `s_req_path`. A mark
is kept with the bytes since it was set, `cb` is the callback a step makes.
`MessageCompletes` includes that every tool's `on_message_complete` initialises
the parser again, *within* the call of `http_parser_execute`, which goes on from
the state, flags and type that it finds afterwards. `ExecuteEof` is the call with no bytes. The build is the
strict one. `ULLONG_MAX` is a constant of at least 16, so that the checks for
overflow and the value that stands for "no length" are met. `ParserInv` at the end
of the module is the inductive invariant of its steps (section 4). Left out, because
no tool uses them: responses whose body a callback skips, parsers for one type only,
pausing and `http_parser_parse_url`; and `s_dead`, the state after a message that
ends a connection, which that initialisation overwrites before anything is parsed
in it. Left out although every tool is subject to it: the limit of 80 KB on the size
of a head (`nread`, `COUNT_HEADER_SIZE`, `http_parser.c:159`), behind which the
parser fails with `HPE_HEADER_OVERFLOW`; the model accepts heads of any size, and
what is said of complete inputs is said of those below the limit. The assertion
`nread == 1` of `s_chunk_size_start` (`http_parser.c:2132`) is about the same counter
and is not among `ParserAssertions`.

**LogTool.** The main loop of `log.c` with that parser and the callbacks of `log.c`.
`Pass` writes from the start of the buffer and parses from where the parser
stopped, as the code does. `cuts` bounds the reads that get less than there is;
`todo`, `early` and `failed` are history. `DeliversInOrder` is the refinement of
`CallbackStream`, with `todo` mapped to what has not been delivered. So the
assumption of `HeadersTool` and `BodyTool` is checked of the parser.

**HeadersTool, BodyTool.** Each composes the callback stream, the tool, one
`Pipes` instance (whose variables it shares) and a command. Every callback is one
action, but for those that block: `cb_headers_complete` of `headers` is
`CbHeadersComplete`, `WaitsOrReopens`, `ResetReturns`; `cb_message_complete` of
`body` is `CbMessageCompletePiped`, `DrainRead`, `DrainEnd`, `Flush`,
`WaitsOrReopens`, `ResetReturns`; `cb_body` of `body` is `CbBodyPiped` and
`WriteAll`, since both pipes are bounded and the write waits. `pc` says where the
tool is; `"aborted"` is a failed assertion, `"killed"` a SIGPIPE. The command is
any filter that takes what is there and prints at its own pace; in `BodyTool` it
makes `GROWTH` atoms of each. The bytes on stdout are paired with the process
that wrote them. In `HeadersTool` the number of the write end is kept in
`fd_pipe` from the first pipe on, as in the code, and a write goes to whatever
that number is open on now. `mishaps` records what goes wrong without the tool
seeing it: a command that quits, an input cut off, a read of the drain loop that
fails (`DrainFails`), something written behind a block (`"overrun"`).

`UsesPipes` is refinement again: a behaviour of a tool, seen through the pipe
handle's variables, is a behaviour of `Pipes`, for `body` even with
`DrainsBeforeClose = TRUE` unless a read of its drain loop has failed. So what is proved of `Pipes` holds of the handle each
tool has.

The `MC...` modules give the constants their values; operators whose value is
`...KeepsRead`, `...NoReset` and the like, each placed before the definition it
varies, are wrong versions of it used to see that a property notices.

**Behind a block.** Four places of the code write behind a block of memory, if a text
is long enough:

- `headers.c:163` and `body.c:206` (`cb_status_complete`) put the terminator of a
  reason phrase of `URL_MAX` bytes or more at `url[URL_MAX]`, although the comments
  above say "Safely copy URL to allocated space", and leave the byte before it as it
  was. The same cut in `cb_url` is right;
- `log.c:189` (`cb_log_url`) does so with a URL of `URL_MAX` bytes or more;
- `body.c:311` and `317` write the start line into `status_line`, of `LINE_MAX` bytes
  (`body.c:98`; 256, of `util.h`), by an `snprintf` that is told `BUFFER_MAX`. A URL that
  fits its own copy of 2048 bytes can be much too long for that.

What happens then C does not define. The models say where the last byte is put
(`UrlEnd`, `StatusEnd`, `PutsEnd`) and record it (`"overrun"` in `mishaps`, `overrun` in
`LogTool`). From there they have two kinds of outcome. Either nothing in use was
behind the block, as for the one byte with an allocator that rounds sizes up (glibc
gives 2056 bytes for 2048), and the tool goes on with the text it wrote; in
`headers` the byte that was left as it was may be one of text (`"not set"`). Or
something breaks: `Breaks` ends the model's behaviour in `pc = "overrun"`, and what
the program does from there is not followed. No property claims that a long text is
handled well. What the type invariants claim, and the proofs for every input, is
which texts bring the tool there and that no other does (`StaysInCopies`,
`StaysInBlocks`, `StaysInBlock`); what the tools print is stated for texts that fit
(`Fits`).

**Abstractions.** Texts are sequences of a few atoms. `ULOG_LEVEL` is at least
`LOG_ERR`, so a message at that level always goes through; the first message of
`main`, at a lower level, may or may not (`MayLogAtStart`). Writes to stdout and
memory allocation in the tools do not fail. Once a tool has been killed or has aborted, what
the kernel does with its descriptors is not described. The two writes of a head
(`headers.c`) are one.

## 3. Runs

Passing runs (states are distinct states):

| run | shows | bounds, and why they are enough |
|---|---|---|
| `pipes` | `IInv`, which contains `TypeOK`; `StdioUntouched`, `HandleOwnsItsEnds`, `EofReachesChild`, `EofReachesParent`, `NoOrphan`, `LeakOrigin`; no close touches a foreign number (`ClosesOnlyItsOwnEnds`); `CloseReturns`, `DrainEnds` under fairness | 3 opens, 10 descriptors: `pipe_open2` needs 4, so the first, second and third open can each run out, at either `pipe(2)`, with or without syslog's socket; a leak of one open meets the next two. The proofs cover every bound. 30172 states |
| `stream_buffer` | `TypeOK`, `SizesAgree`, `HoldsOnlyAdded`, the refinement `IsQueue` | first allocation 1 byte and memory 4, so that it grows and refuses to; chunks of 0 to 2 of two bytes; writes of every length that stop anywhere. 25345 states |
| `util` | `NearestUpperPower`; `InBounds`, `AsDocumented` of `strlcat`; `CopiesAll` of `noop`, `null`, `dup` | one function runs in each behaviour. Arguments below 2^32 (`TopBitAssumption`) with at most 3 ones: the smear depends on the distance from the highest one, so that each position alone decides. Arrays up to 4 characters with terminators anywhere or nowhere, strings up to 3, every size. 0 to 5 numbered bytes and a buffer of 3, so that a second buffer follows a full one. Deadlock is off: the functions return. 51130 states |
| `headers_tool` | `TypeOK`, `OutputInOrder`, `ExitMeansPrinted`, `HeadsAreFlushed`, `LeavesNoCommand`, `UsesPipes`; `Terminates` | inputs of 2 and 3 messages, with and without body, URLs that are cut, a reason phrase longer than its block, input that ends or fails anywhere, forks that fail, commands that quit anywhere, descriptors 0 to 6. `URL_MAX` 8 and line 6 atoms: only the long texts reach them. 187650 states |
| `body_tool` | `TypeOK`, `OutputInOrder`, `ExitMeansPrinted`, `LengthIsRight`, `LeavesNoCommand`, `UsesPipes` (drained); `Terminates` | with a pattern, matching or not, and without; a message that is not piped before one that is, so that a position in the head of the first could be left behind; a message with trailing fields before one with a length; pipes of 2 atoms and a command that doubles, so that it blocks; a body of 6 atoms in two pieces, more than both pipes hold, so that either hang of `HeldUp` is met; a URL that is cut and a reason phrase that is not, both too long for the start line (`URL_MAX` 6, `LINE_MAX` 7; `BUFFER_MAX` 20 is, as in the code, more than a cut URL needs); commands that quit, forks and reads that fail, input that breaks off. 80844 states |
| `log_tool` | `TypeOK`, `ParserAssertions`, `Verdict`, `CopiesInput`, `LogsEachMessage`, `LogsOwnFields`, the refinement `DeliversInOrder`; `Terminates` | about 70 inputs: complete (requests, responses, both framings, chunks with extensions and trailers, folded fields, lookalikes of known fields, upgrades, HTTP/0.9), cut off, malformed. Each is cut at every place, and twice, at every two, when it has at most 20 atoms: two cuts meet in one text or one line end. `ULLONG_MAX` 30: a length of two digits can overflow by either check. Read buffer 24, URL 4, line 7 atoms, so that each copy is cut. All three volumes. 238963 states |

`OutputInOrder` and `ExitMeansPrinted` say what a user expects of the two tools and
hold as long as nothing in `mishaps` breaks them, for messages the tools are made
for (`PlainMessages`; `AllRegular` of `body`; section 4); the other invariants hold
in all conditions. `CopiesInput` says that stdout is what was read as long as the parser
takes all it is given, and all of it when the tool exits with `EX_OK` and no upgrade
stopped it. `LengthIsRight` is about inputs whose names and values are within a line
and in which no message with trailing fields has a name that is taken for
Content-Length, in its head or behind it (`LengthsInHeads`): `body.c` prints
trailing fields behind the blank line, between the head and the body (`body.c:244`),
where the length is no longer that of what follows, and acts on a Content-Length
among them as on one of the head (`body.c:233`). The first piece of a cut name can be
taken for Content-Length too, so that with trailing fields no read may cut a text.
`Verdict` leaves out inputs on which an upgrade stops the
tool inside a body, and says nothing of inputs that are cut off: the comment above
`main` has `log` return "0 if all OK, otherwise non-zero on parsing or other error"
(`log.c:364`), and the code returns 0 for those, as what the parser answers to the
end of the input is not looked at (`log.c:305`). `LogsEachMessage` takes the URL as the
code leaves it, any end of it and an empty one, and that of an earlier request for a
response (`log.c:188`, `140`); it is about the count, the order, the method and the
status. `LogsOwnFields` compares the fields without the tabs, colons and line ends
between them, since `log.c` puts these around every piece of a name or value that a
read cuts: a text split in two shows there as one.

`Terminates` of `body_tool` allows two hangs, and shows that there is no third
(`HeldUp`): tool and command both write to a full pipe (`BothWrite`, `body.c:367`; the
run `body_stuck` has the trace), or a read of the drain loop has failed and
`waitpid` waits for a command that writes to a full pipe (`WaitsUndrained`,
`body.c:424`). In each the tool is held up for ever; in every other behaviour it ends,
in an exit, an assertion, a signal, or `pc = "overrun"`.

Six runs each show a place where the code does not do what a comment or an
assertion of the repository says:

- `headers_stale_fd`: a URL too long is reported through syslog, whose socket
  takes the number the next pipe would have had; the number kept since the first
  pipe is then not the pipe's, and the next head is written to a closed
  descriptor (`headers.c:103`, `239`).
- `headers_split`: a name, value or URL that crosses the end of a read gets two
  callbacks and is printed as two (`headers.c:181`; `body.c:244` is alike).
- `body_stuck`: a body larger than the two pipes has tool and command wait for
  each other; the polling that the comment above `cb_body` speaks of does not
  exist.
- `body_untyped`: a message without Content-Type is treated as the one before it.
- `body_leak`: every message leaks the read end of its output pipe (`pipe_close`
  of a widowed handle, `pipes.c:347`), until `pipe_reset` fails; nobody looks at
  what it returns, and the next message fails an assertion.
- `log_echo`: after a CONNECT the parser returns before the end of the read, and
  `log` writes the start of the buffer once more, not what follows (`log.c:316`);
  `src/system-tests/log.t` expects that `log` does not corrupt concatenated messages.

**What the inputs leave out.** Some inputs are kept from the passing runs because
the property is false of them, without a run of their own: a message that is not
piped and has no body is never printed by `body` (`body.c:397`); trailing fields
of a chunked body are printed behind the blank line by `body` (`body.c:244`) and in
the head of the next message by `headers`; a URL shorter than `URL_MAX` but longer
than `STRING_MAX` costs `headers` the line end of its start line (`headers.c:91`);
above 2^32 `upper_power_of_two` does not fill the low half (`util.c:36`); a response
without reason phrase has no `on_status` callback and gets the URL before it. For
both tools these are conditions of `OutputInOrder` and `ExitMeansPrinted` (`Fits`,
`PlainMessages`, `AllRegular`), so that the theorems can be about every input.
`AllRegular` of `body` has three more: a name that is a beginning of Content-Length
or Content-Type, or begins with it, is taken for it (`body.c:234`); a second
Content-Length moves the position of the first, and a second Content-Type has the
last word; and where there is a pattern but no Content-Type the message before
decides (`body_untyped`).

Things a reader of the models should know, which no property is about: `log` exits
with 0 after a read error, after an input that breaks off in a message and after
an upgrade, against the comment above its `main` (`log.c:364`); the parser reports
`HPE_INVALID_EOF_STATE` for the second, and the
tools ignore what the call with no bytes answers. What follows a CONNECT is parsed
as HTTP. A request that asks to upgrade and has a body stops `log` only if a read
ends within that body; otherwise the initialisation within `on_message_complete`
has erased the flag. `log` keeps only the last piece of a URL that crosses the end
of a read, which is why `LogsEachMessage` allows a suffix. URLs in which the parser
expects another part than it finds (a space in the scheme, say) are accepted by the
model, whose states of the URL are one.

**Fairness.** `Pipes`: the parent goes on with a call it is in, and the kernel
runs the child (weak fairness); a command that again and again finds its input at
its end, and room for its output, ends (strong fairness, as reading makes it
alternate between blocked and running; its output is finite); the caller reads in
its drain loop (`body.c:415`). `CloseReturns` supposes that a widowed handle's
output was read to its end: without that, `waitpid` waits for a command that
writes to a pipe nobody reads and, because of the leak above, nobody has closed.
The tools: each process goes on when it can (weak fairness of `Tool` and
`Command`; in `LogTool` of `Main`); the inputs are finite. Nothing is assumed of a
command that quits, of a drain read that fails, of what breaks behind an overrun
(`Breaks`) or of syslog.

## 4. Theorems

Eight modules hold theorems. Each theorem is about every value of the constants
its module's assumptions admit: every input, every cut, every size, every
descriptor limit. Every strengthening below was checked by TLC on the run of its
module before it was proved.

**Lemmas.** `SequenceLemmas` has what the proofs need of sequences beyond the
library's theorems: parts of sequences and how they join, `IsPrefix`, and
`FlattenSeq` (what it is on a sequence with one more element at either end). The
library's induction theorems take an operator, which the provers cannot
instantiate, so `SetInduction` takes a *set* of naturals that has 0 and with `n`
also `n + 1`; it follows from arithmetic alone (`LeastNat`), and with it what
`FlattenSeq`, a recursive function, computes is proved for every input.
`CallbacksProofs` says that `CallbacksOf` of any message is a sequence of
callbacks, each text included, and so is what is left of one after a piece; and
that the callbacks of a sequence of messages, fields or pieces of a body are those
of its first element and then those of the others (`StreamCons` and its like).

**Pipes** (`PipesProofs`). For every descriptor limit above 2 (`FdAssumption`),
every number of opens (`OpensAssumption`), failing forks or not, draining callers or
not (`ClientAssumption`): type correctness and all six safety invariants of
`pipes`, and `ClosesOnlyItsOwnEnds`. None of the six is inductive. `IInv` adds

- `CallOK`: which calls can be in progress in which state;
- `NumbersOK`: `pipe(2)` gives the numbers of a handle in increasing order, all
  above 2 (this keeps stdio safe);
- `ProcOK`: a child exists from a successful fork to its reaping;
- `SlotsOK`: what can have taken the place of a number the handle gave back. The
  only foreign descriptor is syslog's, it is allocated lowest first, and the
  handle's read end is below its write end: so the second close of the write end
  can hit nothing (this carries `ClosesOnlyItsOwnEnds`);
- `HeldOK`, `EndsOK`, `ChildOK`: the parent holds the ends its handle names and no
  other of the last pipe, and the child no write end of its own input, once set up.

Each action has a lemma that it preserves `IInv`; each property follows from it.

**StreamBuffer** (`StreamBufferProofs`). For all bytes, chunks, sizes and every
growth function that does not shrink (`GrowthAssumption`), `TypeOK /\ SizesAgree /\
HoldsOnlyAdded` is inductive and every step is a step of the queue or a stutter, so
`Spec => IsQueue`. `SizesAgree` is what makes append land behind the held bytes, and
`HoldsOnlyAdded` what makes the mapped queue one of bytes.

**Utilities and noop** (`UtilProofs`, which extends the module of the run).

- `StaysInBounds`: `strlcat` reads and writes only within its array. The invariant
  (`StrlcatInv`) adds one equation, `d + n = siz + 1`: the position and the count
  of what is left move together, in both loops, and the second one stops with `n`
  at 1, which leaves a place for the terminator. Where the array has none, the first
  loop ends with `n` at 0 and nothing is written.
- `DoesAsDocumented`: and it leaves and returns what the comment above it says.
  `Copied` says what the array holds in each round of each loop.
- `IsNearestUpperPower`: `LeastPower` is the statement for *every* argument from 2
  to 2^32 - 1, whatever `MaxOnes` is. `Reach(v, k)` is the set of positions less
  than `k` below a one of `v`; one line `v |= v >> k` makes `Reach(v, k)` into
  `Reach(v, 2k)` (`OrDoubles`), so that the five shifts fill everything below the
  highest one if that is below 32 (`SmearFills`).
- `CopiesByteForByte`: `NoopInv` is `NoopTypeOK`, `Buffered` (the buffer is the last
  chunk, and what was taken of it is what `write_all` has counted) and `Printed`
  (what stdout and stderr have).
- `RunsOneOfThem`: the run's specification implements those of `strlcat` and of
  `noop`, so that the theorems about each hold of it.

**headers** (`HeadersToolProofs`). For every input, every cut of its texts, every
buffer size and descriptor limit. `KeepsToPipes` is the refinement: every step of
the tool and its command is one of `Pipes` or leaves the handle alone. By it the
handle's `IInv` holds of the tool (`HandleInvariant`), and on top of that `ToolInv`
is inductive: `Control` (in which state the handle is, in which call, at each `pc`),
`ReasonsDue` (what is still to come of a reason phrase is no longer than all of it)
and `OnTheWay` (bytes are between the tool and stdout only while `pipe_reset` waits
for the command that has them). `OnTheWay` is where the handle's invariant is
needed: a command that exits has read its input to the end, as no one else holds a
write end. From it follow `TypeCorrect`, `FlushedBetweenCalls` (`HeadsAreFlushed`)
and `NoCommandLeft` (`LeavesNoCommand`). `TypeCorrect` contains `StaysInCopies`: the
only text that has the tool write behind its copy of the URL is a reason phrase of
`URL_MAX` or more, and `ReasonsDue` is what makes that true of a phrase in pieces.

`InOrder` (`OutputInOrder`) and `ExitIsPrinted` (`ExitMeansPrinted`) are about what
the tool is for. Their hypothesis `WholeTexts` is that no read ends within a text:
without it the statement is false, as the run `headers_split` shows. The properties
themselves have three conditions: the copies of URL and start line are long enough
(`Fits`), each response has a reason phrase and no message trailing fields
(`PlainMessages`), and no command has quit. The inductive invariant is `OrderInv`:

- `Somewhere`: the tool is before a message, before a field of a head, between a
  name and its value, or before a piece of a body; the callbacks to come are those
  of the rest of the input from there; and what was sent (`Sent`: stdout, and what
  the command still has), what the string buffer holds and what that rest will
  print make what the whole input should print. Each callback moves from one of
  these places to the next, by the lemmas on the first element of a sequence;
- `FdPipeIsKept`: the number kept in `fd_pipe` since the first `pipe_open` is the
  write end of the pipe of today. `pipe(2)` gives the lowest numbers that are free,
  and between two opens nothing else is opened or closed, since nothing is logged
  when the copies fit; so it gives the same two numbers again (`OpenedPipe`).
  Without this a head would go to a closed descriptor, as in `headers_stale_fd`;
- stdout with what the command has is a prefix of what is expected, which is kept
  also when the tool is killed.

A head that was written reaches stdout before the body behind it because
`HeadsAreFlushed` holds when the callback for the body comes. For the exit code,
`EndsAtTheEnd` says that a tool on its way to `EX_OK` has had every callback unless
the input was cut off; of all the places only the one behind the last message has
none left.

**body** (`BodyToolProofs`). The same, for commands of every `GROWTH` and pipes of
every capacity. `KeepsToPipes` also says that, as long as no read of the drain
loop has failed, the tool is the stricter client of `Pipes`, which closes only what
it has read to its end; the invariant for it is `Control /\ ReadToTheEnd`.
`TypeCorrect` includes `PositionIsOfThisHead`: when a message is to be piped and
nothing of its head is held, no position of a length is. Without the first
condition it is false: a body that is not piped has its head printed before it,
and `content_length_at` keeps a position in that head until the end of the message
(`body.c:363`, `465`). If a trailing Content-Type then has the message piped
after all, the position can be behind the end of what is held; the invariant is
what bounds it otherwise. It also contains `StaysInBlocks`, which of all texts can
have the tool write behind the blocks of the URL and of the start line; it is
inductive with `TextsDue`, which says that what is kept of a text and what is still
to come of one are no longer than all of it. `NoCommandLeft` follows as for `headers`.

`InOrder` (`OutputInOrder`) and `ExitIsPrinted` (`ExitMeansPrinted`) say the same of
`body` as of `headers`, again for `WholeTexts`, for texts that fit their blocks (`Fits`), and for every
filter. Here the head
is printed *behind* the body that was piped, when the length of what the command
made of it is known. The properties are about messages the callbacks are written
for (`AllRegular`, section 3) and inputs in which nothing in `mishaps` happened. The
invariant is in two parts.

- `CommandInv`, whatever the input and the mishaps: a command that runs holds the
  write end of its output, so that the drain loop cannot see an end of file before
  the command has printed all; one that is gone leaves nothing unread in the pipe
  and nothing it took unprinted; and `write_all` has given away all it was called
  with when the next callback comes. Without the first, which rests on the handle's
  `IInv`, the body that is printed could lack its end.
- `OrderInv`: where the tool is in the input, for each `pc`: before a message, in its
  head, between a name and its value, in a body that is piped, in one that is
  copied, or behind one that was sent to the command. Of the head it says, for
  *every* length the body may turn out to have, that `Marked` (the head as
  `NewHeaders` would print it with that length) is what is expected for the fields
  read so far: so the position of a Content-Length is right although what will be
  put there is not known, and although more is appended behind it. Of a piped body
  it says that `Coming` (what the tool has read back, what is in the pipe back, what
  the command took, and the filter of what is still before the command) with the
  filter of what is still to be given is the filter of the whole: each of the five
  steps that move bytes along takes from one of these what it gives to the next.
  When a drain ends all is in `body`, and its length the one the head gets.

`LengthsRight` (`LengthIsRight`) needs neither whole texts nor the absence of
mishaps: each length on stdout has that much of the command's output behind its
head, and then the next message or nothing, also when a command quits, a fork or a
read fails, or the tool dies. `OrderInv` says nothing of such runs, so there is an
invariant of its own, `LengthInv`:

- `LengthsAhead`: wherever a name that can be taken for Content-Length is still to
  come, the rest of its head, its blank line and its body are to come behind it, and
  only then the next message; `BodiesBehindHeads` is the like for bodies. They are
  about the callbacks alone, and are kept when one is delivered, whole or in pieces;
- `LengthPlace`: when the position of a length is kept, either the head goes on (and
  what is held behind the position has no blank line yet) or the body does (and, if
  it is piped, what is held ends with the only blank line behind the position). The
  length is put there when the body has been drained, so the blank line found behind
  it is that of its own head;
- `HeadBeforeBody`: a piece of a body comes while its head is held, or when every
  length printed has its whole body and something of the next message behind it;
- `StatusStarts`: a start line that is held begins with the atom that begins a message;
- `AllRight(stdout)`, the property itself, and that what is in `body`, in the pipe
  back and on its way there is of the command.

Each print is `stdout \o out` where `out` is right by itself and either begins a
message or follows bodies that are complete (`RightAppended`). An earlier form of the
property had no condition on a Content-Length in the *head* of a message with trailing
fields. The run has no such message, and the proof did not go through: of such a
message the property is false.

**log and the parser** (`LogToolProofs`). For every input of atoms the switch
knows, well-formed or not, cut anywhere, every `ULLONG_MAX` from 16 on and every
buffer size. The parser's invariant is `ParserInv`:

- `MarksOK`: which mark can be set in which state; none between two calls, since a
  buffer's end delivers what is marked;
- `ChunkSizeIsRead`: a length is known in the states that read the size of a chunk;
- `BodyIsKnown`: it is not 0, and neither wrapped nor "none", in a state that counts
  a body down;
- `InnerCaseExists`: the nested switches on `header_state` have a case.

One lemma for each group of the switch's cases shows that a step preserves it.
`AssertionsHold` (`ParserAssertions`) follows. `ToolInv` adds that the copies of
the fields and a line are within their buffers, which rests on `strlcat` as
`UtilProofs` has it, that the copy of the URL is as well or `overrun` says that it
is not, and that nothing is left to be parsed between two reads.
`NothingIsLost` says that stdout, the buffer that is about to be written and what
was not read are the input as long as no call of the parser has returned early;
`InputIsCopied` (`CopiesInput`) follows.

`OwnFieldsLogged` (`LogsOwnFields`) is about `-v`. Its hypothesis is
`DeliversInOrder`, that the parser makes the callbacks of `CallbackStream`; TLC finds
it in every behaviour of `log_tool`, and nothing else of the parser is used. The
theorem is what the hypothesis is worth to a client: for every input, every cut into
pieces and every size of the copy, what `strlcat` has put together when a message is
complete are the names and values of that message and of no other, all of them or,
when the copy is full, a beginning. The invariant, `FieldsInv`, has witnesses for
where the stream is (`FieldsAt`): the callback that is due, what of its text was
given, and the first callback of the message; the copy `Keeps` the texts of the
fields from there on. `KeepsMore` is the step: a copy that keeps some texts keeps them
with one more when `strlcat` appends that, since a copy that is full stays full.
That an input's callbacks have, for each message, the texts of its fields is
`CallsAssumption`, which TLC evaluates for the inputs of the run.

**Assumptions.** Those on constants are named in the module that declares them and
evaluated by TLC in the runs. `LiteralAssumption` of the three tools says that a few
string literals are strings, which the provers do not know. `CallsAssumption` of
`LogTool` is about how an input is listed: its callbacks have the texts of its
messages' fields. `OwnFieldsLogged` is the one theorem with a hypothesis that is
itself a property of a run, `DeliversInOrder`.

**Only model-checked.** Liveness (`CloseReturns`, `DrainEnds`, `Terminates`):
fairness and ENABLED are beyond the prover. `Verdict`, `LogsEachMessage` and
`DeliversInOrder`: they relate the parser's run on the bytes to the callbacks an
input is listed with; the proof would have to say for every state of the automaton
what message it is in the middle of, and the inputs would need a grammar.
`LogsEachMessage` does not follow from `DeliversInOrder` as `LogsOwnFields` does: the
line has the method, version and status, which are in the parser's record and in no
callback.

## 5. Plan

Done, in this order: `Pipes`, `PipesProofs`; `Util`, `StreamBuffer`, `ByteQueue`
and its proofs; `Callbacks`; `HeadersTool`; `BodyTool`; `HttpParser`, `LogTool`,
`CallbackStream`; `Noop`, `Strlcat`; failed reads in `BodyTool`; the proofs about
both tools and their handles; about `log` and the parser; about the utilities and
`noop`; about what `headers` and `body` print; about the lengths `body` prints; about the
fields `log` reports.

Next:

1. `DeliversInOrder` and `LogsEachMessage` for inputs given by a grammar.
2. `write_all`'s failures in `headers` and `body`; out of memory in
   `stream_buffer_add`.

Not planned: `connect.c` and the Perl prototypes (not built), option parsing and
message wording (no state the properties tell apart), `stream_buffer_delete`
(frees), `http_parser_parse_url` and the other parts of the parser that no tool
uses, the contents of the log messages.
