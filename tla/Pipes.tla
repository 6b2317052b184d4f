------------------------------- MODULE Pipes -------------------------------
(***************************************************************************)
(* The pipe handle of pipes.c: one parent process that opens a pipe to a   *)
(* shell command, closes it, waits for the command and opens it again.     *)
(*                                                                         *)
(* A descriptor table maps each descriptor number to what it is open on.   *)
(* The parent's is fds, the running command's is cfds; the command's is a  *)
(* copy of the parent's taken by fork(2).  The kernel's part (the lowest   *)
(* free number is allocated, end of file needs every writer to be closed,  *)
(* a writer with no reader left is killed) and syslog's socket, which      *)
(* vsyslog(3) opens at the first message it really sends, are external.    *)
(*                                                                         *)
(* Bytes are not modelled here: a command is "blocked" when it has written *)
(* more than its output pipe holds.                                        *)
(***************************************************************************)
EXTENDS Integers

CONSTANTS
  MaxFd,             \* the highest descriptor number (RLIMIT_NOFILE - 1)
  MaxOpens,          \* bound on the number of pipes opened
  ForkMayFail,       \* whether fork(2) may fail
  DrainsBeforeClose  \* whether the caller reads to end of file before it
                     \* closes a handle it sent EOF on

ASSUME FdAssumption == MaxFd \in Nat /\ MaxFd > 2
ASSUME OpensAssumption == MaxOpens \in Nat
ASSUME ClientAssumption ==
  ForkMayFail \in BOOLEAN /\ DrainsBeforeClose \in BOOLEAN

VARIABLES
  state,       \* ph->state
  child_pid,   \* ph->child_pid
  pipe_fds,    \* ph->pipe_fds
  bipipe_fds,  \* ph->bipipe_fds
  call,        \* the call the parent is blocked in, "none" between calls
  old_state,   \* pipe_reset's local variable
  eof_read,    \* the caller's read(pipe_read_fileno) has returned 0
  fds,         \* the parent's descriptor table
  proc,        \* pid of the child that exists, 0 if there is none
  proc_state,  \* how far that child has come
  cfds,        \* the child's descriptor table
  opens,       \* number of pipes opened so far; also the last pid
  failed,      \* history: the opens that returned -1
  widowed      \* history: the opens that pipe_send_eof was called on

handle == <<state, child_pid, pipe_fds, bipipe_fds>>
process == <<proc, proc_state, cfds>>
history == <<opens, failed, widowed>>
vars == <<handle, call, old_state, eof_read, fds, process, history>>

-----------------------------------------------------------------------------
Fd == 0 .. MaxFd

States == {"PIPES_CLOSED", "PIPES_OPENING", "PIPES_OPEN_UNI",
           "PIPES_OPEN_BI", "PIPES_WIDOWED"}

\* What a descriptor is open on.  End("in", n, e) is an end of the n-th
\* pipe to a command, End("out", n, e) of the one back from it.
Entry(kind, open, end) == [kind |-> kind, open |-> open, end |-> end]
Free == Entry("free", 0, "-")
Std  == Entry("std", 0, "-")
Log  == Entry("log", 0, "-")
End(kind, open, end) == Entry(kind, open, end)

Entries == [kind : {"free", "std", "log", "in", "out"},
            open : 0 .. MaxOpens, end : {"-", "r", "w"}]

NoFds == [d \in Fd |-> Free]

Holds(table, entry) == \E d \in Fd : table[d] = entry
Held(entry) == Holds(fds, entry) \/ Holds(cfds, entry)

Lowest(table, d) == /\ table[d] = Free
                    /\ \A e \in Fd : e < d => table[e] # Free

\* The two numbers pipe(2) allocates, and whether it fails with EMFILE.
IsPipe(table, r, w) == /\ Lowest(table, r)
                       /\ table[w] = Free
                       /\ r < w
                       /\ \A e \in Fd : e < w /\ e # r => table[e] # Free
NoPipe(table) == \A r, w \in Fd : ~IsPipe(table, r, w)

Ends(r, w) == [i \in {0, 1} |-> IF i = 0 THEN r ELSE w]

WithPipe(table, kind, r, w) ==
  [table EXCEPT ![r] = End(kind, opens + 1, "r"),
                ![w] = End(kind, opens + 1, "w")]

\* The ends the parent closes after a successful fork.
ParentSetUpWrongEnd(table, in) == [table EXCEPT ![in[1]] = Free]
ParentSetUp(table, in) == [table EXCEPT ![in[0]] = Free]

ParentSetUp2KeepsRead(table, in, out) == [table EXCEPT ![out[1]] = Free]
ParentSetUp2KeepsWrite(table, in, out) == [table EXCEPT ![in[0]] = Free]
ParentSetUp2(table, in, out) ==
  [table EXCEPT ![in[0]] = Free, ![out[1]] = Free]

\* The child closes the parent's ends and dup2s its own onto 0 and 1.
ChildClosesNothing(table) == table
ChildCloses(table) == [table EXCEPT ![pipe_fds[1]] = Free]

ChildCloses2KeepsWrite(table) == [table EXCEPT ![bipipe_fds[0]] = Free]
ChildCloses2KeepsRead(table) == [table EXCEPT ![pipe_fds[1]] = Free]
ChildCloses2(table) ==
  [table EXCEPT ![pipe_fds[1]] = Free, ![bipipe_fds[0]] = Free]

ChildDups(table) == [table EXCEPT ![0] = table[pipe_fds[0]]]
ChildDups2(table) ==
  [table EXCEPT ![0] = table[pipe_fds[0]], ![1] = table[bipipe_fds[1]]]

\* execl: syslog's socket is close-on-exec.
Exec(table) == [d \in Fd |-> IF table[d] = Log THEN Free ELSE table[d]]

-----------------------------------------------------------------------------
\* pipe_handle_new.
Init ==
  /\ state = "PIPES_CLOSED"
  /\ child_pid = 0
  /\ pipe_fds = Ends(0, 1)
  /\ bipipe_fds = Ends(0, 0)
  /\ call = "none"
  /\ old_state = "PIPES_CLOSED"
  /\ eof_read = FALSE
  /\ fds = [d \in Fd |-> IF d <= 2 THEN Std ELSE Free]
  /\ proc = 0
  /\ proc_state = "none"
  /\ cfds = NoFds
  /\ opens = 0
  /\ failed = {}
  /\ widowed = {}

\* pipe_open and pipe_open2 are called by the client, or by pipe_reset
\* for the direction it remembered.
MayOpen(direction) ==
  /\ state = "PIPES_CLOSED"
  /\ opens < MaxOpens
  /\ call = "none" \/ call = direction

\* pipe(2) failed: the handle is left as it was.
OpenFails ==
  /\ NoPipe(fds)
  /\ UNCHANGED <<handle, fds, process, history>>

\* fork(2) failed: the ends stay open and the state stays PIPES_OPENING.
ForkFails(table) ==
  /\ ForkMayFail
  /\ state' = "PIPES_OPENING"
  /\ child_pid' = -1
  /\ fds' = table
  /\ failed' = failed \union {opens + 1}
  /\ UNCHANGED process

\* fork(2) succeeded: the child starts with a copy of the table, the parent
\* goes on to open_state.
Forks(table, parent_table, child_state, open_state) ==
  /\ state' = open_state
  /\ child_pid' = opens + 1
  /\ fds' = parent_table
  /\ proc' = opens + 1
  /\ proc_state' = child_state
  /\ cfds' = table
  /\ UNCHANGED failed

PipeOpen ==
  /\ MayOpen("reopen_uni")
  /\ call' = "none"
  /\ eof_read' = FALSE
  /\ \/ OpenFails
     \/ \E r, w \in Fd :
          LET table == WithPipe(fds, "in", r, w) IN
          /\ IsPipe(fds, r, w)
          /\ pipe_fds' = Ends(r, w)
          /\ opens' = opens + 1
          /\ ForkFails(table) \/ Forks(table, ParentSetUp(table, Ends(r, w)),
                                       "in_open", "PIPES_OPEN_UNI")
          /\ UNCHANGED <<bipipe_fds, widowed>>
  /\ UNCHANGED old_state

PipeOpen2 ==
  /\ MayOpen("reopen_bi")
  /\ call' = "none"
  /\ eof_read' = FALSE
  /\ \/ OpenFails
     \/ \E r, w \in Fd :
          LET table == WithPipe(fds, "in", r, w) IN
          /\ IsPipe(fds, r, w)
          /\ pipe_fds' = Ends(r, w)
          /\ opens' = opens + 1
          /\ UNCHANGED widowed
          /\ \/ /\ NoPipe(table)  \* the second pipe fails
                /\ fds' = table
                /\ failed' = failed \union {opens + 1}
                /\ UNCHANGED <<state, child_pid, bipipe_fds, process>>
             \/ \E r2, w2 \in Fd :
                  LET table2 == WithPipe(table, "out", r2, w2) IN
                  /\ IsPipe(table, r2, w2)
                  /\ bipipe_fds' = Ends(r2, w2)
                  /\ \/ ForkFails(table2)
                     \/ Forks(table2, ParentSetUp2(table2, Ends(r, w), Ends(r2, w2)),
                              "in_open2", "PIPES_OPEN_BI")
  /\ UNCHANGED old_state

PipeSendEof ==
  /\ call = "none"
  /\ state = "PIPES_OPEN_BI"
  /\ fds' = [fds EXCEPT ![pipe_fds[1]] = Free]
  /\ state' = "PIPES_WIDOWED"
  /\ widowed' = widowed \union {opens}
  /\ UNCHANGED <<child_pid, pipe_fds, bipipe_fds, call, old_state, eof_read,
                 process, opens, failed>>

\* The caller's read loop on pipe_read_fileno: a read that takes data lets
\* a blocked command go on, a read that returns 0 found no writer left.
MayRead == /\ call = "none"
           /\ state \in {"PIPES_OPEN_BI", "PIPES_WIDOWED"}

ReadData ==
  /\ MayRead
  /\ proc_state = "blocked"
  /\ proc_state' = "running"
  /\ UNCHANGED <<handle, call, old_state, eof_read, fds, proc, cfds, history>>

ReadEof ==
  /\ MayRead
  /\ ~eof_read
  /\ ~Held(End("out", opens, "w"))
  /\ eof_read' = TRUE
  /\ UNCHANGED <<handle, call, old_state, fds, process, history>>

-----------------------------------------------------------------------------
\* pipe_close up to its waitpid: the table it leaves.  A widowed handle has
\* its write end closed a second time, and its read end not at all.
CloseEndsWriteOnly(table) == [table EXCEPT ![pipe_fds[1]] = Free]

CloseEnds(table) ==
  LET one == [table EXCEPT ![pipe_fds[1]] = Free] IN
  IF state = "PIPES_OPEN_BI" THEN [one EXCEPT ![bipipe_fds[0]] = Free]
                             ELSE one

\* pipe_close as called by each of its callers, who then wait in waitpid.
BeginClose(caller) ==
  /\ call = "none"
  /\ state # "PIPES_CLOSED"
  /\ DrainsBeforeClose /\ state = "PIPES_WIDOWED" => eof_read
  /\ fds' = CloseEnds(fds)
  /\ call' = caller
  /\ UNCHANGED <<handle, eof_read, process, history>>

PipeClose == BeginClose("pipe_close") /\ UNCHANGED old_state

PipeReset ==
  /\ opens < MaxOpens
  /\ BeginClose("pipe_reset")
  /\ old_state' = state

PipeHandleDeleteAlwaysCloses ==
  /\ call = "none"
  /\ fds' = CloseEnds(fds)
  /\ call' = "pipe_handle_delete"
  /\ UNCHANGED <<handle, old_state, eof_read, process, history>>

PipeHandleDelete ==
  \/ /\ call = "none"
     /\ state = "PIPES_CLOSED"
     /\ call' = "freed"
     /\ UNCHANGED <<handle, old_state, eof_read, fds, process, history>>
  \/ BeginClose("pipe_handle_delete") /\ UNCHANGED old_state

Waiting == call \in {"pipe_close", "pipe_reset", "pipe_handle_delete"}

\* What the caller of pipe_close goes on to once it has returned.
AfterClose ==
  CASE call = "pipe_close" -> "none"
    [] call = "pipe_handle_delete" -> "freed"
    [] call = "pipe_reset" ->
         CASE old_state = "PIPES_OPEN_UNI" -> "reopen_uni"
           [] old_state \in {"PIPES_OPEN_BI", "PIPES_WIDOWED"} -> "reopen_bi"
           [] OTHER -> "none"

\* The rest of pipe_close: waitpid blocks until the child has exited, and
\* fails with ECHILD when there is none (a fork that failed left -1).
WaitpidNoHang ==
  /\ Waiting
  /\ IF proc_state = "zombie" THEN proc' = 0 /\ proc_state' = "none"
                              ELSE UNCHANGED <<proc, proc_state>>
  /\ state' = "PIPES_CLOSED"
  /\ call' = AfterClose
  /\ UNCHANGED <<child_pid, pipe_fds, bipipe_fds, old_state, eof_read, fds,
                 cfds, history>>

Waitpid ==
  /\ Waiting
  /\ \/ /\ proc_state = "zombie"
        /\ child_pid \in {proc, -1}
        /\ proc' = 0
        /\ proc_state' = "none"
     \/ /\ child_pid # proc
        /\ child_pid = -1 => proc = 0
        /\ UNCHANGED <<proc, proc_state>>
  /\ state' = "PIPES_CLOSED"
  /\ call' = AfterClose
  /\ UNCHANGED <<child_pid, pipe_fds, bipipe_fds, old_state, eof_read, fds,
                 cfds, history>>

-----------------------------------------------------------------------------
\* The child.  It uses the handle's numbers as they were at the fork; the
\* parent does not change them before it has reaped the child.
ChildSetUp ==
  /\ \/ proc_state = "in_open" /\ cfds' = Exec(ChildDups(ChildCloses(cfds)))
     \/ proc_state = "in_open2" /\ cfds' = Exec(ChildDups2(ChildCloses2(cfds)))
  /\ proc_state' = "running"
  /\ UNCHANGED <<handle, call, old_state, eof_read, fds, proc, history>>

Exits == /\ proc_state' = "zombie"
         /\ cfds' = NoFds
         /\ UNCHANGED <<handle, call, old_state, eof_read, fds, proc, history>>

\* abort() after a failed dup2 or execl.
ChildAborts == proc_state \in {"in_open", "in_open2"} /\ Exits

\* The command exits when it reads the end of its input ...
ChildExitsOnEof ==
  /\ proc_state = "running"
  /\ ~Held(End("in", proc, "w"))
  /\ Exits

\* ... or before that, of its own accord.
ChildExitsEarly == proc_state = "running" /\ Exits

\* It fills its output pipe; with no reader left it is killed instead.
ChildBlocks ==
  /\ proc_state = "running"
  /\ cfds[1] = End("out", proc, "w")
  /\ Held(End("out", proc, "r"))
  /\ proc_state' = "blocked"
  /\ UNCHANGED <<handle, call, old_state, eof_read, fds, proc, cfds, history>>

ChildKilled ==
  /\ proc_state = "blocked"
  /\ ~Held(End("out", proc, "r"))
  /\ Exits

-----------------------------------------------------------------------------
\* vsyslog connects at the first message its mask lets through; closelog.
LogConnect ==
  /\ ~Holds(fds, Log)
  /\ \E d \in Fd : Lowest(fds, d) /\ fds' = [fds EXCEPT ![d] = Log]
  /\ UNCHANGED <<handle, call, old_state, eof_read, process, history>>

LogClose ==
  /\ Holds(fds, Log)
  /\ fds' = Exec(fds)
  /\ UNCHANGED <<handle, call, old_state, eof_read, process, history>>

\* Nothing is left to do with a handle that has been freed.
Done == call = "freed" /\ UNCHANGED vars

-----------------------------------------------------------------------------
Next ==
  \/ PipeOpen \/ PipeOpen2 \/ PipeSendEof \/ ReadData \/ ReadEof
  \/ PipeClose \/ PipeReset \/ PipeHandleDelete \/ Waitpid
  \/ ChildSetUp \/ ChildAborts \/ ChildExitsOnEof \/ ChildExitsEarly
  \/ ChildBlocks \/ ChildKilled
  \/ LogConnect \/ LogClose
  \/ Done

\* A call runs on until it returns, the kernel schedules the child, and a
\* command that goes on getting end of file and room for its output ends
\* (its output is finite).
Fairness ==
  /\ WF_vars(Waitpid)
  /\ WF_vars(call # "none" /\ (PipeOpen \/ PipeOpen2))
  /\ WF_vars(ChildSetUp)
  /\ WF_vars(ChildKilled)
  /\ SF_vars(ChildExitsOnEof)

\* A caller that has sent EOF reads until it gets one (body.c does).
Reader == WF_vars(ReadData) /\ WF_vars(ReadEof)

Spec == Init /\ [][Next]_vars
FairSpec == Spec /\ Fairness /\ Reader

-----------------------------------------------------------------------------
TypeOK ==
  /\ state \in States
  /\ opens \in 0 .. MaxOpens
  /\ child_pid \in -1 .. opens
  /\ pipe_fds \in [{0, 1} -> Fd]
  /\ bipipe_fds \in [{0, 1} -> Fd]
  /\ call \in {"none", "reopen_uni", "reopen_bi", "freed",
               "pipe_close", "pipe_reset", "pipe_handle_delete"}
  /\ old_state \in States
  /\ eof_read \in BOOLEAN
  /\ fds \in [Fd -> Entries]
  /\ cfds \in [Fd -> Entries]
  /\ proc \in 0 .. opens
  /\ proc_state \in {"none", "in_open", "in_open2", "running", "blocked",
                     "zombie"}
  /\ failed \subseteq 1 .. opens
  /\ widowed \subseteq 1 .. opens

\* A handle that was never opened holds descriptors 0 and 1, and a handle
\* closed twice holds stale ones: closing it must not close stdio.
StdioUntouched == \A d \in 0 .. 2 : fds[d] = Std

\* Between calls the numbers in an open handle are open in the parent on the
\* ends of the last pipe opened, not on a number reused by something else.
HandleOwnsItsEnds ==
  call = "none" =>
    /\ state \in {"PIPES_OPEN_UNI", "PIPES_OPEN_BI"} =>
         fds[pipe_fds[1]] = End("in", child_pid, "w")
    /\ state \in {"PIPES_OPEN_BI", "PIPES_WIDOWED"} =>
         fds[bipipe_fds[0]] = End("out", child_pid, "r")

\* After pipe_send_eof, and while pipe_close waits, nobody, not even the
\* command itself, holds a write end of the command's input, so that
\* it can get end of file.
EofReachesChild ==
  /\ Waiting \/ state = "PIPES_WIDOWED"
  /\ proc_state \in {"running", "blocked"}
  => ~Held(End("in", proc, "w"))

\* Once the command has exited, the parent itself does not keep its output
\* open: the parent's read loop gets end of file.
EofReachesParent ==
  child_pid = opens /\ proc_state \in {"none", "zombie"} =>
    ~Held(End("out", opens, "w"))

\* The child that exists is the one the open handle names: none is left
\* running or unreaped behind a closed or a freed handle.
NoOrphan ==
  proc # 0 => /\ proc = child_pid
              /\ state \notin {"PIPES_CLOSED", "PIPES_OPENING"}
              /\ call # "freed"

\* What the parent still holds of earlier pipes comes from an open that
\* failed, or is the read end pipe_close leaves open after pipe_send_eof.
LeakOrigin ==
  \A d \in Fd : fds[d].kind \in {"in", "out"} =>
    \/ fds[d].open = opens /\ state # "PIPES_CLOSED"
    \/ fds[d].open \in failed
    \/ fds[d].open \in widowed /\ fds[d] = End("out", fds[d].open, "r")

\* pipe_close closes the write end of a widowed handle a second time.  It
\* never closes a number that something else was given in between.
ClosesOnlyItsOwnEnds ==
  [][call = "none" /\ Waiting' =>
       \A d \in Fd : fds'[d] # fds[d] =>
         fds[d] \in {End("in", opens, "w"), End("out", opens, "r")}]_vars

\* pipe_close, pipe_reset and pipe_handle_delete return, if the caller has
\* read a widowed handle's output to its end first: their waitpid waits for
\* a command that waits for nothing of the parent's.
CloseReturns ==
  Waiting /\ (state = "PIPES_WIDOWED" => eof_read) ~> call \in {"none", "freed"}

\* Reading to end of file after pipe_send_eof ends.
DrainEnds == state = "PIPES_WIDOWED" /\ call = "none" ~> eof_read \/ Waiting

-----------------------------------------------------------------------------
(***************************************************************************)
(* The inductive invariant the safety properties follow from.              *)
(***************************************************************************)
Opened == state \in {"PIPES_OPEN_UNI", "PIPES_OPEN_BI", "PIPES_WIDOWED"}
Bi == state \in {"PIPES_OPEN_BI", "PIPES_WIDOWED"}

IsEnd(entry) == entry.kind \in {"in", "out"}

\* Which calls can be in progress in which state.
CallOK == /\ call \in {"reopen_uni", "reopen_bi", "freed"} =>
                state = "PIPES_CLOSED"
          /\ Waiting => state # "PIPES_CLOSED"
          /\ state # "PIPES_CLOSED" => opens > 0

\* pipe(2) hands out the numbers of a handle in increasing order.
NumbersOK ==
  /\ state # "PIPES_CLOSED" => 2 < pipe_fds[0] /\ pipe_fds[0] < pipe_fds[1]
  /\ Bi => pipe_fds[1] < bipipe_fds[0] /\ bipipe_fds[0] < bipipe_fds[1]

\* A child exists from a successful fork until it is reaped.
ProcOK ==
  /\ Opened => proc = opens /\ child_pid = opens
  /\ ~Opened => proc = 0
  /\ proc = 0 <=> proc_state = "none"
  /\ state = "PIPES_OPENING" => child_pid = -1 /\ opens \in failed
  /\ state = "PIPES_WIDOWED" => opens \in widowed

\* The only foreign descriptor is syslog's.  The lowest number the handle
\* gave back is the one of its read end, so that syslog's socket can be on
\* that number but never on the number pipe_close closes again.
SlotsOK ==
  /\ \A d, e \in Fd : fds[d] = Log /\ fds[e] = Log => d = e
  /\ Opened => fds[pipe_fds[0]] \in {Free, Log}
  /\ state = "PIPES_WIDOWED" => fds[pipe_fds[1]] = Free

\* The parent holds the ends its handle names until it begins to close.
HeldOK ==
  call = "none" =>
    /\ state \in {"PIPES_OPENING", "PIPES_OPEN_UNI", "PIPES_OPEN_BI"} =>
         fds[pipe_fds[1]] = End("in", opens, "w")
    /\ Bi => fds[bipipe_fds[0]] = End("out", opens, "r")

\* And no other end of the last pipe: none of those it gave to the child,
\* and while it waits none at all but a widowed handle's read end.
EndsOK ==
  /\ \A d \in Fd : fds[d].open <= opens /\ (IsEnd(fds[d]) => fds[d].open > 0)
  /\ Opened => \A d \in Fd : IsEnd(fds[d]) /\ fds[d].open = opens =>
        \/ d = pipe_fds[1] /\ fds[d] = End("in", opens, "w") /\ ~Waiting
        \/ /\ Bi /\ d = bipipe_fds[0] /\ fds[d] = End("out", opens, "r")
           /\ ~(Waiting /\ state = "PIPES_OPEN_BI")
  /\ child_pid = opens => \A d \in Fd : fds[d] # End("out", opens, "w")

\* The child holds both ends of its input until it has set up its own.
ChildOK ==
  /\ proc_state = "in_open" => state = "PIPES_OPEN_UNI"
  /\ proc_state = "in_open2" => Bi /\ cfds[bipipe_fds[1]] = End("out", proc, "w")
  /\ proc_state \in {"in_open", "in_open2"} =>
       /\ cfds[pipe_fds[0]] = End("in", proc, "r")
       /\ \A d \in Fd : cfds[d] = End("in", proc, "w") => d = pipe_fds[1]
  /\ proc_state \in {"running", "blocked"} =>
       \A d \in Fd : cfds[d] # End("in", proc, "w")
  /\ proc_state \in {"none", "zombie"} => cfds = NoFds

\* The strengthening of the safety properties that every step preserves.
IInv == /\ TypeOK /\ StdioUntouched /\ CallOK /\ NumbersOK /\ ProcOK
        /\ SlotsOK /\ HeldOK /\ EndsOK /\ ChildOK /\ LeakOrigin
=============================================================================
