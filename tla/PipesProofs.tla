---------------------------- MODULE PipesProofs ----------------------------
(***************************************************************************)
(* The safety properties of Pipes hold for every number of descriptors and *)
(* of opens, whether or not fork fails and the caller drains the pipe.     *)
(***************************************************************************)
EXTENDS Pipes, TLAPS

\* What an end of a pipe is, and that it is none of the other entries.
LEMMA EntryFacts ==
  /\ Free # Std /\ Free # Log /\ Std # Log
  /\ Free \in Entries /\ Std \in Entries /\ Log \in Entries
  /\ Free.open = 0 /\ Std.open = 0 /\ Log.open = 0
  /\ ~IsEnd(Free) /\ ~IsEnd(Std) /\ ~IsEnd(Log)
  /\ \A kind \in {"in", "out"}, open \in 0 .. MaxOpens, end \in {"r", "w"} :
       /\ End(kind, open, end) \in Entries
       /\ IsEnd(End(kind, open, end))
       /\ End(kind, open, end).kind = kind
       /\ End(kind, open, end).open = open
       /\ End(kind, open, end).end = end
BY OpensAssumption DEF Free, Std, Log, End, Entry, Entries, IsEnd

LEMMA InitInv == Init => IInv
<1> SUFFICES ASSUME Init PROVE IInv
  OBVIOUS
<1> USE FdAssumption, OpensAssumption DEF Init, Fd
<1>1. \A d \in Fd : fds[d] \in {Std, Free}
  OBVIOUS
<1>2. TypeOK
  <2>1. pipe_fds \in [{0, 1} -> Fd] /\ bipipe_fds \in [{0, 1} -> Fd]
    BY DEF Ends
  <2>2. fds \in [Fd -> Entries] /\ cfds \in [Fd -> Entries]
    BY EntryFacts DEF NoFds
  <2>3. opens \in 0 .. MaxOpens /\ proc \in 0 .. opens
    OBVIOUS
  <2>4. child_pid \in -1 .. opens
    OBVIOUS
  <2>5. failed \subseteq 1 .. opens /\ widowed \subseteq 1 .. opens
    OBVIOUS
  <2> QED
    BY <2>1, <2>2, <2>3, <2>4, <2>5 DEF TypeOK, States
<1>3. StdioUntouched
  BY DEF StdioUntouched
<1>4. CallOK /\ NumbersOK /\ ProcOK
  BY DEF CallOK, Waiting, NumbersOK, Bi, ProcOK, Opened
<1>5. SlotsOK /\ HeldOK
  BY <1>1, EntryFacts DEF SlotsOK, HeldOK, Opened, Bi
<1>6. EndsOK
  BY <1>1, EntryFacts DEF EndsOK, Opened, IsEnd, End, Entry, Free, Std
<1>7. ChildOK
  BY DEF ChildOK
<1>8. LeakOrigin
  BY <1>1, EntryFacts DEF LeakOrigin, IsEnd
<1> QED
  BY <1>2, <1>3, <1>4, <1>5, <1>6, <1>7, <1>8 DEF IInv

-----------------------------------------------------------------------------
\* The parent's calls that do not open a pipe.
LEMMA SendEofInv == IInv /\ PipeSendEof => IInv'
<1> SUFFICES ASSUME IInv, PipeSendEof PROVE IInv'
  OBVIOUS
<1> USE FdAssumption, OpensAssumption, EntryFacts
    DEF IInv, PipeSendEof, process
<1>1. /\ pipe_fds[1] \in Fd /\ bipipe_fds[0] \in Fd /\ pipe_fds[0] \in Fd
      /\ fds \in [Fd -> Entries]
      /\ fds' = [fds EXCEPT ![pipe_fds[1]] = Free]
      /\ 2 < pipe_fds[0] /\ pipe_fds[0] < pipe_fds[1]
      /\ pipe_fds[1] < bipipe_fds[0]
  BY DEF TypeOK, NumbersOK, Bi
<1>2. TypeOK'
  BY <1>1 DEF TypeOK, States, CallOK
<1>3. StdioUntouched'
  BY <1>1 DEF StdioUntouched, Fd
<1>4. CallOK' /\ NumbersOK' /\ ProcOK'
  BY DEF CallOK, Waiting, NumbersOK, Bi, ProcOK, Opened
<1>5. SlotsOK'
  BY <1>1 DEF SlotsOK, Opened
<1>6. HeldOK'
  BY <1>1 DEF HeldOK, Bi, Fd
<1>7. EndsOK'
  BY <1>1 DEF EndsOK, Opened, Waiting, Bi, TypeOK
<1>8. ChildOK'
  BY DEF ChildOK, Bi, NoFds
<1>9. LeakOrigin'
  BY <1>1 DEF LeakOrigin, IsEnd
<1> QED
  BY <1>2, <1>3, <1>4, <1>5, <1>6, <1>7, <1>8, <1>9 DEF IInv

LEMMA ReadInv == IInv /\ (ReadData \/ ReadEof) => IInv'
<1> SUFFICES ASSUME IInv, ReadData \/ ReadEof PROVE IInv'
  OBVIOUS
<1>1. CASE ReadData
  BY <1>1 DEF ReadData, handle, history, IInv, TypeOK, StdioUntouched, CallOK,
     Waiting, NumbersOK, Bi, ProcOK, Opened, SlotsOK, HeldOK, EndsOK, ChildOK,
     LeakOrigin
<1>2. CASE ReadEof
  BY <1>2 DEF ReadEof, handle, process, history, IInv, TypeOK, StdioUntouched,
     CallOK, Waiting, NumbersOK, Bi, ProcOK, Opened, SlotsOK, HeldOK, EndsOK,
     ChildOK, LeakOrigin, NoFds
<1> QED
  BY <1>1, <1>2

\* The table pipe_close leaves differs from the one it found only in the
\* ends the handle holds.
LEMMA CloseFacts ==
  ASSUME IInv, call = "none", state # "PIPES_CLOSED"
  PROVE  /\ CloseEnds(fds) \in [Fd -> Entries]
         /\ \A d \in Fd :
              /\ CloseEnds(fds)[d] # fds[d] =>
                   /\ fds[d] \in {End("in", opens, "w"), End("out", opens, "r")}
                   /\ CloseEnds(fds)[d] = Free
              /\ CloseEnds(fds)[d] = End("in", opens, "w") /\ Opened => FALSE
              /\ CloseEnds(fds)[d] = End("out", opens, "r") =>
                   state # "PIPES_OPEN_BI"
<1> USE FdAssumption, OpensAssumption, EntryFacts DEF IInv
<1>1. /\ pipe_fds[1] \in Fd /\ bipipe_fds[0] \in Fd
      /\ fds \in [Fd -> Entries] /\ opens \in 0 .. MaxOpens
      /\ state # "PIPES_CLOSED" /\ state \in States
  BY DEF TypeOK
<1>2. CloseEnds(fds) \in [Fd -> Entries]
  BY <1>1 DEF CloseEnds
<1>3. /\ state # "PIPES_WIDOWED" => fds[pipe_fds[1]] = End("in", opens, "w")
      /\ state = "PIPES_WIDOWED" => fds[pipe_fds[1]] = Free
      /\ state = "PIPES_OPEN_BI" =>
           fds[bipipe_fds[0]] = End("out", opens, "r")
  BY <1>1 DEF HeldOK, SlotsOK, Bi, States
<1>4. ASSUME NEW d \in Fd, CloseEnds(fds)[d] # fds[d]
      PROVE  /\ fds[d] \in {End("in", opens, "w"), End("out", opens, "r")}
             /\ CloseEnds(fds)[d] = Free
  BY <1>1, <1>3, <1>4 DEF CloseEnds
<1>5. ASSUME NEW d \in Fd, CloseEnds(fds)[d] = End("in", opens, "w"), Opened
      PROVE  FALSE
  <2>1. fds[d] = End("in", opens, "w")
    BY <1>1, <1>4, <1>5
  <2>2. d = pipe_fds[1]
    BY <1>1, <1>5, <2>1 DEF EndsOK
  <2> QED
    BY <1>1, <1>5, <2>2 DEF CloseEnds
<1>6. ASSUME NEW d \in Fd, CloseEnds(fds)[d] = End("out", opens, "r"),
             state = "PIPES_OPEN_BI"
      PROVE  FALSE
  <2>1. fds[d] = End("out", opens, "r")
    BY <1>1, <1>4, <1>6
  <2>2. d = bipipe_fds[0]
    BY <1>1, <1>6, <2>1 DEF EndsOK, Opened
  <2> QED
    BY <1>1, <1>6, <2>2 DEF CloseEnds
<1> QED
  BY <1>2, <1>4, <1>5, <1>6

LEMMA BeginCloseInv ==
  ASSUME NEW caller \in {"pipe_close", "pipe_reset", "pipe_handle_delete"},
         IInv, BeginClose(caller), old_state' \in States
  PROVE  IInv'
<1> USE FdAssumption, OpensAssumption, EntryFacts
    DEF IInv, BeginClose, handle, process, history
<1>1. /\ fds' \in [Fd -> Entries]
      /\ \A d \in Fd :
           /\ fds'[d] # fds[d] =>
                /\ fds[d] \in {End("in", opens, "w"), End("out", opens, "r")}
                /\ fds'[d] = Free
           /\ fds'[d] = End("in", opens, "w") => ~Opened
           /\ fds'[d] = End("out", opens, "r") => state # "PIPES_OPEN_BI"
  BY CloseFacts
<1>2. /\ pipe_fds[0] \in Fd /\ pipe_fds[1] \in Fd /\ bipipe_fds[0] \in Fd
      /\ fds \in [Fd -> Entries] /\ opens \in 0 .. MaxOpens
  BY DEF TypeOK
<1>3. TypeOK'
  BY <1>1 DEF TypeOK, States
<1>4. StdioUntouched'
  BY <1>1, <1>2 DEF StdioUntouched, Fd
<1>5. CallOK' /\ NumbersOK' /\ ProcOK'
  BY DEF CallOK, Waiting, NumbersOK, Bi, ProcOK, Opened
<1>6. SlotsOK' /\ HeldOK'
  BY <1>1, <1>2 DEF SlotsOK, HeldOK, Opened
<1>7. EndsOK'
  BY <1>1, <1>2 DEF EndsOK, Opened, Waiting, Bi
<1>8. ChildOK'
  BY DEF ChildOK, Bi, NoFds
<1>9. LeakOrigin'
  BY <1>1, <1>2 DEF LeakOrigin, IsEnd
<1> QED
  BY <1>3, <1>4, <1>5, <1>6, <1>7, <1>8, <1>9

LEMMA CloseInv == IInv /\ (PipeClose \/ PipeReset \/ PipeHandleDelete) => IInv'
<1> SUFFICES ASSUME IInv, PipeClose \/ PipeReset \/ PipeHandleDelete
             PROVE  IInv'
  OBVIOUS
<1>1. state \in States /\ old_state \in States
  BY DEF IInv, TypeOK
<1>2. CASE PipeClose
  BY <1>1, <1>2, BeginCloseInv DEF PipeClose
<1>3. CASE PipeReset
  BY <1>1, <1>3, BeginCloseInv DEF PipeReset
<1>4. CASE PipeHandleDelete
  <2>1. CASE BeginClose("pipe_handle_delete") /\ UNCHANGED old_state
    BY <1>1, <2>1, BeginCloseInv
  <2>2. CASE /\ call = "none"
             /\ state = "PIPES_CLOSED"
             /\ call' = "freed"
             /\ UNCHANGED <<handle, old_state, eof_read, fds, process, history>>
    BY <2>2 DEF handle, process, history, IInv, TypeOK, StdioUntouched, CallOK,
       Waiting, NumbersOK, Bi, ProcOK, Opened, SlotsOK, HeldOK, EndsOK,
       ChildOK, LeakOrigin, NoFds
  <2> QED
    BY <1>4, <2>1, <2>2 DEF PipeHandleDelete
<1> QED
  BY <1>2, <1>3, <1>4

LEMMA WaitpidInv == IInv /\ Waitpid => IInv'
<1> SUFFICES ASSUME IInv, Waitpid PROVE IInv'
  OBVIOUS
<1> USE FdAssumption, OpensAssumption DEF IInv, Waitpid, history
<1>1. /\ state' = "PIPES_CLOSED" /\ proc' = 0 /\ proc_state' = "none"
      /\ cfds' = cfds /\ cfds = NoFds /\ fds' = fds
      /\ call' \in {"none", "freed", "reopen_uni", "reopen_bi"}
  <2>1. call' \in {"none", "freed", "reopen_uni", "reopen_bi"}
    BY DEF AfterClose, Waiting
  <2>2. CASE proc_state = "zombie" /\ child_pid \in {proc, -1} /\ proc' = 0
             /\ proc_state' = "none"
    BY <2>1, <2>2 DEF ChildOK
  <2>3. CASE /\ child_pid # proc
             /\ child_pid = -1 => proc = 0
             /\ UNCHANGED <<proc, proc_state>>
    BY <2>1, <2>3 DEF ChildOK, ProcOK
  <2> QED
    BY <2>2, <2>3
<1>2. TypeOK'
  BY <1>1 DEF TypeOK, States
<1>3. StdioUntouched' /\ SlotsOK' /\ HeldOK'
  BY <1>1 DEF StdioUntouched, SlotsOK, HeldOK, Opened, Bi
<1>4. CallOK' /\ NumbersOK' /\ ProcOK'
  BY <1>1 DEF CallOK, Waiting, NumbersOK, Bi, ProcOK, Opened
<1>5. EndsOK' /\ ChildOK'
  BY <1>1 DEF EndsOK, ChildOK, Opened, Bi, NoFds
<1>6. LeakOrigin'
  <2>1. CASE Opened
    BY <1>1, <2>1 DEF LeakOrigin, EndsOK, IsEnd, Bi, Opened, ProcOK
  <2>2. CASE ~Opened
    BY <1>1, <2>2 DEF LeakOrigin, Opened, ProcOK, CallOK, TypeOK, States
  <2> QED
    BY <2>1, <2>2
<1> QED
  BY <1>2, <1>3, <1>4, <1>5, <1>6

-----------------------------------------------------------------------------
\* The child's steps disturb only its own table.
LEMMA ChildFacts ==
  ASSUME IInv, UNCHANGED <<handle, call, old_state, eof_read, fds, proc, history>>,
         cfds' \in [Fd -> Entries], ChildOK', proc # 0,
         proc_state' \in {"running", "blocked", "zombie"}
  PROVE  IInv'
BY DEF IInv, handle, history, TypeOK, StdioUntouched, CallOK, Waiting, NumbersOK,
   Bi, ProcOK, Opened, SlotsOK, HeldOK, EndsOK, LeakOrigin

LEMMA ChildSetUpInv == IInv /\ ChildSetUp => IInv'
<1> SUFFICES ASSUME IInv, ChildSetUp PROVE IInv'
  OBVIOUS
<1> USE FdAssumption, OpensAssumption, EntryFacts DEF IInv, ChildSetUp
<1>1. /\ pipe_fds[0] \in Fd /\ pipe_fds[1] \in Fd /\ bipipe_fds[0] \in Fd
      /\ bipipe_fds[1] \in Fd /\ cfds \in [Fd -> Entries]
      /\ opens \in 0 .. MaxOpens /\ 0 \in Fd /\ 1 \in Fd
  BY DEF TypeOK, Fd
<1>2. proc = opens /\ proc # 0 /\ 2 < pipe_fds[0] /\ pipe_fds[0] < pipe_fds[1]
  BY DEF ChildOK, ProcOK, Opened, Bi, NumbersOK
<1>3. End("in", proc, "r") # End("in", proc, "w")
      /\ End("out", proc, "w") # End("in", proc, "w")
  BY <1>1, <1>2
<1>4. cfds' \in [Fd -> Entries] /\ \A d \in Fd : cfds'[d] # End("in", proc, "w")
  <2>1. CASE proc_state = "in_open" /\ cfds' = Exec(ChildDups(ChildCloses(cfds)))
    <3> DEFINE closed == ChildCloses(cfds)
    <3> DEFINE table == ChildDups(closed)
    <3>1. /\ closed \in [Fd -> Entries]
          /\ \A d \in Fd : closed[d] # End("in", proc, "w")
      BY <1>1, <1>2, <2>1 DEF ChildCloses, ChildOK
    <3>2. /\ table \in [Fd -> Entries]
          /\ \A d \in Fd : table[d] # End("in", proc, "w")
      <4>1. closed[pipe_fds[0]] \in Entries
        BY <1>1, <3>1
      <4> HIDE DEF closed
      <4> QED
        BY <1>1, <3>1, <4>1 DEF ChildDups
    <3> QED
      BY <1>1, <1>2, <2>1, <3>2 DEF Exec
  <2>2. CASE proc_state = "in_open2" /\ cfds' = Exec(ChildDups2(ChildCloses2(cfds)))
    <3> DEFINE closed == ChildCloses2(cfds)
    <3> DEFINE table == ChildDups2(closed)
    <3>1. /\ closed \in [Fd -> Entries]
          /\ \A d \in Fd : closed[d] # End("in", proc, "w")
      BY <1>1, <1>2, <2>2 DEF ChildCloses2, ChildOK
    <3>2. /\ table \in [Fd -> Entries]
          /\ \A d \in Fd : table[d] # End("in", proc, "w")
      <4>1. closed[pipe_fds[0]] \in Entries /\ closed[bipipe_fds[1]] \in Entries
        BY <1>1, <3>1
      <4> HIDE DEF closed
      <4> QED
        BY <1>1, <3>1, <4>1 DEF ChildDups2
    <3> QED
      BY <1>1, <1>2, <2>2, <3>2 DEF Exec
  <2> QED
    BY <2>1, <2>2
<1>5. ChildOK'
  BY <1>4 DEF ChildOK
<1> QED
  BY <1>2, <1>4, <1>5, ChildFacts

LEMMA ExitsInv == IInv /\ proc # 0 /\ Exits => IInv'
<1> SUFFICES ASSUME IInv, proc # 0, Exits PROVE IInv'
  OBVIOUS
<1>1. cfds' \in [Fd -> Entries]
  BY EntryFacts DEF Exits, NoFds
<1>2. ChildOK'
  BY DEF Exits, ChildOK, NoFds
<1> QED
  BY <1>1, <1>2, ChildFacts DEF Exits

LEMMA ChildInv ==
  IInv /\ (ChildAborts \/ ChildExitsOnEof \/ ChildExitsEarly \/ ChildBlocks
             \/ ChildKilled) => IInv'
<1> SUFFICES ASSUME IInv, ChildAborts \/ ChildExitsOnEof \/ ChildExitsEarly
                            \/ ChildBlocks \/ ChildKilled
             PROVE  IInv'
  OBVIOUS
<1>1. proc # 0
  BY DEF IInv, ProcOK, ChildAborts, ChildExitsOnEof, ChildExitsEarly,
     ChildBlocks, ChildKilled
<1>2. CASE ChildBlocks
  <2>1. cfds' \in [Fd -> Entries]
    BY <1>2 DEF IInv, TypeOK, ChildBlocks
  <2>2. ChildOK'
    BY <1>2 DEF IInv, ChildOK, ChildBlocks, handle, Bi, NoFds
  <2> QED
    BY <1>1, <1>2, <2>1, <2>2, ChildFacts DEF ChildBlocks
<1>3. CASE Exits
  BY <1>1, <1>3, ExitsInv
<1> QED
  BY <1>2, <1>3 DEF ChildAborts, ChildExitsOnEof, ChildExitsEarly, ChildKilled

-----------------------------------------------------------------------------
\* syslog's socket takes the lowest free number and gives it back.
LEMMA LogInv == IInv /\ (LogConnect \/ LogClose) => IInv'
<1> SUFFICES ASSUME IInv, LogConnect \/ LogClose PROVE IInv'
  OBVIOUS
<1> USE FdAssumption, OpensAssumption, EntryFacts DEF IInv, handle, process, history
<1>1. UNCHANGED <<handle, call, old_state, eof_read, process, history>>
  BY DEF LogConnect, LogClose
<1>2. /\ fds \in [Fd -> Entries] /\ fds' \in [Fd -> Entries]
      /\ \A d \in Fd : fds'[d] # fds[d] =>
           fds[d] \in {Free, Log} /\ fds'[d] \in {Free, Log}
      /\ pipe_fds[0] \in Fd /\ pipe_fds[1] \in Fd
  BY DEF TypeOK, LogConnect, LogClose, Lowest, Exec
<1>3. TypeOK'
  BY <1>1, <1>2 DEF TypeOK
<1>4. StdioUntouched'
  BY <1>2 DEF StdioUntouched, Fd
<1>5. CallOK' /\ NumbersOK' /\ ProcOK'
  BY <1>1 DEF CallOK, Waiting, NumbersOK, Bi, ProcOK, Opened
<1>6. SlotsOK'
  <2>1. CASE LogConnect
    <3>1. PICK d \in Fd : Lowest(fds, d) /\ fds' = [fds EXCEPT ![d] = Log]
      BY <2>1 DEF LogConnect
    <3>2. \A e \in Fd : fds[e] # Log
      BY <2>1 DEF LogConnect, Holds
    <3>3. \A e \in Fd : fds'[e] = Log => e = d
      BY <1>2, <3>1, <3>2
    <3>4. Opened => fds'[pipe_fds[0]] \in {Free, Log}
      BY <1>2 DEF SlotsOK
    <3>5. state = "PIPES_WIDOWED" => d # pipe_fds[1]
      <4>1. SUFFICES ASSUME state = "PIPES_WIDOWED" PROVE d # pipe_fds[1]
        OBVIOUS
      <4>2. fds[pipe_fds[0]] = Free /\ pipe_fds[0] < pipe_fds[1]
        BY <1>2, <3>2, <4>1 DEF SlotsOK, Opened, NumbersOK
      <4> QED
        BY <1>2, <3>1, <4>2 DEF Lowest
    <3> QED
      BY <1>1, <1>2, <3>1, <3>3, <3>4, <3>5 DEF SlotsOK, Opened
  <2>2. CASE LogClose
    BY <1>1, <1>2, <2>2 DEF LogClose, Exec, SlotsOK, Opened
  <2> QED
    BY <2>1, <2>2
<1>7. HeldOK'
  <2>1. bipipe_fds[0] \in Fd /\ opens \in 0 .. MaxOpens
    BY DEF TypeOK
  <2> QED
    BY <1>1, <1>2, <2>1 DEF HeldOK, Bi, IsEnd
<1>8. EndsOK' /\ LeakOrigin'
  BY <1>1, <1>2 DEF EndsOK, LeakOrigin, Opened, Waiting, Bi, TypeOK, IsEnd
<1>9. ChildOK'
  BY <1>1 DEF ChildOK, Bi, NoFds
<1> QED
  BY <1>3, <1>4, <1>5, <1>6, <1>7, <1>8, <1>9

-----------------------------------------------------------------------------
\* Opening a pipe.  The two entries pipe(2) fills in are above stdio and
\* the last it fills in is above every number that was free before.
LEMMA WithPipeFacts ==
  ASSUME NEW table \in [Fd -> Entries], NEW kind \in {"in", "out"},
         NEW r \in Fd, NEW w \in Fd, IsPipe(table, r, w),
         opens \in 0 .. MaxOpens, opens < MaxOpens,
         \A d \in 0 .. 2 : table[d] = Std
  PROVE  LET new == WithPipe(table, kind, r, w) IN
         /\ new \in [Fd -> Entries]
         /\ new[r] = End(kind, opens + 1, "r")
         /\ new[w] = End(kind, opens + 1, "w")
         /\ \A d \in Fd : d # r /\ d # w => new[d] = table[d]
         /\ table[r] = Free /\ table[w] = Free
         /\ 2 < r /\ r < w
         /\ \A d \in Fd : d < w => new[d] # Free
<1> USE FdAssumption, OpensAssumption, EntryFacts DEF IsPipe, Lowest, Fd
<1>1. opens + 1 \in 0 .. MaxOpens
  OBVIOUS
<1>2. /\ End(kind, opens + 1, "r") \in Entries /\ End(kind, opens + 1, "w") \in Entries
      /\ End(kind, opens + 1, "r") # Free
  BY <1>1
<1>3. 2 < r /\ r < w /\ table[r] = Free /\ table[w] = Free
  OBVIOUS
<1> QED
  BY <1>2, <1>3 DEF WithPipe

\* pipe(2) failed: nothing but the call changes.
LEMMA OpenFailsInv ==
  ASSUME IInv, OpenFails, state = "PIPES_CLOSED", call' = "none",
         eof_read' = FALSE, UNCHANGED old_state
  PROVE  IInv'
BY DEF OpenFails, handle, process, history, IInv, TypeOK, StdioUntouched, CallOK,
   Waiting, NumbersOK, Bi, ProcOK, Opened, SlotsOK, HeldOK, EndsOK, ChildOK,
   LeakOrigin, NoFds

\* A table that differs from the parent's by ends of the new pipe in numbers
\* that were free: what holds of it whether it is left behind or used.
NewTable(table) ==
  /\ table \in [Fd -> Entries]
  /\ \A d \in Fd : table[d] # fds[d] =>
       /\ fds[d] = Free
       /\ table[d] \in {End(kind, opens + 1, end) :
                          kind \in {"in", "out"}, end \in {"r", "w"}}

LEMMA NewTableFacts ==
  ASSUME IInv, NEW table, NewTable(table), opens < MaxOpens
  PROVE  /\ \A d \in 0 .. 2 : table[d] = Std
         /\ \A d, e \in Fd : table[d] = Log /\ table[e] = Log => d = e
         /\ \A d \in Fd : /\ table[d].open <= opens + 1
                          /\ IsEnd(table[d]) => table[d].open > 0
                          /\ table[d].open = opens + 1 => table[d] # fds[d]
<1> USE FdAssumption, OpensAssumption, EntryFacts DEF IInv, NewTable
<1>1. opens + 1 \in 0 .. MaxOpens /\ opens \in 0 .. MaxOpens
  BY DEF TypeOK
<1>2. ASSUME NEW kind \in {"in", "out"}, NEW end \in {"r", "w"}
      PROVE  /\ End(kind, opens + 1, end).open = opens + 1
             /\ IsEnd(End(kind, opens + 1, end))
  BY <1>1
<1>3. \A d \in 0 .. 2 : table[d] = Std
  BY DEF StdioUntouched, Fd
<1>4. \A d, e \in Fd : table[d] = Log /\ table[e] = Log => d = e
  BY <1>2 DEF SlotsOK
<1>5. \A d \in Fd : fds[d] \in Entries /\ fds[d].open \in 0 .. MaxOpens
  BY DEF TypeOK, Entries
<1>6. ASSUME NEW d \in Fd
      PROVE  /\ table[d].open <= opens + 1
             /\ IsEnd(table[d]) => table[d].open > 0
             /\ table[d].open = opens + 1 => table[d] # fds[d]
  <2>1. CASE table[d] = fds[d]
    BY <1>1, <1>5, <2>1 DEF EndsOK
  <2>2. CASE table[d] # fds[d]
    BY <1>1, <1>2, <2>2
  <2> QED
    BY <2>1, <2>2
<1> QED
  BY <1>3, <1>4, <1>6

\* The open failed after its first pipe: the new ends are left behind.
LEMMA LeftBehindInv ==
  ASSUME IInv, NEW table, NewTable(table), opens < MaxOpens,
         state = "PIPES_CLOSED", call' = "none", eof_read' = FALSE,
         fds' = table, opens' = opens + 1, failed' = failed \union {opens + 1},
         UNCHANGED <<old_state, process, widowed>>,
         pipe_fds' \in [{0, 1} -> Fd], bipipe_fds' \in [{0, 1} -> Fd],
         \/ state' = "PIPES_CLOSED" /\ child_pid' = child_pid
         \/ /\ state' = "PIPES_OPENING" /\ child_pid' = -1
            /\ 2 < pipe_fds'[0] /\ pipe_fds'[0] < pipe_fds'[1]
            /\ table[pipe_fds'[1]] = End("in", opens + 1, "w")
  PROVE  IInv'
<1> USE FdAssumption, OpensAssumption DEF process
<1>1. /\ opens \in 0 .. MaxOpens /\ opens + 1 \in 0 .. MaxOpens
      /\ child_pid \in -1 .. opens /\ child_pid' \in -1 .. opens
      /\ state' \in {"PIPES_CLOSED", "PIPES_OPENING"}
      /\ proc = 0 /\ proc_state = "none"
  BY DEF IInv, TypeOK, ProcOK, Opened
<1>2. table \in [Fd -> Entries]
  BY DEF NewTable
<1>3. TypeOK'
  <2>1. failed' \subseteq 1 .. opens' /\ widowed' \subseteq 1 .. opens'
    BY <1>1 DEF IInv, TypeOK
  <2>2. /\ state' \in States /\ old_state' \in States /\ call' = "none"
        /\ eof_read' \in BOOLEAN /\ proc_state' = "none"
    BY <1>1 DEF IInv, TypeOK, States
  <2>3. fds' \in [Fd -> Entries] /\ cfds' \in [Fd -> Entries]
    BY <1>2 DEF IInv, TypeOK
  <2>4. opens' \in 0 .. MaxOpens /\ child_pid' \in -1 .. opens' /\ proc' \in 0 .. opens'
    BY <1>1
  <2> QED
    BY <2>1, <2>2, <2>3, <2>4 DEF TypeOK
<1>4. StdioUntouched' /\ SlotsOK'
  BY <1>1, NewTableFacts DEF StdioUntouched, SlotsOK, Opened
<1>5. CallOK' /\ NumbersOK' /\ ProcOK' /\ HeldOK' /\ ChildOK'
  BY <1>1 DEF IInv, CallOK, Waiting, NumbersOK, Bi, ProcOK, Opened, HeldOK,
     ChildOK, NoFds
<1>6. EndsOK'
  <2>1. child_pid' # opens'
    BY <1>1
  <2> QED
    BY <1>1, <2>1, NewTableFacts DEF EndsOK, Opened
<1>7. LeakOrigin'
  <2>1. ASSUME NEW d \in Fd, table[d].kind \in {"in", "out"}
        PROVE  \/ table[d].open \in failed'
               \/ table[d].open \in widowed /\ table[d] = End("out", table[d].open, "r")
    <3>1. CASE table[d] = fds[d]
      BY <1>1, <2>1, <3>1 DEF IInv, LeakOrigin
    <3>2. CASE table[d] # fds[d]
      BY <1>1, <3>2, EntryFacts DEF NewTable
    <3> QED
      BY <3>1, <3>2
  <2> QED
    BY <2>1 DEF LeakOrigin
<1> QED
  BY <1>3, <1>4, <1>5, <1>6, <1>7 DEF IInv

\* A successful open: the child starts with table, the parent keeps parent.
Forked(table, parent, child_state, open_state) ==
  /\ NewTable(table) /\ NewTable(parent) /\ state = "PIPES_CLOSED"
  /\ opens < MaxOpens /\ call' = "none" /\ eof_read' = FALSE
  /\ opens' = opens + 1
  /\ \/ child_state = "in_open" /\ open_state = "PIPES_OPEN_UNI"
     \/ child_state = "in_open2" /\ open_state = "PIPES_OPEN_BI"
  /\ Forks(table, parent, child_state, open_state)
  /\ UNCHANGED <<old_state, widowed>>
  /\ pipe_fds' \in [{0, 1} -> Fd] /\ bipipe_fds' \in [{0, 1} -> Fd]
  /\ NumbersOK'
  /\ parent[pipe_fds'[0]] = Free
  /\ parent[pipe_fds'[1]] = End("in", opens + 1, "w")
  /\ table[pipe_fds'[0]] = End("in", opens + 1, "r")
  /\ Bi' => /\ parent[bipipe_fds'[0]] = End("out", opens + 1, "r")
            /\ table[bipipe_fds'[0]] = End("out", opens + 1, "r")
            /\ table[bipipe_fds'[1]] = End("out", opens + 1, "w")
  /\ \A d \in Fd :
       /\ parent[d] # fds[d] =>
            \/ d = pipe_fds'[1]
            \/ Bi' /\ d = bipipe_fds'[0]
       /\ table[d] # fds[d] =>
            \/ d \in {pipe_fds'[0], pipe_fds'[1]}
            \/ Bi' /\ d \in {bipipe_fds'[0], bipipe_fds'[1]}

LEMMA ForkedInv ==
  ASSUME IInv, NEW table, NEW parent, NEW child_state, NEW open_state,
         Forked(table, parent, child_state, open_state)
  PROVE  IInv'
<1> DEFINE new == opens + 1
<1>11. ASSUME NEW d \in Fd, parent[d] # fds[d]
      PROVE  parent[d].open = new
  <2>1. NewTable(parent) /\ new \in 0 .. MaxOpens
    BY OpensAssumption DEF Forked, IInv, TypeOK
  <2> QED
    BY <1>11, <2>1, EntryFacts DEF NewTable
<1>10. ASSUME NEW d \in Fd, IsEnd(parent[d]), parent[d].open # new
       PROVE  \/ parent[d].open \in failed
              \/ /\ parent[d].open \in widowed
                 /\ parent[d] = End("out", parent[d].open, "r")
  <2>1. parent[d] = fds[d] /\ state = "PIPES_CLOSED"
    BY <1>11, <1>10 DEF Forked
  <2> QED
    BY <1>10, <2>1 DEF IInv, LeakOrigin, IsEnd
<1> USE FdAssumption, OpensAssumption DEF Forks, Forked
<1>1. /\ opens \in 0 .. MaxOpens /\ new \in 0 .. MaxOpens /\ new > 0
      /\ state' = open_state /\ child_pid' = new /\ opens' = new
      /\ fds' = parent /\ cfds' = table /\ proc' = new
      /\ proc_state' = child_state
  BY DEF IInv, TypeOK
<1>2. /\ table \in [Fd -> Entries] /\ parent \in [Fd -> Entries]
      /\ pipe_fds'[0] \in Fd /\ pipe_fds'[1] \in Fd
      /\ bipipe_fds'[0] \in Fd /\ bipipe_fds'[1] \in Fd
  BY DEF NewTable
<1>3. TypeOK'
  <2>1. failed' \subseteq 1 .. opens' /\ widowed' \subseteq 1 .. opens'
    BY <1>1 DEF IInv, TypeOK
  <2>2. /\ state' \in States /\ old_state' \in States /\ call' = "none"
        /\ eof_read' \in BOOLEAN /\ proc_state' \in {"in_open", "in_open2"}
    BY <1>1 DEF IInv, TypeOK, States
  <2>3. fds' \in [Fd -> Entries] /\ cfds' \in [Fd -> Entries]
    BY <1>1, <1>2
  <2>4. opens' \in 0 .. MaxOpens /\ child_pid' \in -1 .. opens' /\ proc' \in 0 .. opens'
    BY <1>1
  <2> QED
    BY <2>1, <2>2, <2>3, <2>4 DEF TypeOK
<1>4. StdioUntouched' /\ SlotsOK'
  BY <1>1, NewTableFacts DEF StdioUntouched, SlotsOK, Opened
<1>5. CallOK' /\ NumbersOK' /\ ProcOK' /\ HeldOK'
  BY <1>1 DEF CallOK, Waiting, ProcOK, Opened, HeldOK, Bi
<1>6. \A d \in Fd : /\ parent[d].open = new => parent[d] # fds[d]
                    /\ parent[d].open <= new
                    /\ IsEnd(parent[d]) => parent[d].open > 0
  BY NewTableFacts
<1>7. EndsOK'
  <2>1. \A d \in Fd : IsEnd(parent[d]) /\ parent[d].open = new =>
          \/ d = pipe_fds'[1] /\ parent[d] = End("in", new, "w")
          \/ Bi' /\ d = bipipe_fds'[0] /\ parent[d] = End("out", new, "r")
    BY <1>6
  <2>2. \A d \in Fd : parent[d] # End("out", new, "w")
    BY <1>1, <2>1, EntryFacts
  <2>3. ~Waiting'
    BY DEF Waiting
  <2> HIDE DEF new
  <2> QED
    BY <1>1, <1>6, <2>1, <2>2, <2>3 DEF EndsOK, Opened, Bi
<1>8. ChildOK'
  <2>1. ASSUME NEW d \in Fd, table[d] = End("in", new, "w")
        PROVE  d = pipe_fds'[1]
    <3>1. table[d] # fds[d]
      BY <1>1, <2>1, EntryFacts, NewTableFacts
    <3> QED
      BY <1>1, <2>1, <3>1, EntryFacts
  <2> QED
    BY <1>1, <2>1 DEF ChildOK, Bi
<1>9. LeakOrigin'
  <2> QED
    BY <1>11, <1>1, <1>10 DEF LeakOrigin, IsEnd
<1> QED
  BY <1>3, <1>4, <1>5, <1>7, <1>8, <1>9 DEF IInv

LEMMA OpenInv == IInv /\ PipeOpen => IInv'
<1> SUFFICES ASSUME IInv, PipeOpen PROVE IInv'
  OBVIOUS
<1> USE FdAssumption, OpensAssumption
<1>1. /\ state = "PIPES_CLOSED" /\ opens < MaxOpens /\ call' = "none"
      /\ eof_read' = FALSE /\ UNCHANGED old_state
  BY DEF PipeOpen, MayOpen
<1>2. /\ fds \in [Fd -> Entries] /\ opens \in 0 .. MaxOpens
      /\ opens + 1 \in 0 .. MaxOpens /\ bipipe_fds \in [{0, 1} -> Fd]
      /\ \A d \in 0 .. 2 : fds[d] = Std
  BY <1>1 DEF IInv, TypeOK, StdioUntouched
<1>3. CASE OpenFails
  BY <1>1, <1>3, OpenFailsInv
<1>4. ASSUME NEW r \in Fd, NEW w \in Fd, IsPipe(fds, r, w),
             pipe_fds' = Ends(r, w), opens' = opens + 1,
             \/ ForkFails(WithPipe(fds, "in", r, w))
             \/ Forks(WithPipe(fds, "in", r, w),
                      ParentSetUp(WithPipe(fds, "in", r, w), Ends(r, w)),
                      "in_open", "PIPES_OPEN_UNI"),
             UNCHANGED <<bipipe_fds, widowed>>
      PROVE  IInv'
  <2> DEFINE table == WithPipe(fds, "in", r, w)
  <2> DEFINE parent == ParentSetUp(table, Ends(r, w))
  <2>1. /\ table \in [Fd -> Entries]
        /\ table[r] = End("in", opens + 1, "r")
        /\ table[w] = End("in", opens + 1, "w")
        /\ \A d \in Fd : d # r /\ d # w => table[d] = fds[d]
        /\ fds[r] = Free /\ fds[w] = Free
        /\ 2 < r /\ r < w
    BY <1>1, <1>2, <1>4, WithPipeFacts
  <2>2. /\ pipe_fds'[0] = r /\ pipe_fds'[1] = w
        /\ pipe_fds' \in [{0, 1} -> Fd] /\ bipipe_fds' \in [{0, 1} -> Fd]
        /\ Ends(r, w)[0] = r /\ Ends(r, w)[1] = w
    BY <1>2, <1>4 DEF Ends
  <2> HIDE DEF table
  <2>3. NewTable(table)
    BY <2>1 DEF NewTable
  <2>4. CASE ForkFails(table)
    BY <1>1, <1>4, <2>1, <2>2, <2>3, <2>4, LeftBehindInv DEF ForkFails
  <2>5. CASE Forks(table, parent, "in_open", "PIPES_OPEN_UNI")
    <3>1. /\ parent \in [Fd -> Entries]
          /\ parent[r] = Free /\ \A d \in Fd : d # r => parent[d] = table[d]
      BY <2>1, <2>2, EntryFacts DEF ParentSetUp
    <3> HIDE DEF parent
    <3>2. /\ NewTable(parent) /\ parent[w] = End("in", opens + 1, "w")
          /\ \A d \in Fd : parent[d] # fds[d] => d = w
          /\ \A d \in Fd : table[d] # fds[d] => d \in {r, w}
      <4>1. /\ \A d \in Fd : parent[d] # fds[d] => d = w
            /\ \A d \in Fd : table[d] # fds[d] => d \in {r, w}
        BY <2>1, <3>1
      <4>2. r # w
        BY <2>1 DEF Fd
      <4>3. parent[w] = table[w]
        BY <3>1, <4>2
      <4>4. NewTable(parent)
        BY <2>1, <2>3, <3>1, <4>1, <4>3 DEF NewTable
      <4> QED
        BY <2>1, <4>1, <4>3, <4>4
    <3>3. state' = "PIPES_OPEN_UNI"
      BY <2>5 DEF Forks
    <3>4. NumbersOK' /\ ~Bi'
      BY <2>1, <2>2, <3>3 DEF NumbersOK, Bi
    <3>5. Forked(table, parent, "in_open", "PIPES_OPEN_UNI")
      BY <1>1, <1>4, <2>1, <2>2, <2>3, <2>5, <3>1, <3>2, <3>4 DEF Forked
    <3> QED
      BY <3>5, ForkedInv
  <2> QED
    BY <1>4, <2>4, <2>5 DEF table
<1> QED
  BY <1>3, <1>4 DEF PipeOpen

LEMMA Open2Inv == IInv /\ PipeOpen2 => IInv'
<1> SUFFICES ASSUME IInv, PipeOpen2 PROVE IInv'
  OBVIOUS
<1> USE FdAssumption, OpensAssumption
<1>1. /\ state = "PIPES_CLOSED" /\ opens < MaxOpens /\ call' = "none"
      /\ eof_read' = FALSE /\ UNCHANGED old_state
  BY DEF PipeOpen2, MayOpen
<1>2. /\ fds \in [Fd -> Entries] /\ opens \in 0 .. MaxOpens
      /\ opens + 1 \in 0 .. MaxOpens /\ bipipe_fds \in [{0, 1} -> Fd]
      /\ \A d \in 0 .. 2 : fds[d] = Std
  BY <1>1 DEF IInv, TypeOK, StdioUntouched
<1>3. CASE OpenFails
  BY <1>1, <1>3, OpenFailsInv
<1>4. ASSUME NEW r \in Fd, NEW w \in Fd, IsPipe(fds, r, w),
             pipe_fds' = Ends(r, w), opens' = opens + 1, UNCHANGED widowed,
             NEW table, table = WithPipe(fds, "in", r, w)
      PROVE  /\ table \in [Fd -> Entries]
             /\ table[r] = End("in", opens + 1, "r")
             /\ table[w] = End("in", opens + 1, "w")
             /\ \A d \in Fd : d # r /\ d # w => table[d] = fds[d]
             /\ fds[r] = Free /\ fds[w] = Free
             /\ 2 < r /\ r < w
             /\ \A d \in Fd : d < w => table[d] # Free
             /\ \A d \in 0 .. 2 : table[d] = Std
             /\ pipe_fds'[0] = r /\ pipe_fds'[1] = w
             /\ pipe_fds' \in [{0, 1} -> Fd]
             /\ Ends(r, w)[0] = r /\ Ends(r, w)[1] = w
             /\ NewTable(table)
  <2>1. /\ table \in [Fd -> Entries]
        /\ table[r] = End("in", opens + 1, "r")
        /\ table[w] = End("in", opens + 1, "w")
        /\ \A d \in Fd : d # r /\ d # w => table[d] = fds[d]
        /\ fds[r] = Free /\ fds[w] = Free
        /\ 2 < r /\ r < w
        /\ \A d \in Fd : d < w => table[d] # Free
    BY <1>1, <1>2, <1>4, WithPipeFacts
  <2>2. /\ pipe_fds'[0] = r /\ pipe_fds'[1] = w
        /\ pipe_fds' \in [{0, 1} -> Fd]
        /\ Ends(r, w)[0] = r /\ Ends(r, w)[1] = w
    BY <1>4 DEF Ends
  <2>3. NewTable(table)
    BY <2>1 DEF NewTable
  <2>4. \A d \in 0 .. 2 : table[d] = Std
    BY <1>2, <2>1 DEF Fd
  <2> QED
    BY <2>1, <2>2, <2>3, <2>4
<1>5. ASSUME NEW r \in Fd, NEW w \in Fd, IsPipe(fds, r, w),
             pipe_fds' = Ends(r, w), opens' = opens + 1, UNCHANGED widowed,
             NEW table, table = WithPipe(fds, "in", r, w),
             fds' = table, failed' = failed \union {opens + 1},
             UNCHANGED <<state, child_pid, bipipe_fds, process>>
      PROVE  IInv'
  BY <1>1, <1>2, <1>4, <1>5, LeftBehindInv
<1>6. ASSUME NEW r \in Fd, NEW w \in Fd, IsPipe(fds, r, w),
             pipe_fds' = Ends(r, w), opens' = opens + 1, UNCHANGED widowed,
             NEW table, table = WithPipe(fds, "in", r, w),
             NEW r2 \in Fd, NEW w2 \in Fd, IsPipe(table, r2, w2),
             bipipe_fds' = Ends(r2, w2),
             NEW table2, table2 = WithPipe(table, "out", r2, w2),
             \/ ForkFails(table2)
             \/ Forks(table2, ParentSetUp2(table2, Ends(r, w), Ends(r2, w2)),
                      "in_open2", "PIPES_OPEN_BI")
      PROVE  IInv'
  <2> DEFINE parent == ParentSetUp2(table2, Ends(r, w), Ends(r2, w2))
  <2>1. /\ table2 \in [Fd -> Entries]
        /\ table2[r2] = End("out", opens + 1, "r")
        /\ table2[w2] = End("out", opens + 1, "w")
        /\ \A d \in Fd : d # r2 /\ d # w2 => table2[d] = table[d]
        /\ table[r2] = Free /\ table[w2] = Free
        /\ 2 < r2 /\ r2 < w2
    BY <1>1, <1>2, <1>4, <1>6, WithPipeFacts
  <2>2. /\ bipipe_fds'[0] = r2 /\ bipipe_fds'[1] = w2
        /\ bipipe_fds' \in [{0, 1} -> Fd]
        /\ Ends(r2, w2)[0] = r2 /\ Ends(r2, w2)[1] = w2
    BY <1>6 DEF Ends
  <2>3. w < r2 /\ r2 # r /\ w2 # r /\ fds[r2] = Free /\ fds[w2] = Free
    <3>1. /\ table[r] # Free /\ table[w] # Free
      BY <1>2, <1>4, <1>6, EntryFacts
    <3>2. w < r2
      BY <1>4, <1>6, <2>1, <3>1 DEF Fd
    <3> QED
      BY <1>4, <1>6, <2>1, <3>1, <3>2 DEF Fd
  <2>4. /\ table2[r] = End("in", opens + 1, "r")
        /\ table2[w] = End("in", opens + 1, "w")
        /\ \A d \in Fd : d \notin {r, w, r2, w2} => table2[d] = fds[d]
        /\ 2 < r /\ r < w /\ fds[r] = Free /\ fds[w] = Free
    BY <1>4, <1>6, <2>1, <2>3 DEF Fd
  <2>5. NewTable(table2)
    BY <2>1, <2>3, <2>4 DEF NewTable
  <2>6. /\ pipe_fds'[0] = r /\ pipe_fds'[1] = w
        /\ pipe_fds' \in [{0, 1} -> Fd]
        /\ Ends(r, w)[0] = r /\ Ends(r, w)[1] = w
    BY <1>4, <1>6
  <2>7. CASE ForkFails(table2)
    BY <1>1, <1>6, <2>2, <2>4, <2>5, <2>6, <2>7, LeftBehindInv DEF ForkFails
  <2>8. CASE Forks(table2, parent, "in_open2", "PIPES_OPEN_BI")
    <3>1. /\ parent \in [Fd -> Entries] /\ parent[r] = Free /\ parent[w2] = Free
          /\ \A d \in Fd : d # r /\ d # w2 => parent[d] = table2[d]
      BY <2>1, <2>2, <2>6, EntryFacts DEF ParentSetUp2
    <3> HIDE DEF parent
    <3>2. /\ parent[w] = End("in", opens + 1, "w")
          /\ parent[r2] = End("out", opens + 1, "r")
          /\ \A d \in Fd : parent[d] # fds[d] => d \in {w, r2}
          /\ \A d \in Fd : table2[d] # fds[d] => d \in {r, w, r2, w2}
      BY <2>1, <2>3, <2>4, <3>1 DEF Fd
    <3>3. NewTable(parent)
      BY <2>3, <2>4, <3>1, <3>2 DEF NewTable
    <3>4. state' = "PIPES_OPEN_BI"
      BY <2>8 DEF Forks
    <3>5. NumbersOK' /\ Bi'
      BY <2>1, <2>2, <2>3, <2>4, <2>6, <3>4 DEF NumbersOK, Bi
    <3>6. Forked(table2, parent, "in_open2", "PIPES_OPEN_BI")
      BY <1>1, <1>6, <2>1, <2>2, <2>4, <2>5, <2>6, <2>8, <3>1, <3>2, <3>3, <3>5
      DEF Forked
    <3> QED
      BY <3>6, ForkedInv
  <2> QED
    BY <1>6, <2>7, <2>8
<1> QED
  BY <1>3, <1>5, <1>6 DEF PipeOpen2

-----------------------------------------------------------------------------
\* The invariant is inductive.
THEOREM InvariantHolds == Spec => []IInv
<1>1. IInv /\ [Next]_vars => IInv'
  <2> SUFFICES ASSUME IInv, [Next]_vars PROVE IInv'
    OBVIOUS
  <2>1. CASE PipeOpen
    BY <2>1, OpenInv
  <2>2. CASE PipeOpen2
    BY <2>2, Open2Inv
  <2>3. CASE PipeSendEof
    BY <2>3, SendEofInv
  <2>4. CASE ReadData \/ ReadEof
    BY <2>4, ReadInv
  <2>5. CASE PipeClose \/ PipeReset \/ PipeHandleDelete
    BY <2>5, CloseInv
  <2>6. CASE Waitpid
    BY <2>6, WaitpidInv
  <2>7. CASE ChildSetUp
    BY <2>7, ChildSetUpInv
  <2>8. CASE ChildAborts \/ ChildExitsOnEof \/ ChildExitsEarly \/ ChildBlocks
             \/ ChildKilled
    BY <2>8, ChildInv
  <2>9. CASE LogConnect \/ LogClose
    BY <2>9, LogInv
  <2>10. CASE UNCHANGED vars
    BY <2>10 DEF vars, handle, process, history, IInv, TypeOK, StdioUntouched,
       CallOK, Waiting, NumbersOK, Bi, ProcOK, Opened, SlotsOK, HeldOK, EndsOK,
       ChildOK, LeakOrigin, NoFds
  <2> QED
    BY <2>1, <2>2, <2>3, <2>4, <2>5, <2>6, <2>7, <2>8, <2>9, <2>10
    DEF Next, Done
<1> QED
  BY <1>1, InitInv, PTL DEF Spec

\* Every variable keeps its type.
THEOREM TypeCorrect == Spec => []TypeOK
BY InvariantHolds, PTL DEF IInv

\* No pipe_close or pipe_handle_delete touches descriptors 0 to 2.
THEOREM StdioSafe == Spec => []StdioUntouched
BY InvariantHolds, PTL DEF IInv

\* Between calls an open handle's numbers are open on its own pipes.
THEOREM HandleOwns == Spec => []HandleOwnsItsEnds
<1>1. IInv => HandleOwnsItsEnds
  BY DEF IInv, HandleOwnsItsEnds, HeldOK, ProcOK, Opened, Bi
<1> QED
  BY <1>1, InvariantHolds, PTL

\* After pipe_send_eof and during pipe_close the command can get EOF.
THEOREM EofToChild == Spec => []EofReachesChild
<1>1. IInv => EofReachesChild
  <2> SUFFICES ASSUME IInv, Waiting \/ state = "PIPES_WIDOWED",
                      proc_state \in {"running", "blocked"}
               PROVE  ~Held(End("in", proc, "w"))
    BY DEF EofReachesChild
  <2> USE OpensAssumption, FdAssumption, EntryFacts DEF IInv
  <2>1. /\ proc = opens /\ opens \in 0 .. MaxOpens /\ Opened
        /\ fds \in [Fd -> Entries]
        /\ pipe_fds[1] \in Fd /\ \A d \in Fd : cfds[d] # End("in", proc, "w")
    BY DEF TypeOK, ProcOK, ChildOK
  <2>2. ASSUME NEW d \in Fd, fds[d] = End("in", opens, "w") PROVE FALSE
    <3>1. d = pipe_fds[1] /\ ~Waiting
      BY <2>1, <2>2 DEF EndsOK
    <3> QED
      BY <2>1, <2>2, <3>1 DEF SlotsOK
  <2> QED
    BY <2>1, <2>2 DEF Held, Holds
<1> QED
  BY <1>1, InvariantHolds, PTL

\* Once the command has exited the parent's read loop can get EOF.
THEOREM EofToParent == Spec => []EofReachesParent
<1>1. IInv => EofReachesParent
  <2> SUFFICES ASSUME IInv, child_pid = opens, proc_state \in {"none", "zombie"}
               PROVE  ~Held(End("out", opens, "w"))
    BY DEF EofReachesParent
  <2>1. opens \in 0 .. MaxOpens
    BY DEF IInv, TypeOK
  <2>2. \A d \in Fd : cfds[d] = Free
    BY DEF IInv, ChildOK, NoFds
  <2>3. \A d \in Fd : fds[d] # End("out", opens, "w")
    BY DEF IInv, EndsOK
  <2> QED
    BY <2>1, <2>2, <2>3, EntryFacts DEF Held, Holds
<1> QED
  BY <1>1, InvariantHolds, PTL

\* No child is left behind a closed or freed handle.
THEOREM NoOrphans == Spec => []NoOrphan
<1>1. IInv => NoOrphan
  BY DEF IInv, NoOrphan, ProcOK, Opened, CallOK
<1> QED
  BY <1>1, InvariantHolds, PTL

\* What stays open of an earlier pipe is a failed open's or a widowed read end.
THEOREM LeaksKnown == Spec => []LeakOrigin
BY InvariantHolds, PTL DEF IInv

\* Closing the write end of a widowed handle again closes nothing else.
THEOREM DoubleCloseHarmless == Spec => ClosesOnlyItsOwnEnds
<1> DEFINE A == call = "none" /\ Waiting' =>
                  \A d \in Fd : fds'[d] # fds[d] =>
                    fds[d] \in {End("in", opens, "w"), End("out", opens, "r")}
<1>1. IInv /\ [Next]_vars => [A]_vars
  <2> SUFFICES ASSUME IInv, Next, call = "none", Waiting'
               PROVE  A
    OBVIOUS
  <2>1. CASE BeginClose("pipe_close") \/ BeginClose("pipe_reset")
             \/ BeginClose("pipe_handle_delete")
    BY <2>1, CloseFacts DEF BeginClose
  <2>2. CASE UNCHANGED fds
    BY <2>2
  <2> QED
    BY <2>1, <2>2 DEF Next, Done, vars, handle, process, history, PipeOpen,
       PipeOpen2, PipeSendEof, ReadData, ReadEof, PipeClose, PipeReset,
       PipeHandleDelete, Waitpid, ChildSetUp, ChildAborts, ChildExitsOnEof,
       ChildExitsEarly, ChildBlocks, ChildKilled, Exits, LogConnect, LogClose,
       Waiting
<1> QED
  BY <1>1, InvariantHolds, PTL DEF Spec, ClosesOnlyItsOwnEnds
=============================================================================
