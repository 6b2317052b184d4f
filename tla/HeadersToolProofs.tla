------------------------- MODULE HeadersToolProofs -------------------------
(***************************************************************************)
(* The headers tool keeps to Pipes, so that what is proved of every pipe   *)
(* handle holds of the tool's; no body overtakes its head, and no command  *)
(* is left behind.  All of it for every input, every number of descriptors *)
(* and of opens, whatever forks fail and wherever commands quit.           *)
(***************************************************************************)
EXTENDS HeadersTool, CallbacksProofs

P == INSTANCE PipesProofs

-----------------------------------------------------------------------------
\* Ph and P are instances of the same definitions.
LEMMA SamePipes ==
  /\ Ph!Init <=> P!Init
  /\ Ph!Next <=> P!Next
  /\ Ph!IInv <=> P!IInv
<1> USE DEF
        Ph!Std, P!Std, Ph!Log, P!Log, Ph!Fd, P!Fd, Ph!States, P!States, Ph!Entry,
        P!Entry, Ph!Free, P!Free, Ph!End, P!End, Ph!Entries, P!Entries, Ph!NoFds,
        P!NoFds, Ph!Holds, P!Holds, Ph!Held, P!Held, Ph!Lowest, P!Lowest,
        Ph!IsPipe, P!IsPipe, Ph!NoPipe, P!NoPipe, Ph!Ends, P!Ends, Ph!WithPipe,
        P!WithPipe, Ph!ParentSetUp, P!ParentSetUp, Ph!ParentSetUp2,
        P!ParentSetUp2, Ph!ChildCloses, P!ChildCloses, Ph!ChildCloses2,
        P!ChildCloses2, Ph!ChildDups, P!ChildDups, Ph!ChildDups2, P!ChildDups2,
        Ph!Exec, P!Exec, Ph!Init, P!Init, Ph!MayOpen, P!MayOpen, Ph!OpenFails,
        P!OpenFails, Ph!ForkFails, P!ForkFails, Ph!Forks, P!Forks, Ph!PipeOpen,
        P!PipeOpen, Ph!PipeOpen2, P!PipeOpen2, Ph!PipeSendEof, P!PipeSendEof,
        Ph!MayRead, P!MayRead, Ph!ReadData, P!ReadData, Ph!ReadEof, P!ReadEof,
        Ph!CloseEnds, P!CloseEnds, Ph!BeginClose, P!BeginClose, Ph!PipeClose,
        P!PipeClose, Ph!PipeReset, P!PipeReset, Ph!PipeHandleDelete,
        P!PipeHandleDelete, Ph!Waiting, P!Waiting, Ph!AfterClose, P!AfterClose,
        Ph!Waitpid, P!Waitpid, Ph!ChildSetUp, P!ChildSetUp, Ph!Exits, P!Exits,
        Ph!ChildAborts, P!ChildAborts, Ph!ChildExitsOnEof, P!ChildExitsOnEof,
        Ph!ChildExitsEarly, P!ChildExitsEarly, Ph!ChildBlocks, P!ChildBlocks,
        Ph!ChildKilled, P!ChildKilled, Ph!LogConnect, P!LogConnect, Ph!LogClose,
        P!LogClose, Ph!Done, P!Done, Ph!Next, P!Next, Ph!TypeOK, P!TypeOK,
        Ph!StdioUntouched, P!StdioUntouched, Ph!LeakOrigin, P!LeakOrigin,
        Ph!Opened, P!Opened, Ph!Bi, P!Bi, Ph!IsEnd, P!IsEnd, Ph!CallOK, P!CallOK,
        Ph!NumbersOK, P!NumbersOK, Ph!ProcOK, P!ProcOK, Ph!SlotsOK, P!SlotsOK,
        Ph!HeldOK, P!HeldOK, Ph!EndsOK, P!EndsOK, Ph!ChildOK, P!ChildOK, Ph!IInv,
        P!IInv, Ph!handle, P!handle, Ph!process, P!process, Ph!history, P!history,
        Ph!vars, P!vars
<1>1. Ph!Init <=> P!Init
  OBVIOUS
<1>2. Ph!Next <=> P!Next
  OBVIOUS
<1>3. Ph!IInv <=> P!IInv
  OBVIOUS
<1> QED
  BY <1>1, <1>2, <1>3

\* What the calls of pipes.c do to the parts of the handle that tell where
\* the tool is in them.
LEMMA OpenFacts ==
  Ph!PipeOpen => /\ call' = "none" /\ UNCHANGED old_state
                 /\ state = "PIPES_CLOSED"
                 /\ state' \in {state, "PIPES_OPENING", "PIPES_OPEN_UNI"}
                 /\ call \in {"none", "reopen_uni"}
BY DEF Ph!PipeOpen, Ph!MayOpen, Ph!OpenFails, Ph!ForkFails, Ph!Forks,
   Ph!handle

LEMMA CloseFacts ==
  ASSUME NEW caller, Ph!BeginClose(caller)
  PROVE  /\ call = "none" /\ call' = caller
         /\ state # "PIPES_CLOSED" /\ UNCHANGED <<state, proc_state>>
BY DEF Ph!BeginClose, Ph!handle, Ph!process

LEMMA WaitFacts ==
  Ph!Waitpid => /\ Ph!Waiting /\ state' = "PIPES_CLOSED"
                /\ call' = Ph!AfterClose /\ UNCHANGED old_state
                /\ proc_state # "zombie" => child_pid # proc
BY DEF Ph!Waitpid

LEMMA ChildFacts ==
  ASSUME \/ Ph!ChildSetUp \/ Ph!ChildAborts \/ Ph!ChildExitsOnEof
         \/ Ph!ChildExitsEarly
  PROVE  /\ UNCHANGED <<state, call, old_state>>
         /\ proc_state \notin {"none", "zombie"}
         /\ Ph!ChildSetUp => proc_state' = "running"
BY DEF Ph!ChildSetUp, Ph!ChildAborts, Ph!ChildExitsOnEof, Ph!ChildExitsEarly,
   Ph!Exits, Ph!handle

LEMMA LogFacts ==
  ASSUME Logs \/ Ph!LogConnect
  PROVE  UNCHANGED <<state, call, old_state, proc_state>>
BY DEF Logs, Ph!LogConnect, Ph!handle, Ph!process, pipes

-----------------------------------------------------------------------------
\* Every step of the tool and of its command is one of the handle's, or
\* leaves the handle alone.
LEMMA StepsArePipes == [Next]_vars => [Ph!Next]_(Ph!vars)
<1> SUFFICES ASSUME [Next]_vars PROVE Ph!Next \/ UNCHANGED pipes
  BY DEF pipes, Ph!vars, Ph!handle, Ph!process, Ph!history
<1>1. Logs => Ph!Next \/ UNCHANGED pipes
  BY DEF Logs, Ph!Next
<1>2. CASE Tool
  <2>1. CASE CbHeadersComplete
    BY <2>1 DEF CbHeadersComplete, Ph!Next
  <2>2. CASE \E at \in Texts : \/ CbUrl(at) \/ CbStatusComplete(at)
                               \/ CbHeaderField(at) \/ CbHeaderValue(at)
                               \/ CbBody(at)
    BY <1>1, <2>2 DEF CbUrl, CbStatusComplete, CbHeaderField, CbHeaderValue,
       CbBody
  <2>3. CASE UlogInit \/ Open \/ Close \/ Delete \/ WaitsOrReopens
    BY <2>3 DEF UlogInit, Open, Close, Delete, WaitsOrReopens, Ph!Next
  <2>4. CASE ResetReturns \/ InputFails
    BY <1>1, <2>4 DEF ResetReturns, InputFails, pipes
  <2>5. CASE CbMessageComplete \/ Eof
    BY <2>5 DEF CbMessageComplete, Eof
  <2> QED
    BY <1>2, <2>1, <2>2, <2>3, <2>4, <2>5 DEF Tool
<1>3. CASE Command \/ CommandQuits
  BY <1>3 DEF Command, CommandSetUp, CommandTakes, CommandPrints, CommandEnds,
     CommandRuns, CommandQuits, Ph!Next
<1>4. CASE Breaks \/ UNCHANGED vars
  BY <1>4 DEF Breaks, vars
<1> QED
  BY <1>2, <1>3, <1>4 DEF Next, Done

\* The handle the tool works with is one of Pipes.
THEOREM KeepsToPipes == Spec => UsesPipes
<1>1. Init => Ph!Init
  BY DEF Init
<1> QED
  BY <1>1, StepsArePipes, PTL DEF Spec, UsesPipes, Ph!Spec

\* What is proved of Pipes holds of the tool's handle.
THEOREM HandleInvariant == Spec => []Ph!IInv
<1>1. P!Spec => []P!IInv
  BY P!InvariantHolds, FdAssumption, OpensAssumption, ClientAssumption, PTL
<1>2. /\ Ph!Init <=> P!Init
      /\ [Ph!Next]_(Ph!vars) <=> [P!Next]_(P!vars)
      /\ Ph!IInv <=> P!IInv
  BY SamePipes DEF Ph!vars, P!vars, Ph!handle, P!handle, Ph!process, P!process,
     Ph!history, P!history
<1>3. Ph!Spec => P!Spec
  BY <1>2, PTL DEF Ph!Spec, P!Spec
<1>4. Spec => Ph!Spec
  BY KeepsToPipes DEF UsesPipes
<1> QED
  BY <1>1, <1>2, <1>3, <1>4, PTL

-----------------------------------------------------------------------------
\* The tool's own invariant.
LEMMA ToolStarts == Init => ToolInv
<1> SUFFICES ASSUME Init PROVE ToolInv
  OBVIOUS
<1>1. Ph!TypeOK
  BY SamePipes, P!InitInv, FdAssumption, OpensAssumption, ClientAssumption
  DEF Init, Ph!IInv
<1>2. todo \in Seq(CallbacksWithText)
  BY StreamType, InputAssumption DEF Init
<1>3. /\ fd_pipe \in Ph!Fd
      /\ <<>> \in Text /\ Len(<<>>) < URL_MAX
      /\ <<>> \in Seq({"tool", "command"} \X STRING)
  BY FdAssumption, SizeAssumption DEF Init, Ph!Fd, Text
<1>4. TypeOK
  BY <1>1, <1>2, <1>3 DEF Init, TypeOK, StaysInCopies
<1>5. Control /\ OnTheWay
  BY DEF Init, Ph!Init, Control, OnTheWay
<1>6. ReasonsDue
  <2>1. \A k \in DOMAIN todo : todo[k] \in CallbacksWithText /\ todo[k] \in ToSet(todo)
    BY <1>2 DEF ToSet
  <2>2. \A c \in CallbacksWithText : Len(c.at) \in Nat
    BY DEF CallbacksWithText, Text
  <2>3. todo = Stream(input)
    BY DEF Init
  <2> QED
    BY <2>1, <2>2, <2>3 DEF ReasonsDue
<1> QED
  BY <1>4, <1>5, <1>6 DEF ToolInv

\* Which call of pipes.c the tool is in.
LEMMA ControlKept ==
  ASSUME Control, [Next]_vars
  PROVE  Control'
<1> USE DEF Control
<1>1. CASE UlogInit
  BY <1>1, LogFacts DEF UlogInit, pipes
<1>2. CASE Open
  BY <1>2, OpenFacts DEF Open
<1>3. ASSUME NEW at \in Texts,
             \/ CbUrl(at) \/ CbStatusComplete(at) \/ CbHeaderField(at)
             \/ CbHeaderValue(at) \/ CbBody(at)
      PROVE  Control'
  BY <1>3, LogFacts DEF CbUrl, CbStatusComplete, CbHeaderField, CbHeaderValue,
     CbBody, pipes
<1>4. CASE CbHeadersComplete
  <2>1. CASE pc' = "reset"
    <3>1. Ph!BeginClose("pipe_reset") /\ old_state' = state /\ pc = "parse"
      BY <1>4, <2>1 DEF CbHeadersComplete, Calls, Ph!PipeReset
    <3> QED
      BY <2>1, <3>1, CloseFacts
  <2>2. CASE pc' = "killed"
    BY <1>4, <2>2 DEF CbHeadersComplete, Calls, pipes
  <2> QED
    BY <1>4, <2>1, <2>2 DEF CbHeadersComplete, WriteHead
<1>5. CASE ResetReturns \/ InputFails
  BY <1>5, LogFacts DEF ResetReturns, InputFails, pipes
<1>6. CASE CbMessageComplete \/ Eof
  BY <1>6 DEF CbMessageComplete, Eof, pipes
<1>7. CASE Close
  BY <1>7, CloseFacts DEF Close, Ph!PipeClose, pipes
<1>8. CASE Delete
  <2>1. state = "PIPES_CLOSED" /\ call = "none"
    BY <1>8 DEF Delete, Ph!PipeHandleDelete, Ph!BeginClose
  <2> QED
    BY <1>8, <2>1, CloseFacts DEF Delete, Ph!PipeHandleDelete, Ph!handle
<1>9. CASE WaitsOrReopens
  <2>1. UNCHANGED pc
    BY <1>9 DEF WaitsOrReopens, tool
  <2>2. CASE Ph!Waitpid
    <3>1. CASE call = "pipe_reset"
      BY <2>1, <2>2, <3>1, WaitFacts DEF Ph!AfterClose
    <3>2. CASE call \in {"pipe_close", "pipe_handle_delete"}
      BY <2>1, <2>2, <3>2, WaitFacts DEF Ph!AfterClose
    <3> QED
      BY <2>2, <3>1, <3>2, WaitFacts DEF Ph!Waiting
  <2>3. CASE call = "reopen_uni" /\ Ph!PipeOpen
    BY <2>1, <2>3, OpenFacts
  <2> QED
    BY <1>9, <2>2, <2>3 DEF WaitsOrReopens
<1>10. CASE Command \/ CommandQuits
  <2>1. UNCHANGED pc
    BY <1>10 DEF Command, CommandSetUp, CommandTakes, CommandPrints,
       CommandEnds, CommandRuns, CommandQuits, tool
  <2>2. UNCHANGED <<state, call, old_state>>
    BY <1>10, ChildFacts DEF Command, CommandSetUp, CommandTakes, CommandPrints,
       CommandEnds, CommandRuns, CommandQuits, pipes
  <2> QED
    BY <2>1, <2>2
<1>11. CASE UNCHANGED vars
  BY <1>11 DEF vars, tool, pipes
<1>12. CASE Breaks
  BY <1>12 DEF Breaks, pipes
<1> QED
  BY <1>1, <1>2, <1>3, <1>4, <1>5, <1>6, <1>7, <1>8, <1>9, <1>10, <1>11, <1>12
  DEF Next, Tool, Done

\* A command that can read the head the tool writes is not reaped before it
\* has read it.
LEMMA ReaderLives ==
  ASSUME Ph!IInv, state = "PIPES_OPEN_UNI", CommandReads
  PROVE  proc_state \notin {"none", "zombie"}
<1>1. proc = opens /\ opens \in 0 .. MaxOpens /\ proc # 0
      /\ fds \in [Ph!Fd -> Ph!Entries]
      /\ proc_state # "none"
  BY DEF Ph!IInv, Ph!TypeOK, Ph!ProcOK, Ph!Opened, Ph!CallOK
<1>2. \A d \in Ph!Fd : fds[d] # Ph!End("in", proc, "r")
  <2> SUFFICES ASSUME NEW d \in Ph!Fd, fds[d] = Ph!End("in", proc, "r")
               PROVE  FALSE
    OBVIOUS
  <2>1. Ph!IsEnd(fds[d]) /\ fds[d].open = opens
    BY <1>1 DEF Ph!IsEnd, Ph!End, Ph!Entry
  <2>2. fds[d] = Ph!End("in", opens, "w") \/ fds[d] = Ph!End("out", opens, "r")
    BY <2>1 DEF Ph!IInv, Ph!EndsOK, Ph!Opened
  <2> QED
    BY <2>2, <1>1 DEF Ph!End, Ph!Entry
<1>3. PICK d \in Ph!Fd : cfds[d] = Ph!End("in", proc, "r")
  BY <1>2 DEF CommandReads, Ph!Held, Ph!Holds
<1>4. cfds # Ph!NoFds
  BY <1>3 DEF Ph!NoFds, Ph!End, Ph!Entry, Ph!Free
<1> QED
  BY <1>1, <1>4 DEF Ph!IInv, Ph!ChildOK

LEMMA OnTheWayKept ==
  ASSUME Ph!IInv, TypeOK, Control, OnTheWay, [Next]_vars
  PROVE  OnTheWay'
<1> USE DEF OnTheWay
<1>1. ASSUME UNCHANGED <<in_pipe, taken>>,
             UNCHANGED <<call, proc_state>> \/ call # "pipe_reset"
      PROVE  OnTheWay'
  BY <1>1
<1>2. CASE UlogInit
  BY <1>1, <1>2 DEF UlogInit, Control, data
<1>3. CASE Open
  BY <1>1, <1>3 DEF Open, Control, data
<1>4. ASSUME NEW at \in Texts,
             \/ CbUrl(at) \/ CbStatusComplete(at) \/ CbHeaderField(at)
             \/ CbHeaderValue(at) \/ CbBody(at)
      PROVE  OnTheWay'
  BY <1>1, <1>4 DEF CbUrl, CbStatusComplete, CbHeaderField, CbHeaderValue,
     CbBody, Calls, Control, data
<1>5. CASE CbHeadersComplete
  <2>1. pc = "parse" /\ call = "none" /\ state = "PIPES_OPEN_UNI"
        /\ UNCHANGED taken /\ in_pipe = <<>> /\ taken = <<>>
    BY <1>5 DEF CbHeadersComplete, Calls, Control
  <2>2. CASE UNCHANGED in_pipe
    BY <2>1, <2>2
  <2>3. CASE CommandReads /\ pc' = "reset"
    <3>1. call' = "pipe_reset" /\ UNCHANGED proc_state
      BY <1>5, <2>3, CloseFacts DEF CbHeadersComplete, Ph!PipeReset
    <3> QED
      BY <2>1, <2>3, <3>1, ReaderLives
  <2> QED
    BY <1>5, <2>2, <2>3 DEF CbHeadersComplete, WriteHead
<1>6. CASE ResetReturns \/ CbMessageComplete \/ Eof \/ InputFails
  BY <1>1, <1>6 DEF ResetReturns, CbMessageComplete, Eof, InputFails, Calls,
     Control, data
<1>7. CASE Close \/ Delete
  BY <1>1, <1>7, CloseFacts DEF Close, Delete, Ph!PipeClose,
     Ph!PipeHandleDelete, Control, data
<1>8. CASE WaitsOrReopens
  <2>1. UNCHANGED <<in_pipe, taken>>
    BY <1>8 DEF WaitsOrReopens, data
  <2>2. CASE call = "pipe_reset"
    <3>1. Ph!Waitpid
      BY <1>8, <2>2 DEF WaitsOrReopens
    <3>2. pc = "reset" => state = "PIPES_OPEN_UNI"
      BY <2>2 DEF Control
    <3>3. state = "PIPES_OPEN_UNI" => child_pid = proc
      BY DEF Ph!IInv, Ph!ProcOK, Ph!Opened
    <3>4. pc = "reset"
      BY <2>2 DEF Control, TypeOK
    <3> QED
      BY <2>1, <3>1, <3>2, <3>3, <3>4, WaitFacts
  <2>3. CASE call # "pipe_reset"
    BY <1>1, <2>1, <2>3
  <2> QED
    BY <2>2, <2>3
<1>9. CASE CommandSetUp
  BY <1>9, ChildFacts DEF CommandSetUp, data
<1>10. CASE CommandTakes
  BY <1>10 DEF CommandTakes, CommandRuns, pipes
<1>11. CASE CommandPrints
  <2>1. UNCHANGED <<in_pipe, call, proc_state>>
    BY <1>11 DEF CommandPrints, CommandRuns, pipes
  <2>2. taken # <<>>
    BY <1>11 DEF CommandPrints
  <2> QED
    BY <2>1, <2>2
<1>12. CASE CommandEnds
  BY <1>12 DEF CommandEnds, data
<1>13. CASE CommandQuits
  BY <1>13 DEF CommandQuits
<1>14. CASE Breaks \/ UNCHANGED vars
  BY <1>1, <1>14 DEF Breaks, vars, data, pipes
<1> QED
  BY <1>2, <1>3, <1>4, <1>5, <1>6, <1>7, <1>8, <1>9, <1>10, <1>11, <1>12, <1>13,
     <1>14
  DEF Next, Tool, Command, Done

-----------------------------------------------------------------------------
LEMMA ByType ==
  ASSUME NEW who \in {"tool", "command"}, NEW text \in Text
  PROVE  By(who, text) \in Seq({"tool", "command"} \X STRING)
<1>1. \A i \in 1 .. Len(text) : <<who, text[i]>> \in {"tool", "command"} \X STRING
  BY DEF Text
<1> QED
  BY <1>1 DEF By, Text

LEMMA CutType ==
  ASSUME NEW text \in Text, NEW n \in Nat
  PROVE  Cut(text, n) \in Text /\ Len(Cut(text, n)) <= n
BY DEF Cut, Text

\* The input does not change, and nothing that went wrong is forgotten.
LEMMA HistoryKept ==
  ASSUME [Next]_vars
  PROVE  UNCHANGED input /\ mishaps \subseteq mishaps'
<1>1. CASE UlogInit \/ Open \/ ResetReturns \/ InputFails \/ Close \/ Delete \/ Breaks
  BY <1>1 DEF UlogInit, Open, ResetReturns, InputFails, Close, Delete, Breaks, history
<1>2. ASSUME NEW at \in Texts, CbUrl(at) \/ CbStatusComplete(at)
      PROVE  UNCHANGED input /\ mishaps \subseteq mishaps'
  BY <1>2 DEF CbUrl, CbStatusComplete, PutsEnd, Calls
<1>3. ASSUME NEW at \in Texts, CbHeaderField(at) \/ CbHeaderValue(at) \/ CbBody(at)
      PROVE  UNCHANGED history
  BY <1>3 DEF CbHeaderField, CbHeaderValue, CbBody, Calls, history
<1>4. CASE CbHeadersComplete \/ CbMessageComplete
  BY <1>4 DEF CbHeadersComplete, CbMessageComplete, Calls, history
<1>5. CASE Eof \/ CommandQuits
  BY <1>5 DEF Eof, CommandQuits
<1>6. CASE WaitsOrReopens \/ CommandSetUp \/ CommandTakes \/ CommandPrints \/ CommandEnds
           \/ UNCHANGED vars
  BY <1>6 DEF WaitsOrReopens, CommandSetUp, CommandTakes, CommandPrints,
     CommandEnds, CommandRuns, vars, tool, history
<1> QED
  BY <1>1, <1>2, <1>3, <1>4, <1>5, <1>6 DEF Next, Tool, Command, Done, history

LEMMA KeptType ==
  ASSUME NEW text \in Text
  PROVE  /\ KeptOfUrl(text) \in Text /\ Len(KeptOfUrl(text)) < URL_MAX
         /\ KeptOfUrl(text) \o <<"not set">> \in Text
         /\ Len(KeptOfUrl(text) \o <<"not set">>) <= URL_MAX
         /\ Len(KeptOfUrl(text) \o <<"not set">>) \in Nat
<1>1. URL_MAX - 1 \in Nat
  BY SizeAssumption
<1>2. KeptOfUrl(text) \in Text /\ Len(KeptOfUrl(text)) <= URL_MAX - 1
  BY <1>1, CutType DEF KeptOfUrl
<1> DEFINE kept == KeptOfUrl(text)
           one == <<"not set">>
<1>3. one \in Text /\ Len(one) = 1
  <2>1. "not set" \in STRING
    BY LiteralAssumption
  <2>2. one \in Seq(STRING)
    BY <2>1, OneSeq, Zenon
  <2> QED
    BY <2>2 DEF Text
<1>4. kept \in Text /\ Len(kept) <= URL_MAX - 1
  BY <1>2
<1> HIDE DEF kept, one
<1>5. kept \o one \in Text /\ Len(kept \o one) = Len(kept) + Len(one) /\ Len(kept) \in Nat
  <2>1. LengthsAdd(Text)
    BY ConcatLengths, Zenon DEF Text
  <2>2. Len(kept \o one) = Len(kept) + Len(one)
    BY <1>3, <1>4, <2>1, Zenon DEF LengthsAdd
  <2> QED
    BY <1>3, <1>4, <2>2 DEF Text
<1>6. /\ kept \in Text /\ Len(kept) < URL_MAX
      /\ kept \o one \in Text
      /\ Len(kept \o one) <= URL_MAX /\ Len(kept \o one) \in Nat
  BY <1>1, <1>3, <1>4, <1>5, SizeAssumption
<1> QED
  BY <1>6, Zenon DEF kept, one

\* Only a reason phrase that is too long has its terminator put behind the
\* copy.
LEMMA StaysKept ==
  ASSUME TypeOK, ReasonsDue, [Next]_vars
  PROVE  StaysInCopies' /\ ReasonsDue'
<1>1. UNCHANGED input /\ mishaps \subseteq mishaps' /\ (LongReason' <=> LongReason)
  BY HistoryKept DEF LongReason
<1>2. StaysInCopies /\ todo \in Seq(CallbacksWithText) /\ URL_MAX \in Nat
  BY SizeAssumption DEF TypeOK
<1>3. ASSUME UNCHANGED <<todo, url>>, "overrun" \in mishaps' => "overrun" \in mishaps,
             pc' = "overrun" => "overrun" \in mishaps
      PROVE  StaysInCopies' /\ ReasonsDue'
  <2>1. StaysInCopies'
    BY <1>1, <1>2, <1>3 DEF StaysInCopies
  <2>2. ReasonsDue'
    BY <1>1, <1>3 DEF ReasonsDue
  <2> QED
    BY <2>1, <2>2
<1>4. ASSUME NEW cb, NEW at, Calls(cb, at)
      PROVE  /\ ReasonsDue' /\ at \in Text /\ Len(at) \in Nat /\ pc = "parse"
             /\ cb = "status" /\ Len(at) >= URL_MAX => LongReason
  <2>1. /\ todo # <<>> /\ at \in Pieces(todo, WholeTexts)
        /\ todo' \in Remaining(todo, at, WholeTexts)
        /\ todo[1].cb = cb /\ pc = "parse"
    BY <1>2, <1>4 DEF Calls
  <2>2. /\ Len(at) <= Len(todo[1].at)
        /\ \A k \in DOMAIN todo' : \E i \in DOMAIN todo :
             todo'[k].cb = todo[i].cb /\ Len(todo'[k].at) <= Len(todo[i].at)
    BY <1>2, <2>1, NoLonger
  <2>3. at \in Text /\ todo' \in Seq(CallbacksWithText)
    BY <1>2, <2>1, PieceType
  <2>4. \A c \in CallbacksWithText : Len(c.at) \in Nat
    BY DEF CallbacksWithText, Text
  <2>5. /\ \A i \in DOMAIN todo : Len(todo[i].at) \in Nat
        /\ \A i \in DOMAIN todo' : Len(todo'[i].at) \in Nat
    BY <1>2, <2>3, <2>4
  <2>6. \A due \in ToSet(Stream(input)) : Len(due.at) \in Nat
    <3>1. Stream(input) \in Seq(CallbacksWithText)
      BY StreamType, InputAssumption DEF TypeOK
    <3> QED
      BY <2>4, <3>1 DEF ToSet
  <2>7. ReasonsDue'
    <3> SUFFICES ASSUME NEW k \in DOMAIN todo', todo'[k].cb = "status"
                 PROVE  \E due \in ToSet(Stream(input)) :
                          due.cb = "status" /\ Len(todo'[k].at) <= Len(due.at)
      BY <1>1 DEF ReasonsDue
    <3>1. PICK i \in DOMAIN todo :
            todo'[k].cb = todo[i].cb /\ Len(todo'[k].at) <= Len(todo[i].at)
      BY <2>2
    <3>2. PICK due \in ToSet(Stream(input)) :
            due.cb = "status" /\ Len(todo[i].at) <= Len(due.at)
      BY <3>1 DEF ReasonsDue
    <3> QED
      BY <2>5, <2>6, <3>1, <3>2
  <2>8. ASSUME cb = "status", Len(at) >= URL_MAX PROVE LongReason
    <3>1. 1 \in DOMAIN todo /\ Len(at) \in Nat
      BY <1>2, <2>1, <2>3 DEF Text
    <3>2. PICK due \in ToSet(Stream(input)) :
            due.cb = "status" /\ Len(todo[1].at) <= Len(due.at)
      BY <2>1, <2>8, <3>1 DEF ReasonsDue
    <3>3. Len(due.at) >= URL_MAX
      BY <1>2, <2>2, <2>5, <2>6, <2>8, <3>1, <3>2
    <3> QED
      BY <3>2, <3>3 DEF LongReason
  <2> QED
    BY <2>1, <2>3, <2>7, <2>8 DEF Text
<1>5. ASSUME NEW at \in Texts, CbUrl(at)
      PROVE  StaysInCopies' /\ ReasonsDue'
  <2>1. Calls("url", at) /\ url' = KeptOfUrl(at) /\ PutsEnd(UrlEnd(at)) /\ pc' = pc
    BY <1>5 DEF CbUrl
  <2>2. UrlEnd(at) < URL_MAX
    BY <1>2, <1>4, <2>1, SizeAssumption DEF UrlEnd
  <2>3. UNCHANGED mishaps
    BY <2>1, <2>2 DEF PutsEnd
  <2>4. Len(url') < URL_MAX
    BY <1>4, <2>1, KeptType
  <2>5. pc' # "overrun" /\ ReasonsDue'
    BY <1>4, <2>1
  <2> QED
    BY <1>1, <1>2, <2>3, <2>4, <2>5 DEF StaysInCopies
<1>6. ASSUME NEW at \in Texts, CbStatusComplete(at)
      PROVE  StaysInCopies' /\ ReasonsDue'
  <2>1. Calls("status", at) /\ PutsEnd(StatusEnd(at)) /\ pc' = pc
    BY <1>6 DEF CbStatusComplete
  <2>2. pc' # "overrun" /\ ReasonsDue' /\ at \in Text /\ Len(at) \in Nat
        /\ (Len(at) >= URL_MAX => LongReason)
    BY <1>4, <2>1
  <2>3. CASE Len(at) < URL_MAX
    <3>1. StatusEnd(at) < URL_MAX
      BY <2>3 DEF StatusEnd
    <3>2. url' = KeptOfUrl(at) /\ UNCHANGED mishaps
      BY <1>6, <2>1, <3>1 DEF CbStatusComplete, PutsEnd
    <3>3. Len(url') < URL_MAX
      BY <2>2, <3>2, KeptType
    <3> QED
      BY <1>1, <1>2, <2>2, <3>2, <3>3 DEF StaysInCopies
  <2>4. CASE ~(Len(at) < URL_MAX)
    <3>1. StatusEnd(at) = URL_MAX
      BY <2>4 DEF StatusEnd
    <3>2. "overrun" \in mishaps' /\ ~(StatusEnd(at) < URL_MAX)
      BY <1>2, <2>1, <3>1 DEF PutsEnd
    <3>3. url' \in {KeptOfUrl(at), KeptOfUrl(at) \o <<"not set">>}
      BY <1>6, <3>2 DEF CbStatusComplete
    <3>4. Len(url') < URL_MAX \/ Len(url') = URL_MAX
      <4>1. /\ Len(KeptOfUrl(at)) < URL_MAX
            /\ Len(KeptOfUrl(at) \o <<"not set">>) <= URL_MAX
            /\ Len(KeptOfUrl(at) \o <<"not set">>) \in Nat
        BY <2>2, KeptType, Zenon
      <4>2. CASE url' = KeptOfUrl(at)
        BY <4>1, <4>2, Zenon
      <4>3. CASE url' = KeptOfUrl(at) \o <<"not set">>
        <5>1. Len(url') <= URL_MAX /\ Len(url') \in Nat
          BY <4>1, <4>3, Zenon
        <5> QED
          BY <1>2, <5>1
      <4> QED
        BY <3>3, <4>2, <4>3
    <3>5. LongReason
      BY <1>2, <2>2, <2>4
    <3> QED
      BY <1>1, <2>2, <3>2, <3>4, <3>5 DEF StaysInCopies
  <2> QED
    BY <2>3, <2>4
<1>7. CASE \/ \E at \in Texts : CbHeaderField(at) \/ CbHeaderValue(at) \/ CbBody(at)
           \/ CbHeadersComplete \/ CbMessageComplete
  <2>1. PICK at, cb : Calls(cb, at)
    BY <1>7 DEF CbHeaderField, CbHeaderValue, CbBody, CbHeadersComplete,
       CbMessageComplete
  <2>2. UNCHANGED <<mishaps, url>> /\ pc' # "overrun"
    BY <1>4, <1>7, <2>1 DEF CbHeaderField, CbHeaderValue, CbBody, CbHeadersComplete,
       WriteHead, CbMessageComplete
  <2> QED
    BY <1>1, <1>2, <1>4, <2>1, <2>2 DEF StaysInCopies
<1>8. CASE UlogInit \/ Open \/ ResetReturns \/ Eof \/ InputFails \/ Close \/ Delete
  <2>1. UNCHANGED <<todo, url>> /\ pc' # "overrun"
    BY <1>8 DEF UlogInit, Open, ResetReturns, Eof, InputFails, Close, Delete, parsed
  <2>2. UNCHANGED mishaps \/ Eof
    BY <1>8 DEF UlogInit, Open, ResetReturns, InputFails, Close, Delete, history
  <2>3. Eof => mishaps' \subseteq mishaps \union {"cut off"}
    BY DEF Eof
  <2> QED
    BY <1>3, <2>1, <2>2, <2>3
<1>9. CASE \/ WaitsOrReopens \/ Breaks \/ Command \/ CommandQuits \/ UNCHANGED vars
  <2>1. UNCHANGED <<todo, url>> /\ ("overrun" \in mishaps' => "overrun" \in mishaps)
    BY <1>9 DEF WaitsOrReopens, Breaks, Command, CommandSetUp, CommandTakes,
       CommandPrints, CommandEnds, CommandRuns, CommandQuits, vars, tool, history, parsed
  <2>2. pc' = "overrun" => "overrun" \in mishaps
    BY <1>2, <1>9 DEF StaysInCopies, WaitsOrReopens, Breaks, Command, CommandSetUp,
       CommandTakes, CommandPrints, CommandEnds, CommandRuns, CommandQuits, vars, tool
  <2> QED
    BY <1>3, <2>1, <2>2
<1> QED
  BY <1>5, <1>6, <1>7, <1>8, <1>9 DEF Next, Tool, Done

LEMMA TypesKept ==
  ASSUME Ph!IInv', TypeOK, StaysInCopies', [Next]_vars
  PROVE  TypeOK'
<1> DEFINE Written == Seq({"tool", "command"} \X STRING)
           HandleOK == Ph!TypeOK
           ToolOK == /\ pc \in {"start", "open", "parse", "reset", "close",
                                "delete", "exit", "aborted", "killed", "overrun"}
                     /\ rc \in {"EX_OK", "EX_IOERR", "EX_UNAVAILABLE"}
                     /\ input \in Inputs /\ mishaps \subseteq {"quit", "cut off", "overrun"}
           ParsedOK == /\ todo \in Seq(CallbacksWithText)
                       /\ fd_pipe \in Ph!Fd
                       /\ url \in Text
                       /\ sbuf \in Text
           BytesOK == in_pipe \in Text /\ taken \in Text /\ stdout \in Written
<1>1. HandleOK' /\ HandleOK
  BY DEF Ph!IInv, TypeOK
<1>2. ToolOK /\ ParsedOK /\ BytesOK
  BY DEF TypeOK
<1>3. ToolOK' /\ ParsedOK' /\ BytesOK' => TypeOK'
  BY <1>1 DEF TypeOK
<1> HIDE DEF HandleOK
<1>4. ASSUME NEW cb, NEW at, Calls(cb, at)
      PROVE  /\ at \in Text /\ todo' \in Seq(CallbacksWithText)
             /\ UNCHANGED <<fd_pipe, input>>
  BY <1>2, <1>4, PieceType DEF Calls
<1>6. ASSUME NEW a \in Text, NEW b \in Text
      PROVE  a \o b \in Text
  BY DEF Text
<1>7. /\ <<": ">> \in Text /\ <<"\r\n">> \in Text /\ <<"start ">> \in Text
      /\ <<>> \in Text
  <2>1. ASSUME NEW atom \in STRING PROVE <<atom>> \in Text
    BY OneSeq, Zenon DEF Text
  <2>2. ": " \in STRING /\ "\r\n" \in STRING /\ "start " \in STRING
    BY LiteralAssumption
  <2>3. <<>> \in Text
    BY DEF Text
  <2> QED
    BY <2>1, <2>2, <2>3
<1>8. CASE UlogInit
  BY <1>2, <1>3, <1>8 DEF UlogInit, history, parsed, data
<1>9. CASE Open
  <2>1. pipe_fds'[1] \in Ph!Fd
    BY <1>1 DEF HandleOK, Ph!TypeOK
  <2> QED
    BY <1>2, <1>3, <1>9, <2>1 DEF Open, history, data
<1>10. ASSUME NEW at \in Texts, CbUrl(at) \/ CbStatusComplete(at)
       PROVE  TypeOK'
  <2>1. /\ at \in Text /\ todo' \in Seq(CallbacksWithText)
        /\ UNCHANGED <<fd_pipe, input, pc, rc, sbuf, data>>
        /\ url' \in {KeptOfUrl(at), KeptOfUrl(at) \o <<"not set">>}
        /\ mishaps' \subseteq mishaps \union {"overrun"}
    BY <1>4, <1>10 DEF CbUrl, CbStatusComplete, PutsEnd
  <2>2. url' \in Text
    BY <2>1, KeptType
  <2> QED
    BY <1>2, <1>3, <2>1, <2>2 DEF data
<1>11. ASSUME NEW at \in Texts, CbHeaderField(at) \/ CbHeaderValue(at)
       PROVE  TypeOK'
  <2>1. /\ at \in Text /\ todo' \in Seq(CallbacksWithText)
        /\ UNCHANGED <<fd_pipe, input, mishaps, pc, rc, url, data>>
    BY <1>4, <1>11 DEF CbHeaderField, CbHeaderValue
  <2>2. sbuf \o at \in Text
    BY <1>2, <1>6, <2>1
  <2>3. /\ sbuf \o at \o <<": ">> \in Text
        /\ sbuf \o at \o <<"\r\n">> \in Text
    BY <1>6, <1>7, <2>2
  <2>4. sbuf' \in Text
    BY <1>11, <2>3 DEF CbHeaderField, CbHeaderValue
  <2> QED
    BY <1>2, <1>3, <2>1, <2>4 DEF data
<1>12. ASSUME NEW at \in Texts, CbBody(at)
       PROVE  TypeOK'
  <2>1. /\ at \in Text /\ todo' \in Seq(CallbacksWithText)
        /\ UNCHANGED <<fd_pipe, input, mishaps, pc, rc, url, sbuf, in_pipe, taken>>
        /\ stdout' = stdout \o By("tool", at)
    BY <1>4, <1>12 DEF CbBody
  <2>2. By("tool", at) \in Written
    BY <2>1, ByType
  <2>3. stdout' \in Written
    BY <1>2, <2>1, <2>2, ConcatSeq
  <2> QED
    BY <1>2, <1>3, <2>1, <2>3
<1>13. CASE CbHeadersComplete
  <2>1. /\ todo' \in Seq(CallbacksWithText)
        /\ UNCHANGED <<fd_pipe, input, mishaps, rc, url, taken, stdout>>
        /\ sbuf' = <<>>
        /\ WriteHead(StartLine(url) \o sbuf \o <<"\r\n">>)
    BY <1>4, <1>13 DEF CbHeadersComplete
  <2>2. StartLine(url) \in Text
    <3>1. <<"start ">> \o url \in Text
      BY <1>2, <1>6, <1>7
    <3>2. StartLineUncut(url) \in Text
      BY <1>6, <1>7, <3>1 DEF StartLineUncut
    <3>3. STRING_MAX - 1 \in Nat
      BY SizeAssumption
    <3> QED
      BY <3>2, <3>3, CutType DEF StartLine
  <2>3. StartLine(url) \o sbuf \o <<"\r\n">> \in Text
    BY <1>2, <1>6, <1>7, <2>2
  <2>4. in_pipe' \in Text /\ pc' \in {"reset", "killed"}
    BY <1>2, <1>6, <2>1, <2>3 DEF WriteHead
  <2> QED
    BY <1>2, <1>3, <1>7, <2>1, <2>4
<1>14. CASE CbMessageComplete
  BY <1>2, <1>3, <1>4, <1>14 DEF CbMessageComplete, data
<1>15. CASE ResetReturns \/ Eof \/ InputFails \/ Close \/ Delete
  BY <1>2, <1>3, <1>15 DEF ResetReturns, Eof, InputFails, Close, Delete,
     history, parsed, data
<1>16. CASE WaitsOrReopens \/ Breaks \/ CommandSetUp \/ CommandEnds \/ UNCHANGED vars
  BY <1>2, <1>3, <1>16 DEF WaitsOrReopens, Breaks, CommandSetUp, CommandEnds, vars,
     tool, history, parsed, data
<1>17. CASE CommandTakes
  <2>1. taken' \in Text /\ in_pipe' \in Text
    BY <1>2, <1>6, <1>7, <1>17 DEF CommandTakes
  <2> QED
    BY <1>2, <1>3, <1>17, <2>1 DEF CommandTakes, CommandRuns, tool, history,
       parsed
<1>18. CASE CommandPrints
  <2>1. PICK n \in DOMAIN taken :
          /\ stdout' = stdout \o By("command", SubSeq(taken, 1, n))
          /\ taken' = SubSeq(taken, n + 1, Len(taken))
    BY <1>18 DEF CommandPrints
  <2>2. SubSeq(taken, 1, n) \in Text /\ taken' \in Text
    <3>1. taken \in Seq(STRING)
      BY <1>2 DEF Text
    <3>2. n \in 1 .. Len(taken) /\ n + 1 \in Nat \ {0} /\ Len(taken) \in Nat
      BY <3>1
    <3>3. SubSeq(taken, 1, n) \in Seq(STRING)
          /\ SubSeq(taken, n + 1, Len(taken)) \in Seq(STRING)
      BY <3>1, <3>2, PartSeq
    <3> QED
      BY <2>1, <3>3 DEF Text
  <2>3. stdout' \in Written
    <3>1. By("command", SubSeq(taken, 1, n)) \in Written
      BY <2>2, ByType
    <3> QED
      BY <1>2, <2>1, <3>1, ConcatSeq
  <2> QED
    BY <1>2, <1>3, <1>18, <2>2, <2>3 DEF CommandPrints, CommandRuns, tool,
       history, parsed
<1>19. CASE CommandQuits
  BY <1>2, <1>3, <1>7, <1>19 DEF CommandQuits, parsed
<1> QED
  BY <1>8, <1>9, <1>10, <1>11, <1>12, <1>13, <1>14, <1>15, <1>16, <1>17, <1>18,
     <1>19
  DEF Next, Tool, Command, Done

\* The invariant is inductive, on top of the handle's.
THEOREM ToolInvariant == Spec => []ToolInv
<1>1. Ph!IInv /\ Ph!IInv' /\ ToolInv /\ [Next]_vars => ToolInv'
  BY ControlKept, OnTheWayKept, StaysKept, TypesKept DEF ToolInv
<1> QED
  BY <1>1, ToolStarts, HandleInvariant, PTL DEF Spec

\* Every variable keeps its type.
THEOREM TypeCorrect == Spec => []TypeOK
<1>1. ToolInv => TypeOK
  BY DEF ToolInv
<1> QED
  BY <1>1, ToolInvariant, PTL

\* When the parser goes on after a head, the command has printed that head
\* completely or has lost it: it cannot print into the body that follows.
THEOREM FlushedBetweenCalls == Spec => []HeadsAreFlushed
<1>1. ToolInv => HeadsAreFlushed
  BY DEF ToolInv, Control, OnTheWay, HeadsAreFlushed
<1> QED
  BY <1>1, ToolInvariant, PTL

\* A tool that returns has no command left, whichever way it got there.
THEOREM NoCommandLeft == Spec => []LeavesNoCommand
<1>1. Ph!IInv /\ ToolInv => LeavesNoCommand
  BY DEF Ph!IInv, Ph!ProcOK, Ph!Opened, ToolInv, Control, LeavesNoCommand
<1> QED
  BY <1>1, HandleInvariant, ToolInvariant, PTL

-----------------------------------------------------------------------------
Written == Seq({"tool", "command"} \X STRING)

LEMMA ByParts ==
  ASSUME NEW who \in {"tool", "command"}, NEW a \in Text, NEW b \in Text
  PROVE  /\ By(who, a \o b) = By(who, a) \o By(who, b)
         /\ By(who, <<>>) = <<>>
<1> DEFINE E == {"tool", "command"} \X STRING
           x == By(who, a)
           y == By(who, b)
           z == By(who, a \o b)
<1>1. /\ a \o b \in Text /\ Len(a \o b) = Len(a) + Len(b)
      /\ Len(a) \in Nat /\ Len(b) \in Nat
      /\ \A i \in 1 .. Len(a) : (a \o b)[i] = a[i]
      /\ \A i \in 1 .. Len(b) : (a \o b)[Len(a) + i] = b[i]
  BY DEF Text
<1>2. x \in Seq(E) /\ y \in Seq(E) /\ z \in Seq(E)
  BY <1>1, ByType
<1>3. /\ Len(x) = Len(a) /\ Len(y) = Len(b) /\ Len(z) = Len(a) + Len(b)
      /\ \A i \in 1 .. Len(a) : x[i] = <<who, a[i]>>
      /\ \A i \in 1 .. Len(b) : y[i] = <<who, b[i]>>
      /\ \A i \in 1 .. Len(a) + Len(b) : z[i] = <<who, (a \o b)[i]>>
  BY <1>1, <1>2 DEF By, Text
<1> HIDE DEF E, x, y, z
<1>4. /\ Len(z) = Len(x) + Len(y)
      /\ \A i \in 1 .. Len(x) : z[i] = x[i]
      /\ \A i \in 1 .. Len(y) : z[Len(x) + i] = y[i]
  <2>1. Len(z) = Len(x) + Len(y)
    BY <1>3
  <2>2. ASSUME NEW i \in 1 .. Len(x) PROVE z[i] = x[i]
    <3>1. i \in 1 .. Len(a) /\ i \in 1 .. Len(a) + Len(b)
      BY <1>1, <1>3
    <3> QED
      BY <1>1, <1>3, <3>1
  <2>3. ASSUME NEW i \in 1 .. Len(y) PROVE z[Len(x) + i] = y[i]
    <3>1. i \in 1 .. Len(b) /\ Len(a) + i \in 1 .. Len(a) + Len(b)
      BY <1>1, <1>3
    <3>2. z[Len(a) + i] = <<who, b[i]>>
      BY <1>1, <1>3, <3>1
    <3> QED
      BY <1>3, <3>1, <3>2
  <2> QED
    BY <2>1, <2>2, <2>3
<1>5. z = x \o y
  BY <1>2, <1>4, SameAsConcat
<1>6. By(who, <<>>) = <<>>
  BY DEF By
<1> QED
  BY <1>5, <1>6 DEF x, y, z

\* The parts of a message, and its bytes in the order they are due.
LEMMA TextParts ==
  /\ <<": ">> \in Text /\ <<"\r\n">> \in Text /\ <<"start ">> \in Text
  /\ <<>> \in Text
  /\ \A a, b \in Text : a \o b \in Text
<1>1. ASSUME NEW atom \in STRING PROVE <<atom>> \in Text
  BY OneSeq, Zenon DEF Text
<1>2. ": " \in STRING /\ "\r\n" \in STRING /\ "start " \in STRING
  BY LiteralAssumption
<1>3. <<>> \in Text /\ \A a, b \in Text : a \o b \in Text
  BY DEF Text
<1> QED
  BY <1>1, <1>2, <1>3

LEMMA LineType ==
  ASSUME NEW field \in [name : Text, value : Text]
  PROVE  Line(field) \in Text
<1>1. field.name \in Text /\ field.value \in Text
  OBVIOUS
<1>2. field.name \o <<": ">> \in Text
  BY <1>1, TextParts
<1>3. field.name \o <<": ">> \o field.value \in Text
  BY <1>1, <1>2, TextParts
<1> QED
  BY <1>3, TextParts DEF Line

LEMMA LinesType ==
  ASSUME NEW fields \in FieldLines
  PROVE  /\ [i \in DOMAIN fields |-> Line(fields[i])] \in Seq(Seq(STRING))
         /\ Lines(fields) \in Text
<1>1. \A i \in 1 .. Len(fields) : Line(fields[i]) \in Seq(STRING)
  <2>1. \A i \in 1 .. Len(fields) : fields[i] \in [name : Text, value : Text]
    BY ElementOfSeq DEF FieldLines
  <2> QED
    BY <2>1, LineType DEF Text
<1>2. [i \in DOMAIN fields |-> Line(fields[i])] \in Seq(Seq(STRING))
  BY <1>1 DEF FieldLines
<1> QED
  BY <1>2, FlattenType DEF Lines, Text

LEMMA LinesCons ==
  ASSUME NEW fields \in FieldLines, NEW x \in [name : Text, value : Text]
  PROVE  Lines(<<x>> \o fields) = Line(x) \o Lines(fields)
<1> DEFINE more == <<x>> \o fields
           p == [i \in DOMAIN fields |-> Line(fields[i])]
           q == [i \in DOMAIN more |-> Line(more[i])]
<1>1. fields \in Seq([name : Text, value : Text])
  BY DEF FieldLines
<1>2. /\ more \in Seq([name : Text, value : Text])
      /\ Len(more) = Len(fields) + 1 /\ more[1] = x
      /\ \A i \in 1 .. Len(fields) : more[i + 1] = fields[i]
      /\ Len(fields) \in Nat /\ DOMAIN fields = 1 .. Len(fields)
      /\ DOMAIN more = 1 .. Len(fields) + 1
  BY <1>1, ConsIs
<1> HIDE DEF more
<1>3. p \in Seq(Seq(STRING)) /\ q \in Seq(Seq(STRING))
  BY <1>1, <1>2, LinesType DEF FieldLines
<1>4. /\ Len(p) = Len(fields) /\ Len(q) = Len(fields) + 1
      /\ q[1] = Line(x) /\ q[1] \in Seq(STRING)
      /\ \A i \in 1 .. Len(fields) : q[i + 1] = p[i]
  BY <1>2, <1>3
<1> HIDE DEF p, q
<1>5. q = <<q[1]>> \o p
  <2> DEFINE T == Seq(Seq(STRING))
  <2>1. HasConses(T)
    BY Conses, Zenon
  <2>2. p \in T /\ q \in T
    BY <1>3
  <2> HIDE DEF T
  <2> QED
    BY <1>4, <2>1, <2>2 DEF HasConses
<1>6. FlattenSeq(q) = q[1] \o FlattenSeq(p)
  BY <1>3, <1>4, <1>5, FlattenCons
<1> QED
  BY <1>4, <1>6 DEF Lines, p, q, more

\* What the tool collects of a head, and what is due of a message.
HeadOf(message) ==
  StartLineUncut(message.url) \o Lines(message.fields) \o <<"\r\n">>

LEMMA OutType ==
  ASSUME NEW message \in Messages
  PROVE  /\ HeadOf(message) \in Text
         /\ FlattenSeq(message.body) \in Text
         /\ By("command", HeadOf(message)) \in Written
         /\ By("tool", FlattenSeq(message.body)) \in Written
         /\ Out(message) =
              By("command", HeadOf(message)) \o By("tool", FlattenSeq(message.body))
         /\ Out(message) \in Written
<1>1. /\ message.url \in Text /\ message.fields \in FieldLines
      /\ message.body \in Seq(Text)
  BY DEF Messages
<1>2. StartLineUncut(message.url) \in Text
  BY <1>1, TextParts DEF StartLineUncut
<1>3. HeadOf(message) \in Text
  <2>1. StartLineUncut(message.url) \o Lines(message.fields) \in Text
    BY <1>1, <1>2, LinesType, TextParts
  <2> QED
    BY <2>1, TextParts DEF HeadOf
<1>4. FlattenSeq(message.body) \in Text
  BY <1>1, FlattenType DEF Text
<1>5. /\ By("command", HeadOf(message)) \in Written
      /\ By("tool", FlattenSeq(message.body)) \in Written
  BY <1>3, <1>4, ByType DEF Written
<1>6. Out(message) =
        By("command", HeadOf(message)) \o By("tool", FlattenSeq(message.body))
  BY DEF Out, HeadOf
<1>7. Out(message) \in Written
  BY <1>5, <1>6, ConcatSeq DEF Written
<1> QED
  BY <1>3, <1>4, <1>5, <1>6, <1>7

LEMMA OutsType ==
  ASSUME NEW messages \in Seq(Messages)
  PROVE  /\ [i \in DOMAIN messages |-> Out(messages[i])] \in Seq(Written)
         /\ Outs(messages) \in Written
<1>1. \A i \in 1 .. Len(messages) : Out(messages[i]) \in Written
  BY OutType
<1> HIDE DEF Written
<1>2. [i \in DOMAIN messages |-> Out(messages[i])] \in Seq(Written)
  BY <1>1
<1> QED
  BY <1>2, FlattenType DEF Outs, Written

\* What a sequence of messages prints is what its first prints and then the
\* others.
LEMMA OutsCons ==
  ASSUME NEW messages \in Seq(Messages), NEW x \in Messages
  PROVE  Outs(<<x>> \o messages) = Out(x) \o Outs(messages)
<1> DEFINE more == <<x>> \o messages
           p == [i \in DOMAIN messages |-> Out(messages[i])]
           q == [i \in DOMAIN more |-> Out(more[i])]
<1>1. /\ more \in Seq(Messages)
      /\ Len(more) = Len(messages) + 1 /\ more[1] = x
      /\ \A i \in 1 .. Len(messages) : more[i + 1] = messages[i]
      /\ Len(messages) \in Nat /\ DOMAIN messages = 1 .. Len(messages)
      /\ DOMAIN more = 1 .. Len(messages) + 1
  BY ConsIs
<1> HIDE DEF more
<1>2. p \in Seq(Written) /\ q \in Seq(Written)
  BY <1>1, OutsType
<1>3. /\ Len(p) = Len(messages) /\ Len(q) = Len(messages) + 1
      /\ q[1] = Out(x) /\ q[1] \in Written
      /\ \A i \in 1 .. Len(messages) : q[i + 1] = p[i]
  BY <1>1, OutType
<1> HIDE DEF p, q
<1>4. q = <<q[1]>> \o p
  <2> DEFINE T == Seq(Written)
  <2>1. HasConses(T)
    BY Conses, Zenon
  <2>2. p \in T /\ q \in T
    BY <1>2
  <2> HIDE DEF T
  <2> QED
    BY <1>3, <2>1, <2>2 DEF HasConses
<1>5. FlattenSeq(q) = q[1] \o FlattenSeq(p)
  BY <1>2, <1>3, <1>4, FlattenCons DEF Written
<1> QED
  BY <1>3, <1>5 DEF Outs, p, q, more

-----------------------------------------------------------------------------
LEMMA NothingIsDue == Lines(<<>>) = <<>> /\ Outs(<<>>) = <<>>
<1>1. DOMAIN <<>> = {}
  OBVIOUS
<1>2. [i \in {} |-> Line(<<>>[i])] = <<>>
  OBVIOUS
<1>3. [i \in {} |-> Out(<<>>[i])] = <<>>
  OBVIOUS
<1> QED
  BY <1>1, <1>2, <1>3, FlattenEmpty DEF Lines, Outs

\* With whole texts a callback takes the first one that is due.
LEMMA WholePiece ==
  ASSUME TypeOK, WholeTexts, NEW cb, NEW at, Calls(cb, at),
         NEW cb1, NEW at1, NEW calls, First(todo, cb1, at1, calls)
  PROVE  cb = cb1 /\ at = at1 /\ todo' = calls /\ pc = "parse" /\ UNCHANGED input
<1>1. /\ Head(todo).cb = cb /\ at \in Pieces(todo, TRUE)
      /\ todo' \in Remaining(todo, at, TRUE) /\ UNCHANGED input
      /\ pc = "parse" /\ todo \in Seq(CallbacksWithText)
  BY DEF Calls, history, TypeOK
<1> QED
  BY <1>1, WholeText

AtStart(m) ==
  /\ AtMessage(m)
  /\ First(todo, IF input[m + 1].type = "request" THEN "url" ELSE "status",
           input[m + 1].url, HeadCalls(input, m, 0))
AtName(m, j) ==
  /\ InHead(m, j)
  /\ First(todo, "header_field", input[m + 1].fields[j + 1].name, ValueCalls(input, m, j))
AtItsValue(m, j) ==
  /\ AtValue(m, j)
  /\ First(todo, "header_value", input[m + 1].fields[j + 1].value, HeadCalls(input, m, j + 1))
AtEndOfHead(m) ==
  /\ InHead(m, Len(input[m + 1].fields))
  /\ First(todo, "headers_complete", <<>>, BodyCalls(input, m, 0))
AtPiece(m, j) ==
  /\ InBody(m, j)
  /\ First(todo, "body", input[m + 1].body[j + 1], BodyCalls(input, m, j + 1))
AtEnd(m) ==
  /\ InBody(m, Len(input[m + 1].body))
  /\ First(todo, "message_complete", <<>>, MessageCalls(input, m + 1))

\* When a callback is due the tool is at the place in the input this callback
\* is for.
LEMMA WhereItIs ==
  ASSUME TypeOK, PlainMessages(input), Somewhere
  PROVE  \/ todo = <<>> /\ AtMessage(Len(input))
         \/ \E m \in 0 .. Len(input) - 1 :
              \/ AtStart(m) \/ AtEndOfHead(m) \/ AtEnd(m)
              \/ \E j \in 0 .. Len(input[m + 1].fields) - 1 : AtName(m, j) \/ AtItsValue(m, j)
              \/ \E j \in 0 .. Len(input[m + 1].body) - 1 : AtPiece(m, j)
<1>1. input \in Seq(Messages) /\ Len(input) \in Nat
  <2>1. input \in Seq(Messages)
    BY InputAssumption DEF TypeOK
  <2> QED
    BY <2>1
<1>2. HasRests(Messages, Seq(Messages))
  BY Rests, Zenon
<1>3. CASE \E m \in 0 .. Len(input) : AtMessage(m)
  <2>1. PICK m \in 0 .. Len(input) : AtMessage(m)
    BY <1>3
  <2>2. CASE m = Len(input)
    <3>1. MessageCalls(input, m) = <<>>
      BY <1>1, <1>2, <2>2, NothingCalls DEF MessageCalls, HasRests
    <3> QED
      BY <2>1, <2>2, <3>1 DEF AtMessage
  <2>3. CASE m # Len(input)
    <3>1. m \in 0 .. Len(input) - 1
      BY <1>1, <2>3
    <3>2. AtStart(m)
      BY <1>1, <2>1, <3>1, MessageFirst DEF AtMessage, AtStart
    <3> QED
      BY <3>1, <3>2
  <2> QED
    BY <2>2, <2>3
<1>4. ASSUME NEW m \in 0 .. Len(input) - 1, NEW j \in 0 .. Len(input[m + 1].fields),
             InHead(m, j)
      PROVE  IF j < Len(input[m + 1].fields)
             THEN j \in 0 .. Len(input[m + 1].fields) - 1 /\ AtName(m, j)
             ELSE AtEndOfHead(m)
  <2>1. Len(input[m + 1].fields) \in Nat
    BY <1>1, MessageParts DEF IsMessage
  <2>2. IF j < Len(input[m + 1].fields)
        THEN First(todo, "header_field", input[m + 1].fields[j + 1].name, ValueCalls(input, m, j))
        ELSE First(todo, "headers_complete", <<>>, BodyCalls(input, m, 0))
    BY <1>1, <1>4, HeadFirst DEF InHead
  <2>3. ~(j < Len(input[m + 1].fields)) => j = Len(input[m + 1].fields)
    BY <2>1
  <2>4. j < Len(input[m + 1].fields) => j \in 0 .. Len(input[m + 1].fields) - 1
    BY <2>1
  <2> QED
    BY <1>4, <2>2, <2>3, <2>4 DEF AtName, AtEndOfHead
<1>5. ASSUME NEW m \in 0 .. Len(input) - 1, NEW j \in 0 .. Len(input[m + 1].fields) - 1,
             AtValue(m, j)
      PROVE  AtItsValue(m, j)
  BY <1>1, <1>5, ValueFirst DEF AtValue, AtItsValue
<1>6. ASSUME NEW m \in 0 .. Len(input) - 1, NEW j \in 0 .. Len(input[m + 1].body),
             InBody(m, j)
      PROVE  IF j < Len(input[m + 1].body)
             THEN j \in 0 .. Len(input[m + 1].body) - 1 /\ AtPiece(m, j)
             ELSE AtEnd(m)
  <2>1. Len(input[m + 1].body) \in Nat
    BY <1>1, MessageParts DEF IsMessage
  <2>2. IF j < Len(input[m + 1].body)
        THEN First(todo, "body", input[m + 1].body[j + 1], BodyCalls(input, m, j + 1))
        ELSE First(todo, "message_complete", <<>>, MessageCalls(input, m + 1))
    BY <1>1, <1>6, BodyFirst DEF InBody
  <2>3. ~(j < Len(input[m + 1].body)) => j = Len(input[m + 1].body)
    BY <2>1
  <2>4. j < Len(input[m + 1].body) => j \in 0 .. Len(input[m + 1].body) - 1
    BY <2>1
  <2> QED
    BY <1>6, <2>2, <2>3, <2>4 DEF AtPiece, AtEnd
<1> QED
  BY <1>3, <1>4, <1>5, <1>6 DEF Somewhere

\* The start of the text and its sums.
LEMMA SentType ==
  ASSUME TypeOK
  PROVE  /\ Sent \in Written /\ stdout \in Written
         /\ in_pipe = <<>> /\ taken = <<>> => Sent = stdout
         /\ IsPrefix(stdout, Sent)
<1>1. stdout \in Written /\ taken \in Text /\ in_pipe \in Text
  BY DEF TypeOK, Written
<1>2. By("command", taken \o in_pipe) \in Written
  BY <1>1, TextParts, ByType DEF Written
<1>3. Sent \in Written
  BY <1>1, <1>2, ConcatSeq DEF Sent, Written
<1>4. ASSUME in_pipe = <<>>, taken = <<>> PROVE Sent = stdout
  <2>1. <<>> \o <<>> = <<>>
    OBVIOUS
  <2>2. By("command", <<>>) = <<>>
    BY TextParts, ByParts
  <2>3. stdout \o <<>> = stdout
    BY <1>1, NothingAdded DEF Written
  <2> QED
    BY <1>4, <2>1, <2>2, <2>3 DEF Sent
<1>5. IsPrefix(stdout, Sent)
  BY <1>1, <1>2, IsPrefixConcat DEF Sent, Written
<1> QED
  BY <1>1, <1>3, <1>4, <1>5

LEMMA StaysPut ==
  ASSUME UNCHANGED <<input, todo, url, sbuf>>, Sent' = Sent, Somewhere
  PROVE  Somewhere'
BY DEF Somewhere, AtMessage, InHead, AtValue, InBody, MessageCalls, BodyCalls,
   HeadCalls, ValueCalls, Expected

LEMMA SameCalls ==
  ASSUME UNCHANGED input
  PROVE  /\ \A m : MessageCalls(input, m)' = MessageCalls(input, m)
         /\ \A m, j : /\ BodyCalls(input, m, j)' = BodyCalls(input, m, j)
                      /\ HeadCalls(input, m, j)' = HeadCalls(input, m, j)
                      /\ ValueCalls(input, m, j)' = ValueCalls(input, m, j)
         /\ Expected' = Expected /\ Fits' = Fits /\ PlainMessages(input)' = PlainMessages(input)
BY DEF MessageCalls, BodyCalls, HeadCalls, ValueCalls, Expected, Fits, PlainMessages

LEMMA NextIndex ==
  ASSUME NEW n \in Nat, NEW j \in 0 .. n - 1
  PROVE  j + 1 \in 0 .. n
OBVIOUS

LEMMA StartKept ==
  ASSUME TypeOK, NEW m \in 0 .. Len(input) - 1, AtStart(m),
         UNCHANGED <<input, sbuf>>, Sent' = Sent, todo' = HeadCalls(input, m, 0),
         url' = KeptOfUrl(input[m + 1].url)
  PROVE  InHead(m, 0)'
<1>1. IsMessage(input[m + 1])
  BY MessageParts, InputAssumption DEF TypeOK
<1>2. Rest(input[m + 1].fields, 0) = input[m + 1].fields
  <2>1. HasRests([name : Text, value : Text], Seq([name : Text, value : Text]))
    BY Rests, Zenon
  <2> QED
    BY <1>1, <2>1 DEF HasRests, IsMessage
<1>3. <<>> \o Lines(input[m + 1].fields) = Lines(input[m + 1].fields)
  BY <1>1, LinesType DEF IsMessage, Text
<1>4. sbuf = <<>> /\ Sent \o Outs(Rest(input, m)) = Expected
  BY DEF AtStart, AtMessage
<1>5. sbuf \o Lines(Rest(input[m + 1].fields, 0)) = Lines(input[m + 1].fields)
  BY <1>2, <1>3, <1>4
<1> QED
  BY <1>4, <1>5, SameCalls DEF InHead

\* A name moves the tool from before a field to between its name and its
\* value.
LEMMA NameKept ==
  ASSUME TypeOK, NEW m \in 0 .. Len(input) - 1,
         NEW j \in 0 .. Len(input[m + 1].fields) - 1, AtName(m, j),
         UNCHANGED <<input, url>>, Sent' = Sent, todo' = ValueCalls(input, m, j),
         sbuf' = sbuf \o input[m + 1].fields[j + 1].name \o <<": ">>
  PROVE  AtValue(m, j)'
<1> DEFINE fields == input[m + 1].fields
           n == fields[j + 1].name
           v == fields[j + 1].value
           c == <<": ">>
           e == <<"\r\n">>
           more == Lines(Rest(fields, j + 1))
<1>1. IsMessage(input[m + 1])
  BY MessageParts, InputAssumption DEF TypeOK
<1>2. /\ Rest(fields, j) = <<fields[j + 1]>> \o Rest(fields, j + 1)
      /\ Rest(fields, j + 1) \in FieldLines
      /\ fields[j + 1] \in [name : Text, value : Text]
  <2>1. HasRests([name : Text, value : Text], Seq([name : Text, value : Text]))
    BY Rests, Zenon
  <2>2. j + 1 \in 0 .. Len(fields)
    <3>1. Len(fields) \in Nat /\ j \in 0 .. Len(fields) - 1
      BY <1>1 DEF IsMessage
    <3> QED
      BY <3>1, NextIndex, Zenon
  <2>3. fields \in Seq([name : Text, value : Text])
    BY <1>1 DEF IsMessage
  <2> QED
    BY <2>1, <2>2, <2>3, Zenon DEF HasRests, FieldLines
<1>3. Lines(Rest(fields, j)) = n \o c \o v \o e \o more
  BY <1>2, LinesCons DEF Line
<1>4. sbuf \o (n \o c \o v \o e \o more) = Lines(fields)
  BY <1>3 DEF AtName, InHead
<1>5. /\ sbuf \in Text /\ n \in Text /\ c \in Text /\ v \in Text /\ e \in Text
      /\ more \in Text
  <2>1. c \in Text /\ e \in Text
    BY TextParts
  <2>2. more \in Text
    BY <1>2, LinesType
  <2>3. n \in Text /\ v \in Text
    BY <1>2
  <2> QED
    BY <2>1, <2>2, <2>3 DEF TypeOK
<1>6. Associative(Text) /\ LengthsAdd(Text)
  BY ConcatIsAssociative, ConcatLengths, Zenon DEF Text
<1>7. sbuf' = sbuf \o n \o c
  OBVIOUS
<1>8. url = KeptOfUrl(input[m + 1].url) /\ Sent \o Outs(Rest(input, m)) = Expected
  BY DEF AtName, InHead
<1>9. (sbuf \o n \o c) \o v \o e \o more = Lines(fields)
  <2> HIDE DEF n, c, v, e, more, fields
  <2>1. /\ n \o c \in Text /\ v \o e \in Text /\ n \o c \o v \in Text
        /\ n \o c \o v \o e \in Text
    BY <1>5, <1>6 DEF LengthsAdd
  <2>2. sbuf \o n \o c = sbuf \o (n \o c)
    <3>1. sbuf \in Text /\ n \in Text /\ c \in Text
      BY <1>5
    <3> QED
      BY <1>6, <3>1, Zenon DEF Associative
  <2>3. sbuf \o (n \o c) \o v = sbuf \o (n \o c \o v)
    <3>1. sbuf \in Text /\ n \o c \in Text /\ v \in Text
      BY <1>5, <2>1
    <3> QED
      BY <1>6, <3>1, Zenon DEF Associative
  <2>4. sbuf \o (n \o c \o v) \o e = sbuf \o (n \o c \o v \o e)
    <3>1. sbuf \in Text /\ n \o c \o v \in Text /\ e \in Text
      BY <1>5, <2>1
    <3> QED
      BY <1>6, <3>1, Zenon DEF Associative
  <2>5. sbuf \o (n \o c \o v \o e) \o more = sbuf \o (n \o c \o v \o e \o more)
    <3>1. sbuf \in Text /\ n \o c \o v \o e \in Text /\ more \in Text
      BY <1>5, <2>1
    <3> QED
      BY <1>6, <3>1, Zenon DEF Associative
  <2> QED
    BY <1>4, <2>2, <2>3, <2>4, <2>5
<1> QED
  BY <1>7, <1>8, <1>9, SameCalls DEF AtValue

LEMMA ValueKept ==
  ASSUME NEW m \in 0 .. Len(input) - 1,
         NEW j \in 0 .. Len(input[m + 1].fields) - 1, AtItsValue(m, j),
         UNCHANGED <<input, url>>, Sent' = Sent, todo' = HeadCalls(input, m, j + 1),
         sbuf' = sbuf \o input[m + 1].fields[j + 1].value \o <<"\r\n">>
  PROVE  InHead(m, j + 1)'
BY SameCalls DEF AtItsValue, AtValue, InHead

\* A piece of a body is printed behind the one before.
LEMMA PieceKept ==
  ASSUME TypeOK, NEW m \in 0 .. Len(input) - 1,
         NEW j \in 0 .. Len(input[m + 1].body) - 1, AtPiece(m, j),
         UNCHANGED <<input, sbuf>>, todo' = BodyCalls(input, m, j + 1),
         Sent' = Sent \o By("tool", input[m + 1].body[j + 1])
  PROVE  InBody(m, j + 1)'
<1> DEFINE body == input[m + 1].body
           b == By("tool", body[j + 1])
           r == By("tool", FlattenSeq(Rest(body, j + 1)))
           more == Outs(Rest(input, m + 1))
<1>1. IsMessage(input[m + 1])
  BY MessageParts, InputAssumption DEF TypeOK
<1>2. /\ Rest(body, j) = <<body[j + 1]>> \o Rest(body, j + 1)
      /\ Rest(body, j + 1) \in Seq(Text) /\ body[j + 1] \in Text
  <2>1. HasRests(Text, Seq(Text))
    BY Rests, Zenon
  <2>2. j + 1 \in 0 .. Len(body)
    BY <1>1 DEF IsMessage
  <2> QED
    BY <1>1, <2>1, <2>2 DEF HasRests, IsMessage
<1>3. FlattenSeq(Rest(body, j)) = body[j + 1] \o FlattenSeq(Rest(body, j + 1))
      /\ FlattenSeq(Rest(body, j + 1)) \in Text
  BY <1>2, FlattenCons, FlattenType DEF Text
<1>4. By("tool", FlattenSeq(Rest(body, j))) = b \o r
  BY <1>2, <1>3, ByParts
<1>5. b \in Written /\ r \in Written /\ Sent \in Written
  BY <1>2, <1>3, ByType, SentType DEF Written
<1>6. more \in Written
  <2>1. HasRests(Messages, Seq(Messages))
    BY Rests, Zenon
  <2>2. Rest(input, m + 1) \in Seq(Messages)
    BY <2>1, MessageParts, InputAssumption DEF HasRests, TypeOK
  <2> QED
    BY <2>2, OutsType
<1>7. Sent \o (b \o r) \o more = Expected
  BY <1>4 DEF AtPiece, InBody
<1>8. Associative(Written)
  BY ConcatIsAssociative, Zenon DEF Written
<1>9. (Sent \o b) \o r \o more = Expected
  <2> HIDE DEF b, r, more
  <2>1. (Sent \o b) \o r = Sent \o (b \o r)
    <3>1. Sent \in Written /\ b \in Written /\ r \in Written
      BY <1>5
    <3> QED
      BY <1>8, <3>1, Zenon DEF Associative
  <2> QED
    BY <1>7, <2>1
<1>10. sbuf = <<>>
  BY DEF AtPiece, InBody
<1> QED
  BY <1>9, <1>10, SameCalls DEF InBody

LEMMA EndKept ==
  ASSUME TypeOK, NEW m \in 0 .. Len(input) - 1, AtEnd(m),
         UNCHANGED <<input, sbuf>>, todo' = MessageCalls(input, m + 1), Sent' = Sent
  PROVE  AtMessage(m + 1)'
<1>1. IsMessage(input[m + 1])
  BY MessageParts, InputAssumption DEF TypeOK
<1>2. Rest(input[m + 1].body, Len(input[m + 1].body)) = <<>>
  <2>1. HasRests(Text, Seq(Text))
    BY Rests, Zenon
  <2> QED
    BY <1>1, <2>1 DEF HasRests, IsMessage
<1>3. By("tool", FlattenSeq(<<>>)) = <<>>
  BY FlattenEmpty, ByParts, TextParts
<1>4. Sent \o <<>> = Sent
  BY SentType, NothingAdded DEF Written
<1>5. Sent \o Outs(Rest(input, m + 1)) = Expected /\ sbuf = <<>>
  BY <1>2, <1>3, <1>4 DEF AtEnd, InBody
<1> QED
  BY <1>5, SameCalls DEF AtMessage

\* The end of a head sends it to the command.
LEMMA HeadKept ==
  ASSUME TypeOK, Fits, NEW m \in 0 .. Len(input) - 1, AtEndOfHead(m),
         UNCHANGED input, sbuf' = <<>>, todo' = BodyCalls(input, m, 0),
         Sent' = Sent \o By("command", StartLine(url) \o sbuf \o <<"\r\n">>)
  PROVE  InBody(m, 0)'
<1> DEFINE msg == input[m + 1]
           h == By("command", HeadOf(msg))
           b == By("tool", FlattenSeq(msg.body))
           more == Outs(Rest(input, m + 1))
<1>1. input \in Seq(Messages) /\ IsMessage(msg)
  BY MessageParts, InputAssumption DEF TypeOK
<1>2. Rest(msg.fields, Len(msg.fields)) = <<>> /\ Rest(msg.body, 0) = msg.body
  <2>1. HasRests([name : Text, value : Text], Seq([name : Text, value : Text]))
    BY Rests, Zenon
  <2>2. HasRests(Text, Seq(Text))
    BY Rests, Zenon
  <2> QED
    BY <1>1, <2>1, <2>2 DEF HasRests, IsMessage
<1>3. sbuf = Lines(msg.fields)
  <2>1. sbuf \o <<>> = Lines(msg.fields)
    BY <1>2, NothingIsDue DEF AtEndOfHead, InHead
  <2> QED
    BY <2>1, NothingAdded DEF TypeOK, Text
<1>4. StartLine(url) = StartLineUncut(msg.url)
  <2>1. url = KeptOfUrl(msg.url) /\ m + 1 \in DOMAIN input
    BY <1>1 DEF AtEndOfHead, InHead
  <2> QED
    BY <2>1 DEF Fits
<1>5. Sent' = Sent \o h
  BY <1>3, <1>4 DEF HeadOf
<1>6. Sent \in Written /\ h \in Written /\ b \in Written /\ Out(msg) = h \o b
  BY <1>1, OutType, SentType DEF IsMessage
<1>7. /\ Rest(input, m) = <<msg>> \o Rest(input, m + 1)
      /\ Rest(input, m + 1) \in Seq(Messages)
  <2>1. HasRests(Messages, Seq(Messages))
    BY Rests, Zenon
  <2> QED
    BY <1>1, <2>1, MessageParts DEF HasRests
<1>8. more \in Written /\ Outs(Rest(input, m)) = (h \o b) \o more
  BY <1>1, <1>6, <1>7, OutsType, OutsCons DEF IsMessage
<1>9. Sent \o ((h \o b) \o more) = Expected
  BY <1>8 DEF AtEndOfHead, InHead
<1>10. Associative(Written) /\ LengthsAdd(Written)
  BY ConcatIsAssociative, ConcatLengths, Zenon DEF Written
<1>11. (Sent \o h) \o b \o more = Expected
  <2> HIDE DEF h, b, more
  <2>1. (Sent \o h) \o b = Sent \o (h \o b) /\ h \o b \in Written
    <3>1. Sent \in Written /\ h \in Written /\ b \in Written
      BY <1>6
    <3>2. (Sent \o h) \o b = Sent \o (h \o b)
      BY <1>10, <3>1, Zenon DEF Associative
    <3>3. h \o b \in Written
      BY <1>10, <3>1, Zenon DEF LengthsAdd
    <3> QED
      BY <3>2, <3>3
  <2>2. (Sent \o (h \o b)) \o more = Sent \o ((h \o b) \o more)
    <3>1. Sent \in Written /\ h \o b \in Written /\ more \in Written
      BY <1>6, <1>8, <2>1
    <3> QED
      BY <1>10, <3>1, Zenon DEF Associative
  <2> QED
    BY <1>9, <2>1, <2>2
<1> QED
  BY <1>2, <1>5, <1>11, SameCalls DEF InBody

-----------------------------------------------------------------------------
\* There is one pair of numbers that pipe(2) hands out.
LEMMA PipeIsUnique ==
  ASSUME NEW table, NEW r \in Ph!Fd, NEW w \in Ph!Fd, NEW r2 \in Ph!Fd, NEW w2 \in Ph!Fd,
         Ph!IsPipe(table, r, w), Ph!IsPipe(table, r2, w2)
  PROVE  w = w2
<1>1. r \in Int /\ w \in Int /\ r2 \in Int /\ w2 \in Int
  BY FdAssumption DEF Ph!Fd
<1>2. r = r2
  BY <1>1 DEF Ph!IsPipe, Ph!Lowest
<1> QED
  BY <1>1, <1>2 DEF Ph!IsPipe

\* What a pipe_open that succeeds leaves of the table: all but its write end.
LEMMA OpenedPipe ==
  ASSUME Ph!TypeOK, Ph!PipeOpen, state' = "PIPES_OPEN_UNI"
  PROVE  /\ pipe_fds'[0] \in Ph!Fd /\ pipe_fds'[1] \in Ph!Fd
         /\ Ph!IsPipe(fds, pipe_fds'[0], pipe_fds'[1])
         /\ [fds' EXCEPT ![pipe_fds'[1]] = Ph!Free] = fds
<1>1. state = "PIPES_CLOSED"
  BY OpenFacts
<1>2. PICK r \in Ph!Fd, w \in Ph!Fd :
        /\ Ph!IsPipe(fds, r, w)
        /\ pipe_fds' = Ph!Ends(r, w)
        /\ \/ Ph!ForkFails(Ph!WithPipe(fds, "in", r, w))
           \/ Ph!Forks(Ph!WithPipe(fds, "in", r, w),
                      Ph!ParentSetUp(Ph!WithPipe(fds, "in", r, w), Ph!Ends(r, w)),
                      "in_open", "PIPES_OPEN_UNI")
  BY <1>1 DEF Ph!PipeOpen, Ph!OpenFails, Ph!handle
<1>3. pipe_fds'[0] = r /\ pipe_fds'[1] = w
  BY <1>2 DEF Ph!Ends
<1>4. fds' = Ph!ParentSetUp(Ph!WithPipe(fds, "in", r, w), Ph!Ends(r, w))
  BY <1>2 DEF Ph!ForkFails, Ph!Forks
<1>5. /\ r # w /\ fds[r] = Ph!Free /\ fds[w] = Ph!Free
      /\ fds \in [Ph!Fd -> Ph!Entries]
  BY <1>2, FdAssumption DEF Ph!IsPipe, Ph!Lowest, Ph!Fd, Ph!TypeOK
<1>6. [fds' EXCEPT ![w] = Ph!Free] = fds
  <2>1. Ph!Ends(r, w)[0] = r
    BY DEF Ph!Ends
  <2>2. fds' = [[fds EXCEPT ![r] = Ph!End("in", opens + 1, "r"),
                            ![w] = Ph!End("in", opens + 1, "w")] EXCEPT ![r] = Ph!Free]
    BY <1>4, <2>1 DEF Ph!ParentSetUp, Ph!WithPipe
  <2> QED
    BY <1>5, <2>2
<1> QED
  BY <1>2, <1>3, <1>6

LEMMA TableFacts ==
  /\ Ph!Waitpid => UNCHANGED <<fds, pipe_fds>>
  /\ Ph!ChildSetUp \/ Ph!ChildExitsOnEof => UNCHANGED <<fds, pipe_fds>>
  /\ Ph!PipeReset /\ state = "PIPES_OPEN_UNI" =>
       fds' = [fds EXCEPT ![pipe_fds[1]] = Ph!Free]
BY DEF Ph!Waitpid, Ph!ChildSetUp, Ph!ChildExitsOnEof, Ph!Exits, Ph!handle,
   Ph!PipeReset, Ph!BeginClose, Ph!CloseEnds

LEMMA OpenKeepsFdPipe ==
  ASSUME Ph!TypeOK, Ph!PipeOpen, fd_pipe' = pipe_fds'[1]
  PROVE  FdPipeIsKept'
<1>1. call' = "none"
  BY OpenFacts
<1>2. CASE state' = "PIPES_OPEN_UNI"
  <2>1. /\ pipe_fds'[0] \in Ph!Fd /\ pipe_fds'[1] \in Ph!Fd
        /\ Ph!IsPipe(fds, pipe_fds'[0], pipe_fds'[1])
        /\ [fds' EXCEPT ![pipe_fds'[1]] = Ph!Free] = fds
    BY <1>2, OpenedPipe
  <2>2. ASSUME NEW r \in Ph!Fd, NEW w \in Ph!Fd, Ph!IsPipe(fds, r, w)
        PROVE  w = fd_pipe'
    BY <2>1, <2>2, PipeIsUnique
  <2>3. NextIsSame([fds EXCEPT ![fd_pipe] = Ph!Free])'
    BY <2>1, <2>2 DEF NextIsSame
  <2> QED
    BY <1>1, <2>3 DEF FdPipeIsKept
<1>3. CASE state' # "PIPES_OPEN_UNI"
  BY <1>1, <1>3 DEF FdPipeIsKept
<1> QED
  BY <1>2, <1>3

\* The number kept from the first pipe_open stays that of the write end.
LEMMA FdPipeKept ==
  ASSUME Ph!IInv, TypeOK, Control, FdPipeIsKept, [Next]_vars,
         "quit" \notin mishaps', \A at : CbUrl(at) => UNCHANGED pipes
  PROVE  FdPipeIsKept'
<1>1. ASSUME UNCHANGED <<pc, fd_pipe, state, call, fds, pipe_fds>>
      PROVE  FdPipeIsKept'
  BY <1>1 DEF FdPipeIsKept, NextIsSame
<1>2. ASSUME pc' \notin {"parse", "reset"}, call' \notin {"pipe_reset", "reopen_uni"}
      PROVE  FdPipeIsKept'
  BY <1>2 DEF FdPipeIsKept
<1>3. CASE UlogInit
  BY <1>2, <1>3, LogFacts DEF UlogInit, Control, pipes
<1>4. CASE Open
  <2>1. CASE state' = "PIPES_OPEN_UNI"
    BY <1>4, <2>1, OpenKeepsFdPipe DEF Open, TypeOK
  <2>2. CASE state' # "PIPES_OPEN_UNI"
    BY <1>2, <1>4, <2>2, OpenFacts DEF Open
  <2> QED
    BY <2>1, <2>2
<1>5. ASSUME NEW at \in Texts,
             \/ CbUrl(at) \/ CbStatusComplete(at) \/ CbHeaderField(at)
             \/ CbHeaderValue(at) \/ CbBody(at)
      PROVE  FdPipeIsKept'
  BY <1>1, <1>5 DEF CbUrl, CbStatusComplete, CbHeaderField, CbHeaderValue,
     CbBody, Calls, pipes
<1>6. CASE CbHeadersComplete
  <2>1. pc = "parse" /\ call = "none" /\ state = "PIPES_OPEN_UNI" /\ UNCHANGED fd_pipe
    BY <1>6 DEF CbHeadersComplete, Calls, Control
  <2>2. CASE pc' = "reset"
    <3>1. Ph!PipeReset /\ call' = "pipe_reset"
      BY <1>6, <2>2, CloseFacts DEF CbHeadersComplete, Ph!PipeReset
    <3>2. /\ fd_pipe = pipe_fds[1]
          /\ NextIsSame([fds EXCEPT ![fd_pipe] = Ph!Free])
      BY <2>1 DEF FdPipeIsKept
    <3>3. fds' = [fds EXCEPT ![fd_pipe] = Ph!Free]
      BY <2>1, <3>1, <3>2, TableFacts
    <3> QED
      BY <2>1, <3>1, <3>2, <3>3 DEF FdPipeIsKept, NextIsSame
  <2>3. CASE pc' # "reset"
    BY <1>2, <1>6, <2>1, <2>3 DEF CbHeadersComplete, WriteHead, pipes
  <2> QED
    BY <2>2, <2>3
<1>7. CASE ResetReturns
  <2>1. CASE state = "PIPES_OPEN_UNI"
    BY <1>7, <2>1 DEF ResetReturns, FdPipeIsKept, NextIsSame, parsed, pipes
  <2>2. CASE state # "PIPES_OPEN_UNI"
    BY <1>2, <1>7, <2>2, LogFacts DEF ResetReturns
  <2> QED
    BY <2>1, <2>2
<1>8. CASE CbMessageComplete
  BY <1>1, <1>8 DEF CbMessageComplete, Calls, pipes
<1>9. CASE Eof \/ InputFails
  BY <1>2, <1>9, LogFacts DEF Eof, InputFails, Control, pipes
<1>10. CASE Close \/ Delete
  BY <1>2, <1>10, CloseFacts DEF Close, Delete, Control, Ph!PipeClose,
     Ph!PipeHandleDelete, pipes
<1>11. CASE WaitsOrReopens
  <2>1. UNCHANGED <<pc, fd_pipe>>
    BY <1>11 DEF WaitsOrReopens, tool, parsed
  <2>2. CASE Ph!Waitpid
    <3>1. state' = "PIPES_CLOSED" /\ call' = Ph!AfterClose /\ UNCHANGED fds
      BY <2>2, WaitFacts, TableFacts
    <3>2. call' = "reopen_uni" => call = "pipe_reset"
      BY <2>2, <3>1, WaitFacts DEF Ph!AfterClose, Ph!Waiting
    <3>3. call' # "pipe_reset"
      BY <2>2, <3>1, WaitFacts DEF Ph!AfterClose, Ph!Waiting
    <3> QED
      BY <2>1, <3>1, <3>2, <3>3 DEF FdPipeIsKept, NextIsSame
  <2>3. CASE call = "reopen_uni" /\ Ph!PipeOpen
    <3>1. CASE state' = "PIPES_OPEN_UNI"
      <4>1. /\ pipe_fds'[0] \in Ph!Fd /\ pipe_fds'[1] \in Ph!Fd
            /\ Ph!IsPipe(fds, pipe_fds'[0], pipe_fds'[1])
        BY <2>3, <3>1, OpenedPipe DEF TypeOK
      <4>2. fd_pipe' = pipe_fds'[1]
        BY <2>1, <2>3, <4>1 DEF FdPipeIsKept, NextIsSame
      <4> QED
        BY <2>3, <4>2, OpenKeepsFdPipe DEF TypeOK
    <3>2. CASE state' # "PIPES_OPEN_UNI"
      BY <2>3, <3>2, OpenFacts DEF FdPipeIsKept
    <3> QED
      BY <3>1, <3>2
  <2> QED
    BY <1>11, <2>2, <2>3 DEF WaitsOrReopens
<1>12. CASE CommandSetUp \/ CommandEnds
  BY <1>1, <1>12, ChildFacts, TableFacts DEF CommandSetUp, CommandEnds, tool, parsed
<1>13. CASE CommandTakes \/ CommandPrints
  BY <1>1, <1>13 DEF CommandTakes, CommandPrints, CommandRuns, tool, parsed, pipes
<1>14. CASE CommandQuits
  BY <1>14 DEF CommandQuits
<1>15. CASE UNCHANGED vars
  BY <1>1, <1>15 DEF vars, tool, parsed, pipes
<1>16. CASE Breaks
  BY <1>2, <1>16 DEF Breaks, Control, pipes
<1> QED
  BY <1>3, <1>4, <1>5, <1>6, <1>7, <1>8, <1>9, <1>10, <1>11, <1>12, <1>13, <1>14, <1>15,
     <1>16
  DEF Next, Tool, Command, Done

-----------------------------------------------------------------------------
\* Fits: no URL is cut, so that nothing is logged about it.
LEMMA ShortUrl ==
  ASSUME TypeOK, Fits, NEW m \in 0 .. Len(input) - 1
  PROVE  Len(input[m + 1].url) < URL_MAX
<1> DEFINE target == input[m + 1].url
           kept == KeptOfUrl(target)
<1>1. input \in Seq(Messages)
  BY InputAssumption DEF TypeOK
<1>2. target \in Text /\ m + 1 \in DOMAIN input
  <2>1. IsMessage(input[m + 1])
    BY <1>1, MessageParts
  <2>2. m + 1 \in DOMAIN input
    BY <1>1
  <2> QED
    BY <2>1, <2>2 DEF IsMessage
<1>3. StartLine(kept) = StartLineUncut(target)
  BY <1>2 DEF Fits
<1> HIDE DEF target
<1>4. URL_MAX - 1 \in Nat /\ STRING_MAX - 1 \in Nat
  BY SizeAssumption
<1>5. kept \in Text /\ Len(kept) <= URL_MAX - 1
  BY <1>2, <1>4, CutType DEF KeptOfUrl
<1> HIDE DEF kept
<1>6. ASSUME NEW text \in Text
      PROVE  StartLineUncut(text) \in Text /\ Len(StartLineUncut(text)) = Len(text) + 2
  <2> DEFINE a == <<"start ">>
             e == <<"\r\n">>
  <2>1. a \in Text /\ e \in Text /\ Len(a) = 1 /\ Len(e) = 1
    BY TextParts
  <2>2. LengthsAdd(Text)
    BY ConcatLengths, Zenon DEF Text
  <2>3. a \o text \in Text /\ Len(a \o text) = Len(a) + Len(text)
    BY <2>1, <2>2, Zenon DEF LengthsAdd
  <2>4. a \o text \o e \in Text /\ Len(a \o text \o e) = Len(a \o text) + Len(e)
    BY <2>1, <2>2, <2>3, Zenon DEF LengthsAdd
  <2>5. Len(text) \in Nat
    BY DEF Text
  <2>6. StartLineUncut(text) = a \o text \o e
    BY DEF StartLineUncut
  <2> HIDE DEF a, e
  <2>7. Len(a \o text \o e) = Len(text) + 2
    BY <2>1, <2>3, <2>4, <2>5
  <2> QED
    BY <2>4, <2>6, <2>7
<1>7. ASSUME NEW text \in Text
      PROVE  Len(Cut(text, STRING_MAX - 1)) <= Len(text)
  BY <1>4 DEF Cut, Text
<1>8. /\ Len(target) \in Nat /\ Len(kept) \in Nat
      /\ Len(StartLine(kept)) <= Len(StartLineUncut(kept))
  <2>1. Len(target) \in Nat /\ Len(kept) \in Nat
    BY <1>2, <1>5 DEF Text
  <2>2. StartLineUncut(kept) \in Text
    BY <1>5, <1>6
  <2>3. Len(Cut(StartLineUncut(kept), STRING_MAX - 1)) <= Len(StartLineUncut(kept))
    BY <1>7, <2>2
  <2> QED
    BY <2>1, <2>3 DEF StartLine
<1>9. Len(target) + 2 <= Len(kept) + 2
  <2>1. Len(StartLineUncut(kept)) = Len(kept) + 2
    BY <1>5, <1>6
  <2>2. Len(StartLineUncut(target)) = Len(target) + 2
    BY <1>2, <1>6
  <2> QED
    BY <1>3, <1>8, <2>1, <2>2
<1>10. Len(target) < URL_MAX
  BY <1>5, <1>8, <1>9, SizeAssumption
<1> QED
  BY <1>10 DEF target

\* What the command does moves its bytes on, in their order.
LEMMA CommandKeepsSent ==
  ASSUME TypeOK, CommandTakes \/ CommandPrints
  PROVE  Sent' = Sent
<1>1. taken \in Text /\ in_pipe \in Text /\ stdout \in Written
  BY DEF TypeOK, Written
<1>2. CASE CommandTakes
  <2>1. taken' = taken \o in_pipe /\ in_pipe' = <<>> /\ stdout' = stdout
    BY <1>2 DEF CommandTakes
  <2>2. (taken \o in_pipe) \o <<>> = taken \o in_pipe
    BY <1>1, NothingAdded, TextParts DEF Text
  <2> QED
    BY <2>1, <2>2 DEF Sent
<1>3. CASE CommandPrints
  <2>1. PICK n \in DOMAIN taken :
          /\ stdout' = stdout \o By("command", SubSeq(taken, 1, n))
          /\ taken' = SubSeq(taken, n + 1, Len(taken))
    BY <1>3 DEF CommandPrints
  <2>2. in_pipe' = in_pipe
    BY <1>3 DEF CommandPrints
  <2> DEFINE a == SubSeq(taken, 1, n)
             b == SubSeq(taken, n + 1, Len(taken))
  <2>3. taken = a \o b /\ a \in Text /\ b \in Text
    <3>1. taken \in Seq(STRING) /\ n \in 0 .. Len(taken) /\ n + 1 \in Nat \ {0}
          /\ Len(taken) \in 0 .. Len(taken) /\ 1 \in Nat \ {0}
      BY <1>1 DEF Text
    <3>2. a \in Seq(STRING) /\ b \in Seq(STRING)
      BY <3>1, PartSeq
    <3>3. a \o b = taken
      BY <3>1, InTwoParts
    <3> QED
      BY <3>2, <3>3 DEF Text
  <2> HIDE DEF a, b
  <2>4. By("command", taken \o in_pipe) = By("command", a) \o By("command", b \o in_pipe)
    <3>1. Associative(Text)
      BY ConcatIsAssociative, Zenon DEF Text
    <3>2. a \o b \o in_pipe = a \o (b \o in_pipe)
      <4>1. a \in Text /\ b \in Text /\ in_pipe \in Text
        BY <1>1, <2>3
      <4> QED
        BY <3>1, <4>1, Zenon DEF Associative
    <3>3. b \o in_pipe \in Text
      BY <1>1, <2>3, TextParts
    <3>4. By("command", a \o (b \o in_pipe)) = By("command", a) \o By("command", b \o in_pipe)
      BY <2>3, <3>3, ByParts
    <3> QED
      BY <2>3, <3>2, <3>4
  <2> DEFINE x == By("command", a)
             y == By("command", b \o in_pipe)
  <2>5. x \in Written /\ y \in Written
    BY <1>1, <2>3, TextParts, ByType DEF Written
  <2>6. Sent = stdout \o (x \o y) /\ Sent' = (stdout \o x) \o y
    BY <2>1, <2>2, <2>4 DEF Sent, a, b
  <2> HIDE DEF x, y
  <2>7. Associative(Written)
    BY ConcatIsAssociative, Zenon DEF Written
  <2>8. (stdout \o x) \o y = stdout \o (x \o y)
    BY <1>1, <2>5, <2>7, Zenon DEF Associative
  <2> QED
    BY <2>6, <2>8
<1> QED
  BY <1>2, <1>3

LEMMA PrefixOfPrefix ==
  ASSUME NEW S, NEW r \in Seq(S), NEW s \in Seq(S), NEW t \in Seq(S),
         IsPrefix(r, s), IsPrefix(s, t)
  PROVE  IsPrefix(r, t)
BY DEF IsPrefix

\* What was sent is a beginning of what is expected, wherever the tool is.
LEMMA SentIsPrefix ==
  ASSUME TypeOK, Somewhere
  PROVE  IsPrefix(Sent, Expected)
<1>1. Sent \in Written /\ input \in Seq(Messages)
  BY SentType, InputAssumption DEF TypeOK
<1>2. ASSUME NEW x \in Written, Sent \o x = Expected
      PROVE  IsPrefix(Sent, Expected)
  BY <1>1, <1>2, IsPrefixConcat DEF Written
<1>3. HasRests(Messages, Seq(Messages))
  BY Rests, Zenon
<1>4. ASSUME NEW m \in 0 .. Len(input)
      PROVE  Outs(Rest(input, m)) \in Written
  <2>1. Rest(input, m) \in Seq(Messages)
    BY <1>1, <1>3, Zenon DEF HasRests
  <2> QED
    BY <2>1, OutsType
<1>5. ASSUME NEW m \in 0 .. Len(input), Sent \o Outs(Rest(input, m)) = Expected
      PROVE  IsPrefix(Sent, Expected)
  BY <1>2, <1>4, <1>5
<1>6. ASSUME NEW m \in 0 .. Len(input) - 1, NEW j \in 0 .. Len(input[m + 1].body),
             InBody(m, j)
      PROVE  IsPrefix(Sent, Expected)
  <2> DEFINE b == By("tool", FlattenSeq(Rest(input[m + 1].body, j)))
             more == Outs(Rest(input, m + 1))
  <2>1. IsMessage(input[m + 1]) /\ m + 1 \in 0 .. Len(input)
    BY <1>1, MessageParts
  <2>2. Rest(input[m + 1].body, j) \in Seq(Text)
    <3>1. HasRests(Text, Seq(Text))
      BY Rests, Zenon
    <3>2. input[m + 1].body \in Seq(Text)
      BY <2>1 DEF IsMessage
    <3> QED
      BY <3>1, <3>2, Zenon DEF HasRests
  <2>3. FlattenSeq(Rest(input[m + 1].body, j)) \in Text
    BY <2>2, FlattenType DEF Text
  <2>4. b \in Written /\ more \in Written
    BY <1>4, <2>1, <2>3, ByType DEF Written
  <2>5. Sent \o b \o more = Expected
    BY <1>6 DEF InBody
  <2> HIDE DEF b, more
  <2>6. Associative(Written) /\ LengthsAdd(Written)
    BY ConcatIsAssociative, ConcatLengths, Zenon DEF Written
  <2>7. Sent \o (b \o more) = Expected
    <3>1. Sent \o b \o more = Sent \o (b \o more)
      BY <1>1, <2>4, <2>6, Zenon DEF Associative
    <3> QED
      BY <2>5, <3>1
  <2>8. b \o more \in Written
    BY <2>4, <2>6, Zenon DEF LengthsAdd
  <2> QED
    BY <1>2, <2>7, <2>8
<1>7. CASE \E m \in 0 .. Len(input) : AtMessage(m)
  BY <1>5, <1>7 DEF AtMessage
<1>8. CASE \E m \in 0 .. Len(input) - 1 :
             \/ \E j \in 0 .. Len(input[m + 1].fields) : InHead(m, j)
             \/ \E j \in 0 .. Len(input[m + 1].fields) - 1 : AtValue(m, j)
  <2>1. PICK m \in 0 .. Len(input) - 1 : Sent \o Outs(Rest(input, m)) = Expected
    BY <1>8 DEF InHead, AtValue
  <2>2. m \in 0 .. Len(input)
    BY <1>1, MessageParts
  <2> QED
    BY <1>5, <2>1, <2>2
<1>9. CASE \E m \in 0 .. Len(input) - 1 :
             \E j \in 0 .. Len(input[m + 1].body) : InBody(m, j)
  BY <1>6, <1>9
<1> QED
  BY <1>7, <1>8, <1>9 DEF Somewhere

\* A callback moves the tool on to the next place in the input.
LEMMA CallbackMovesOn ==
  ASSUME WholeTexts, Ph!IInv, ToolInv, TypeOK', Fits, PlainMessages(input), FdPipeIsKept, Somewhere,
         \/ \E at \in Texts : \/ CbUrl(at) \/ CbStatusComplete(at)
                              \/ CbHeaderField(at) \/ CbHeaderValue(at)
                              \/ CbBody(at)
         \/ CbHeadersComplete \/ CbMessageComplete
  PROVE  pc' = "killed" \/ Somewhere'
<1>1. TypeOK /\ Control /\ OnTheWay
  BY DEF ToolInv
<1>2. input \in Seq(Messages) /\ Len(input) \in Nat
  <2>1. input \in Seq(Messages)
    BY <1>1, InputAssumption DEF TypeOK
  <2> QED
    BY <2>1
<1>3. PICK at : \/ CbUrl(at) \/ CbStatusComplete(at) \/ CbHeaderField(at)
                \/ CbHeaderValue(at) \/ CbBody(at)
                \/ (CbHeadersComplete \/ CbMessageComplete) /\ at = <<>>
  OBVIOUS
<1>4. PICK cb : Calls(cb, at)
  BY <1>3 DEF CbUrl, CbStatusComplete, CbHeaderField, CbHeaderValue, CbBody,
     CbHeadersComplete, CbMessageComplete
<1>5. todo # <<>> /\ Head(todo).cb = cb /\ pc = "parse" /\ UNCHANGED input
  BY <1>4 DEF Calls, history
<1>6. /\ CbUrl(at) => cb = "url"
      /\ CbStatusComplete(at) => cb = "status"
      /\ CbHeaderField(at) => cb = "header_field"
      /\ CbHeaderValue(at) => cb = "header_value"
      /\ CbBody(at) => cb = "body"
      /\ CbHeadersComplete => cb = "headers_complete"
      /\ CbMessageComplete => cb = "message_complete"
  BY <1>5 DEF CbUrl, CbStatusComplete, CbHeaderField, CbHeaderValue, CbBody,
     CbHeadersComplete, CbMessageComplete, Calls
<1>7. ASSUME NEW cb1, NEW at1, NEW calls, First(todo, cb1, at1, calls)
      PROVE  cb = cb1 /\ at = at1 /\ todo' = calls
  BY <1>1, <1>4, <1>7, WholePiece
<1>8. /\ call = "none" /\ state = "PIPES_OPEN_UNI"
      /\ in_pipe = <<>> /\ taken = <<>>
  BY <1>1, <1>5 DEF Control, OnTheWay
<1>9. Sent = stdout /\ stdout \in Written
  BY <1>1, <1>8, SentType
<1>10. CASE \E m \in 0 .. Len(input) - 1 : AtStart(m)
  <2>1. PICK m \in 0 .. Len(input) - 1 : AtStart(m)
    BY <1>10
  <2>2. /\ cb \in {"url", "status"} /\ at = input[m + 1].url
        /\ todo' = HeadCalls(input, m, 0)
    BY <1>7, <2>1 DEF AtStart
  <2>3. UNCHANGED <<sbuf, data>> /\ url' = KeptOfUrl(at)
    <3>1. CbUrl(at) \/ CbStatusComplete(at)
      BY <1>3, <1>6, <2>2
    <3>2. Len(at) < URL_MAX
      BY <1>1, <2>2, ShortUrl
    <3>3. StatusEnd(at) < URL_MAX
      BY <3>2 DEF StatusEnd
    <3> QED
      BY <3>1, <3>3 DEF CbUrl, CbStatusComplete
  <2>4. Sent' = Sent
    BY <2>3 DEF Sent, data
  <2>5. InHead(m, 0)'
    BY <1>1, <1>5, <2>1, <2>2, <2>3, <2>4, StartKept
  <2>6. 0 \in 0 .. Len(input[m + 1].fields)
    BY <1>2, MessageParts DEF IsMessage
  <2> QED
    BY <1>5, <2>5, <2>6 DEF Somewhere
<1>11. CASE \E m \in 0 .. Len(input) - 1 :
              \E j \in 0 .. Len(input[m + 1].fields) - 1 : AtName(m, j)
  <2> PICK m \in 0 .. Len(input) - 1 : \E j \in 0 .. Len(input[m + 1].fields) - 1 : AtName(m, j)
    BY <1>11
  <2>1. PICK j \in 0 .. Len(input[m + 1].fields) - 1 : AtName(m, j)
    OBVIOUS
  <2>2. /\ cb = "header_field" /\ at = input[m + 1].fields[j + 1].name
        /\ todo' = ValueCalls(input, m, j)
    BY <1>7, <2>1 DEF AtName
  <2>3. UNCHANGED <<url, data>> /\ sbuf' = sbuf \o at \o <<": ">>
    BY <1>3, <1>6, <2>2 DEF CbHeaderField
  <2>4. Sent' = Sent
    BY <2>3 DEF Sent, data
  <2>5. AtValue(m, j)'
    BY <1>1, <1>5, <2>1, <2>2, <2>3, <2>4, NameKept
  <2> QED
    BY <1>5, <2>5 DEF Somewhere
<1>12. CASE \E m \in 0 .. Len(input) - 1 :
              \E j \in 0 .. Len(input[m + 1].fields) - 1 : AtItsValue(m, j)
  <2> PICK m \in 0 .. Len(input) - 1 : \E j \in 0 .. Len(input[m + 1].fields) - 1 : AtItsValue(m, j)
    BY <1>12
  <2>1. PICK j \in 0 .. Len(input[m + 1].fields) - 1 : AtItsValue(m, j)
    OBVIOUS
  <2>2. /\ cb = "header_value" /\ at = input[m + 1].fields[j + 1].value
        /\ todo' = HeadCalls(input, m, j + 1)
    BY <1>7, <2>1 DEF AtItsValue
  <2>3. UNCHANGED <<url, data>> /\ sbuf' = sbuf \o at \o <<"\r\n">>
    BY <1>3, <1>6, <2>2 DEF CbHeaderValue
  <2>4. Sent' = Sent
    BY <2>3 DEF Sent, data
  <2>5. InHead(m, j + 1)'
    BY <1>5, <2>1, <2>2, <2>3, <2>4, ValueKept
  <2>6. j + 1 \in 0 .. Len(input[m + 1].fields)
    <3>1. Len(input[m + 1].fields) \in Nat
      BY <1>2, MessageParts DEF IsMessage
    <3> QED
      BY <3>1, NextIndex, Zenon
  <2> QED
    BY <1>5, <2>5, <2>6 DEF Somewhere
<1>13. CASE \E m \in 0 .. Len(input) - 1 :
              \E j \in 0 .. Len(input[m + 1].body) - 1 : AtPiece(m, j)
  <2> PICK m \in 0 .. Len(input) - 1 : \E j \in 0 .. Len(input[m + 1].body) - 1 : AtPiece(m, j)
    BY <1>13
  <2>1. PICK j \in 0 .. Len(input[m + 1].body) - 1 : AtPiece(m, j)
    OBVIOUS
  <2>2. /\ cb = "body" /\ at = input[m + 1].body[j + 1]
        /\ todo' = BodyCalls(input, m, j + 1)
    BY <1>7, <2>1 DEF AtPiece
  <2>3. UNCHANGED <<sbuf, in_pipe, taken>> /\ stdout' = stdout \o By("tool", at)
    BY <1>3, <1>6, <2>2 DEF CbBody
  <2>4. Sent' = stdout'
    <3>1. (in_pipe = <<>> /\ taken = <<>> => Sent = stdout)'
      BY SentType, PTL
    <3> QED
      BY <1>8, <2>3, <3>1
  <2>5. InBody(m, j + 1)'
    BY <1>1, <1>5, <1>9, <2>1, <2>2, <2>3, <2>4, PieceKept
  <2>6. j + 1 \in 0 .. Len(input[m + 1].body)
    <3>1. Len(input[m + 1].body) \in Nat
      BY <1>2, MessageParts DEF IsMessage
    <3> QED
      BY <3>1, NextIndex, Zenon
  <2> QED
    BY <1>5, <2>5, <2>6 DEF Somewhere
<1>14. CASE \E m \in 0 .. Len(input) - 1 : AtEnd(m)
  <2>1. PICK m \in 0 .. Len(input) - 1 : AtEnd(m)
    BY <1>14
  <2>2. cb = "message_complete" /\ todo' = MessageCalls(input, m + 1)
    BY <1>7, <2>1 DEF AtEnd
  <2>3. UNCHANGED <<sbuf, data>>
    BY <1>3, <1>6, <2>2 DEF CbMessageComplete
  <2>4. Sent' = Sent
    BY <2>3 DEF Sent, data
  <2>5. AtMessage(m + 1)'
    BY <1>1, <1>5, <2>1, <2>2, <2>3, <2>4, EndKept
  <2>6. m + 1 \in 0 .. Len(input)
    BY <1>2, MessageParts
  <2> QED
    BY <1>5, <2>5, <2>6 DEF Somewhere
<1>15. CASE \E m \in 0 .. Len(input) - 1 : AtEndOfHead(m)
  <2>1. PICK m \in 0 .. Len(input) - 1 : AtEndOfHead(m)
    BY <1>15
  <2>2. cb = "headers_complete" /\ todo' = BodyCalls(input, m, 0)
    BY <1>7, <2>1 DEF AtEndOfHead
  <2> DEFINE head == StartLine(url) \o sbuf \o <<"\r\n">>
  <2>3. WriteHead(head) /\ sbuf' = <<>> /\ UNCHANGED <<taken, stdout>>
    BY <1>3, <1>6, <2>2 DEF CbHeadersComplete
  <2>4. IsCommandInput(fd_pipe)
    <3>1. fd_pipe = pipe_fds[1]
      BY <1>5, <1>8 DEF FdPipeIsKept
    <3>2. fds[pipe_fds[1]] = Ph!End("in", opens, "w") /\ proc = opens
      BY <1>8 DEF Ph!IInv, Ph!HeldOK, Ph!ProcOK, Ph!Opened
    <3> QED
      BY <3>1, <3>2 DEF IsCommandInput
  <2>5. pc' # "killed" => in_pipe' = in_pipe \o head
    BY <2>3, <2>4 DEF WriteHead
  <2>6. SUFFICES ASSUME pc' # "killed" PROVE InBody(m, 0)'
    <3>1. 0 \in 0 .. Len(input[m + 1].body)
      BY <1>2, MessageParts DEF IsMessage
    <3> QED
      BY <1>5, <3>1 DEF Somewhere
  <2>7. Sent' = Sent \o By("command", head)
    <3>1. in_pipe' \in Text
      BY DEF TypeOK
    <3>2. taken' \o in_pipe' = in_pipe'
      BY <1>8, <2>3, <3>1 DEF Text
    <3>3. in_pipe' = <<>> \o head
      BY <1>8, <2>5, <2>6
    <3>4. head \in Text
      <4>1. url \in Text /\ sbuf \in Text
        BY <1>1 DEF TypeOK
      <4>2. StartLineUncut(url) \in Text
        BY <4>1, TextParts DEF StartLineUncut
      <4>3. STRING_MAX - 1 \in Nat
        BY SizeAssumption
      <4>4. StartLine(url) \in Text
        BY <4>2, <4>3, CutType DEF StartLine
      <4> QED
        BY <4>1, <4>4, TextParts
    <3>5. <<>> \o head = head
      BY <3>4 DEF Text
    <3> QED
      BY <1>9, <2>3, <3>2, <3>3, <3>5 DEF Sent
  <2> QED
    BY <1>1, <1>5, <2>1, <2>2, <2>3, <2>7, HeadKept
<1> QED
  BY <1>1, <1>5, <1>10, <1>11, <1>12, <1>13, <1>14, <1>15, WhereItIs

LEMMA OrderStarts == Init => OrderInv
<1> SUFFICES ASSUME Init PROVE OrderInv
  OBVIOUS
<1>1. input \in Seq(Messages) /\ Len(input) \in Nat
  <2>1. input \in Seq(Messages)
    BY InputAssumption DEF Init
  <2> QED
    BY <2>1
<1>2. TypeOK
  BY ToolStarts DEF ToolInv
<1>3. /\ todo = Stream(input) /\ sbuf = <<>> /\ stdout = <<>> /\ taken = <<>>
      /\ in_pipe = <<>> /\ pc = "start" /\ call = "none"
  BY DEF Init, Ph!Init
<1>4. Sent = <<>>
  BY <1>2, <1>3, SentType
<1>5. Rest(input, 0) = input
  <2>1. HasRests(Messages, Seq(Messages))
    BY Rests, Zenon
  <2> QED
    BY <1>1, <2>1, Zenon DEF HasRests
<1>6. <<>> \o Outs(input) = Outs(input)
  BY <1>1, OutsType DEF Written
<1>7. AtMessage(0)
  BY <1>3, <1>4, <1>5, <1>6 DEF AtMessage, MessageCalls, Expected
<1>8. Somewhere
  <2>1. 0 \in 0 .. Len(input)
    BY <1>1
  <2> QED
    BY <1>7, <2>1 DEF Somewhere
<1>9. FdPipeIsKept
  BY <1>3 DEF FdPipeIsKept
<1> QED
  BY <1>2, <1>8, <1>9, SentIsPrefix DEF OrderInv

\* Every step keeps the order: a callback moves the tool on, a step between
\* two callbacks leaves it where it is.
LEMMA OrderKept ==
  ASSUME WholeTexts, Ph!IInv, ToolInv, TypeOK', OrderInv, [Next]_vars
  PROVE  OrderInv'
<1>1. UNCHANGED input /\ mishaps \subseteq mishaps'
  BY HistoryKept
<1> SUFFICES ASSUME Fits, PlainMessages(input), "quit" \notin mishaps'
             PROVE  /\ FdPipeIsKept'
                    /\ pc' # "killed" => Somewhere'
                    /\ IsPrefix(Sent', Expected')
  BY <1>1, SameCalls DEF OrderInv
<1>2. /\ FdPipeIsKept /\ (pc # "killed" => Somewhere) /\ IsPrefix(Sent, Expected)
      /\ TypeOK /\ Control /\ OnTheWay
  BY <1>1 DEF OrderInv, ToolInv
<1>3. FdPipeIsKept'
  <2>1. ASSUME NEW at, CbUrl(at)
        PROVE  UNCHANGED pipes
    <3>1. pc = "parse" /\ todo # <<>> /\ Head(todo).cb = "url" /\ Calls("url", at)
      BY <2>1 DEF CbUrl, Calls
    <3>2. PICK m \in 0 .. Len(input) - 1 : AtStart(m)
      <4>1. ~\E m \in 0 .. Len(input) - 1 :
              \/ AtEndOfHead(m) \/ AtEnd(m)
              \/ \E j \in 0 .. Len(input[m + 1].fields) - 1 : AtName(m, j) \/ AtItsValue(m, j)
              \/ \E j \in 0 .. Len(input[m + 1].body) - 1 : AtPiece(m, j)
        BY <3>1 DEF AtEndOfHead, AtEnd, AtName, AtItsValue, AtPiece, First, Callback
      <4> QED
        BY <1>2, <3>1, <4>1, WhereItIs
    <3>3. at = input[m + 1].url
      BY <1>2, <3>1, <3>2, WholePiece DEF AtStart
    <3>4. Len(at) < URL_MAX /\ URL_MAX \in Nat /\ Len(at) \in Nat
      <4>1. input \in Seq(Messages)
        BY <1>2, InputAssumption DEF TypeOK
      <4>2. at \in Text
        BY <3>3, <4>1, MessageParts DEF IsMessage
      <4> QED
        BY <1>2, <3>3, <4>2, ShortUrl, SizeAssumption DEF Text
    <3>5. ~(Len(at) >= URL_MAX)
      BY <3>4
    <3> QED
      BY <2>1, <3>5 DEF CbUrl
  <2> QED
    BY <1>2, <2>1, FdPipeKept
<1>4. SUFFICES (pc' # "killed" => Somewhere') /\ (pc' = "killed" => Sent' = Sent)
  <2>1. Expected' = Expected
    BY <1>1, SameCalls
  <2>2. ASSUME Somewhere' PROVE IsPrefix(Sent', Expected')
    <3>1. (TypeOK /\ Somewhere => IsPrefix(Sent, Expected))'
      BY SentIsPrefix, PTL
    <3> QED
      BY <2>2, <3>1
  <2> QED
    BY <1>2, <1>3, <2>1, <2>2
<1>5. ASSUME UNCHANGED <<todo, url, sbuf>>, Sent' = Sent, pc = "killed" => pc' = "killed"
      PROVE  (pc' # "killed" => Somewhere') /\ (pc' = "killed" => Sent' = Sent)
  BY <1>1, <1>2, <1>5, StaysPut
<1>6. ASSUME UNCHANGED data PROVE Sent' = Sent
  BY <1>6 DEF Sent, data
<1>7. CASE UlogInit \/ Open \/ ResetReturns \/ Eof \/ InputFails \/ Close \/ Delete
  BY <1>5, <1>6, <1>7 DEF UlogInit, Open, ResetReturns, Eof, InputFails, Close,
     Delete, history, parsed
<1>8. CASE \/ \E at \in Texts : \/ CbUrl(at) \/ CbStatusComplete(at)
                                \/ CbHeaderField(at) \/ CbHeaderValue(at)
                                \/ CbBody(at)
           \/ CbHeadersComplete \/ CbMessageComplete
  <2>1. pc = "parse"
    BY <1>8 DEF CbUrl, CbStatusComplete, CbHeaderField, CbHeaderValue, CbBody,
       CbHeadersComplete, CbMessageComplete, Calls
  <2>2. pc' = "killed" \/ Somewhere'
    BY <1>2, <1>8, <2>1, CallbackMovesOn
  <2>3. ASSUME pc' = "killed" PROVE Sent' = Sent
    <3>1. CbHeadersComplete
      BY <1>8, <2>1, <2>3 DEF CbUrl, CbStatusComplete, CbHeaderField,
         CbHeaderValue, CbBody, CbMessageComplete
    <3>2. UNCHANGED <<in_pipe, taken, stdout>>
      BY <2>3, <3>1 DEF CbHeadersComplete, WriteHead
    <3> QED
      BY <3>2 DEF Sent
  <2> QED
    BY <2>2, <2>3
<1>9. CASE WaitsOrReopens \/ Breaks \/ CommandSetUp \/ CommandEnds \/ UNCHANGED vars
  BY <1>5, <1>6, <1>9 DEF WaitsOrReopens, Breaks, CommandSetUp, CommandEnds, vars,
     tool, parsed
<1>10. CASE CommandTakes \/ CommandPrints
  BY <1>2, <1>5, <1>10, CommandKeepsSent DEF CommandTakes, CommandPrints,
     CommandRuns, tool, parsed
<1>11. CASE CommandQuits
  BY <1>11 DEF CommandQuits
<1> QED
  BY <1>7, <1>8, <1>9, <1>10, <1>11 DEF Next, Tool, Command, Done

\* As long as texts are whole, the copies long enough, messages plain and no
\* command quits: the tool is at a place in the input at which what it has
\* sent, holds and is still to be given make what is expected.
THEOREM OrderInvariant == WholeTexts => (Spec => []OrderInv)
<1> SUFFICES ASSUME WholeTexts PROVE Spec => []OrderInv
  OBVIOUS
<1>1. ToolInv => TypeOK
  BY DEF ToolInv
<1>2. Ph!IInv /\ ToolInv /\ TypeOK' /\ OrderInv /\ [Next]_vars => OrderInv'
  BY OrderKept
<1> QED
  BY <1>1, <1>2, OrderStarts, HandleInvariant, ToolInvariant, PTL DEF Spec

\* As long as texts are whole, commands read to the end of their input, and
\* the input is one whose copies fit: nothing is on stdout out of its order.
THEOREM InOrder == WholeTexts => (Spec => []OutputInOrder)
<1> SUFFICES ASSUME WholeTexts PROVE Spec => []OutputInOrder
  OBVIOUS
<1>1. ToolInv /\ OrderInv => OutputInOrder
  <2> SUFFICES ASSUME ToolInv, OrderInv, Fits, PlainMessages(input), "quit" \notin mishaps
               PROVE  IsPrefix(stdout, Expected)
    BY DEF OutputInOrder
  <2>1. TypeOK /\ IsPrefix(Sent, Expected)
    BY DEF ToolInv, OrderInv
  <2>2. IsPrefix(stdout, Sent) /\ Sent \in Written /\ stdout \in Written
    BY <2>1, SentType
  <2>3. Expected \in Written
    <3>1. input \in Seq(Messages)
      BY <2>1, InputAssumption DEF TypeOK
    <3> QED
      BY <3>1, OutsType DEF Expected
  <2> QED
    BY <2>1, <2>2, <2>3, PrefixOfPrefix DEF Written
<1> QED
  BY <1>1, OrderInvariant, ToolInvariant, PTL

\* A tool that will exit with EX_OK has had every callback.
LEMMA EndsKept == Spec => []EndsAtTheEnd
<1>1. Init => EndsAtTheEnd
  BY DEF Init, EndsAtTheEnd
<1>2. EndsAtTheEnd /\ [Next]_vars => EndsAtTheEnd'
  <2> SUFFICES ASSUME EndsAtTheEnd, [Next]_vars PROVE EndsAtTheEnd'
    OBVIOUS
  <2> USE DEF EndsAtTheEnd
  <2>1. CASE UlogInit \/ Open
    BY <2>1 DEF UlogInit, Open, history
  <2>2. ASSUME NEW at \in Texts,
               \/ CbUrl(at) \/ CbStatusComplete(at) \/ CbHeaderField(at)
               \/ CbHeaderValue(at) \/ CbBody(at)
        PROVE  EndsAtTheEnd'
    BY <2>2 DEF CbUrl, CbStatusComplete, CbHeaderField, CbHeaderValue, CbBody, Calls,
       PutsEnd
  <2>3. CASE CbHeadersComplete \/ CbMessageComplete
    BY <2>3 DEF CbHeadersComplete, CbMessageComplete, Calls, WriteHead
  <2>4. CASE ResetReturns \/ InputFails
    BY <2>4 DEF ResetReturns, InputFails
  <2>5. CASE Eof
    BY <2>5 DEF Eof
  <2>6. CASE Close \/ Delete
    BY <2>6 DEF Close, Delete, history
  <2>7. CASE WaitsOrReopens \/ Breaks \/ CommandSetUp \/ CommandTakes \/ CommandPrints
             \/ CommandEnds \/ UNCHANGED vars
    BY <2>7 DEF WaitsOrReopens, Breaks, CommandSetUp, CommandTakes, CommandPrints,
       CommandEnds, CommandRuns, vars, tool, history
  <2>8. CASE CommandQuits
    BY <2>8 DEF CommandQuits
  <2> QED
    BY <2>1, <2>2, <2>3, <2>4, <2>5, <2>6, <2>7, <2>8 DEF Next, Tool, Command, Done
<1> QED
  BY <1>1, <1>2, PTL DEF Spec

\* Under the same conditions an exit code of EX_OK means that all of the
\* output is there, unless the input was cut off.
THEOREM ExitIsPrinted == WholeTexts => (Spec => []ExitMeansPrinted)
<1> SUFFICES ASSUME WholeTexts PROVE Spec => []ExitMeansPrinted
  OBVIOUS
<1>1. ToolInv /\ OrderInv /\ EndsAtTheEnd => ExitMeansPrinted
  <2> SUFFICES ASSUME ToolInv, OrderInv, EndsAtTheEnd, Fits, PlainMessages(input), mishaps = {},
                      pc = "exit", rc = "EX_OK"
               PROVE  stdout = Expected
    BY DEF ExitMeansPrinted
  <2>1. TypeOK /\ Somewhere /\ todo = <<>>
    BY DEF ToolInv, OrderInv, EndsAtTheEnd
  <2>2. in_pipe = <<>> /\ taken = <<>>
    BY DEF ToolInv, Control, OnTheWay
  <2>3. Sent = stdout /\ stdout \in Written
    BY <2>1, <2>2, SentType
  <2>4. AtMessage(Len(input))
    <3>1. ~\E m \in 0 .. Len(input) - 1 :
            \/ AtStart(m) \/ AtEndOfHead(m) \/ AtEnd(m)
            \/ \E j \in 0 .. Len(input[m + 1].fields) - 1 : AtName(m, j) \/ AtItsValue(m, j)
            \/ \E j \in 0 .. Len(input[m + 1].body) - 1 : AtPiece(m, j)
      BY <2>1 DEF AtStart, AtEndOfHead, AtEnd, AtName, AtItsValue, AtPiece, First
    <3> QED
      BY <2>1, <3>1, WhereItIs
  <2>5. Outs(Rest(input, Len(input))) = <<>>
    <3>1. input \in Seq(Messages)
      BY <2>1, InputAssumption DEF TypeOK
    <3>2. HasRests(Messages, Seq(Messages))
      BY Rests, Zenon
    <3>3. Rest(input, Len(input)) = <<>>
      BY <3>1, <3>2, Zenon DEF HasRests
    <3> QED
      BY <3>3, NothingIsDue
  <2>6. stdout \o <<>> = stdout
    BY <2>3, NothingAdded DEF Written
  <2> QED
    BY <2>3, <2>4, <2>5, <2>6 DEF AtMessage
<1> QED
  BY <1>1, OrderInvariant, ToolInvariant, EndsKept, PTL
=============================================================================
