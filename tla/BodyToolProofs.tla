-------------------------- MODULE BodyToolProofs --------------------------
(***************************************************************************)
(* The body tool keeps to Pipes, also to its stricter client that reads to *)
(* end of file before it closes a handle it sent end of file on, and       *)
(* leaves no command behind; and, as long as no read cuts a text, it       *)
(* prints the messages in order, each body as the command made it.  Cut or *)
(* not, and whatever fails, each length it prints is that of the body      *)
(* behind it.  All of it for every input, every filter, every number of    *)
(* descriptors and of opens and every size of the pipes.                   *)
(***************************************************************************)
EXTENDS BodyTool, CallbacksProofs

P == INSTANCE PipesProofs

-----------------------------------------------------------------------------
\* Ph and P are instances of the same definitions.
LEMMA SamePipes ==
  /\ Ph!Init <=> P!Init
  /\ Ph!Next <=> P!Next
  /\ Ph!IInv <=> P!IInv
<1> USE DEF
        Ph!Std, P!Std, Ph!Log, P!Log, Ph!Fd, P!Fd, Ph!States, P!States, Ph!Entry,
        P!Entry, Ph!Free, P!Free, Ph!End, P!End, Ph!Entries, P!Entries, Ph!NoFds,
        P!NoFds, Ph!Holds, P!Holds, Ph!Held, P!Held, Ph!Lowest, P!Lowest,
        Ph!IsPipe, P!IsPipe, Ph!NoPipe, P!NoPipe, Ph!Ends, P!Ends, Ph!WithPipe,
        P!WithPipe, Ph!ParentSetUp, P!ParentSetUp, Ph!ParentSetUp2,
        P!ParentSetUp2, Ph!ChildCloses, P!ChildCloses, Ph!ChildCloses2,
        P!ChildCloses2, Ph!ChildDups, P!ChildDups, Ph!ChildDups2, P!ChildDups2,
        Ph!Exec, P!Exec, Ph!Init, P!Init, Ph!MayOpen, P!MayOpen, Ph!OpenFails,
        P!OpenFails, Ph!ForkFails, P!ForkFails, Ph!Forks, P!Forks, Ph!PipeOpen,
        P!PipeOpen, Ph!PipeOpen2, P!PipeOpen2, Ph!PipeSendEof, P!PipeSendEof,
        Ph!MayRead, P!MayRead, Ph!ReadData, P!ReadData, Ph!ReadEof, P!ReadEof,
        Ph!CloseEnds, P!CloseEnds, Ph!BeginClose, P!BeginClose, Ph!PipeClose,
        P!PipeClose, Ph!PipeReset, P!PipeReset, Ph!PipeHandleDelete,
        P!PipeHandleDelete, Ph!Waiting, P!Waiting, Ph!AfterClose, P!AfterClose,
        Ph!Waitpid, P!Waitpid, Ph!ChildSetUp, P!ChildSetUp, Ph!Exits, P!Exits,
        Ph!ChildAborts, P!ChildAborts, Ph!ChildExitsOnEof, P!ChildExitsOnEof,
        Ph!ChildExitsEarly, P!ChildExitsEarly, Ph!ChildBlocks, P!ChildBlocks,
        Ph!ChildKilled, P!ChildKilled, Ph!LogConnect, P!LogConnect, Ph!LogClose,
        P!LogClose, Ph!Done, P!Done, Ph!Next, P!Next, Ph!TypeOK, P!TypeOK,
        Ph!StdioUntouched, P!StdioUntouched, Ph!LeakOrigin, P!LeakOrigin,
        Ph!Opened, P!Opened, Ph!Bi, P!Bi, Ph!IsEnd, P!IsEnd, Ph!CallOK, P!CallOK,
        Ph!NumbersOK, P!NumbersOK, Ph!ProcOK, P!ProcOK, Ph!SlotsOK, P!SlotsOK,
        Ph!HeldOK, P!HeldOK, Ph!EndsOK, P!EndsOK, Ph!ChildOK, P!ChildOK, Ph!IInv,
        P!IInv, Ph!handle, P!handle, Ph!process, P!process, Ph!history, P!history,
        Ph!vars, P!vars
<1>1. Ph!Init <=> P!Init
  OBVIOUS
<1>2. Ph!Next <=> P!Next
  OBVIOUS
<1>3. Ph!IInv <=> P!IInv
  OBVIOUS
<1> QED
  BY <1>1, <1>2, <1>3

\* What the calls of pipes.c do to the parts of the handle that tell where
\* the tool is in them.
LEMMA OpenFacts ==
  Ph!PipeOpen2 => /\ call' = "none" /\ UNCHANGED old_state
                  /\ state = "PIPES_CLOSED"
                  /\ state' \in {state, "PIPES_OPENING", "PIPES_OPEN_BI"}
                  /\ call \in {"none", "reopen_bi"}
BY DEF Ph!PipeOpen2, Ph!MayOpen, Ph!OpenFails, Ph!ForkFails, Ph!Forks,
   Ph!handle

\* pipe_send_eof leaves the process and the calls in progress alone.
LEMMA EofFacts ==
  Ph!PipeSendEof => /\ call = "none" /\ state' = "PIPES_WIDOWED"
                    /\ UNCHANGED <<call, old_state>>
BY DEF Ph!PipeSendEof

LEMMA ReadFacts ==
  ASSUME Ph!ReadData \/ Ph!ReadEof
  PROVE  /\ UNCHANGED <<state, call, old_state>>
         /\ Ph!ReadEof => eof_read'
         /\ Ph!ReadData => UNCHANGED eof_read
BY DEF Ph!ReadData, Ph!ReadEof, Ph!handle

LEMMA CloseFacts ==
  ASSUME NEW caller, Ph!BeginClose(caller)
  PROVE  /\ call = "none" /\ call' = caller
         /\ state # "PIPES_CLOSED" /\ UNCHANGED state
BY DEF Ph!BeginClose, Ph!handle

LEMMA WaitFacts ==
  Ph!Waitpid => /\ Ph!Waiting /\ state' = "PIPES_CLOSED"
                /\ call' = Ph!AfterClose /\ UNCHANGED old_state
BY DEF Ph!Waitpid

LEMMA ChildFacts ==
  ASSUME \/ Ph!ChildSetUp \/ Ph!ChildAborts \/ Ph!ChildExitsOnEof
         \/ Ph!ChildExitsEarly \/ Ph!ChildBlocks \/ Ph!ChildKilled
  PROVE  UNCHANGED <<state, call, old_state, eof_read>>
BY DEF Ph!ChildSetUp, Ph!ChildAborts, Ph!ChildExitsOnEof, Ph!ChildExitsEarly,
   Ph!ChildBlocks, Ph!ChildKilled, Ph!Exits, Ph!handle

LEMMA LogFacts ==
  ASSUME Logs \/ Ph!LogConnect
  PROVE  UNCHANGED <<state, call, old_state, eof_read>>
BY DEF Logs, Ph!LogConnect, Ph!handle, pipes

\* The callbacks do nothing to the handle but log a message.
LEMMA CallbackFacts ==
  ASSUME NEW at, \/ CbUrl(at) \/ CbStatusComplete(at) \/ CbHeaderField(at)
                 \/ CbHeaderValue(at) \/ CbBodyPiped(at) \/ CbBodyCopied(at)
  PROVE  Logs \/ UNCHANGED pipes
BY DEF CbUrl, CbStatusComplete, CbHeaderField, CbHeaderValue, CbBodyPiped,
   CbBodyCopied

LEMMA QuietFacts ==
  ASSUME Logs \/ UNCHANGED pipes
  PROVE  UNCHANGED <<state, call, old_state, eof_read>>
BY LogFacts DEF pipes

-----------------------------------------------------------------------------
\* Every step of the tool and of its command is one of the handle's, or
\* leaves the handle alone.
LEMMA StepsArePipes == [Next]_vars => [Ph!Next]_(Ph!vars)
<1> SUFFICES ASSUME [Next]_vars PROVE Ph!Next \/ UNCHANGED pipes
  BY DEF pipes, Ph!vars, Ph!handle, Ph!process, Ph!history
<1>1. Logs => Ph!Next \/ UNCHANGED pipes
  BY DEF Logs, Ph!Next
<1>2. CASE Tool
  <2>1. CASE CbHeadersComplete \/ WriteAll \/ CbMessageCompleteCopied \/ Eof
    BY <2>1 DEF CbHeadersComplete, WriteAll, CbMessageCompleteCopied, Eof
  <2>2. CASE \E at \in Texts : \/ CbUrl(at) \/ CbStatusComplete(at)
                               \/ CbHeaderField(at) \/ CbHeaderValue(at)
                               \/ CbBodyPiped(at) \/ CbBodyCopied(at)
    BY <1>1, <2>2, CallbackFacts
  <2>3. CASE UlogInit \/ Open \/ CbMessageCompletePiped \/ DrainRead
             \/ DrainEnd \/ Flush \/ Delete \/ WaitsOrReopens
    BY <2>3 DEF UlogInit, Open, CbMessageCompletePiped, DrainRead, DrainEnd,
       Flush, Delete, WaitsOrReopens, Ph!Next
  <2>4. CASE ResetReturns \/ InputFails
    BY <1>1, <2>4 DEF ResetReturns, InputFails, pipes
  <2> QED
    BY <1>2, <2>1, <2>2, <2>3, <2>4 DEF Tool
<1>3. CASE DrainFails \/ Breaks
  BY <1>1, <1>3 DEF DrainFails, Breaks
<1>4. CASE Command \/ CommandQuits
  BY <1>4 DEF Command, CommandSetUp, CommandTakes, CommandPrints,
     CommandBlocks, CommandEnds, CommandKilled, CommandQuits, Ph!Next
<1>5. CASE UNCHANGED vars
  BY <1>5 DEF vars
<1> QED
  BY <1>2, <1>3, <1>4, <1>5 DEF Next, Done

\* The tool's handle behaves as Pipes has it, for any of Pipes' clients.
LEMMA HandleIsPipes == Spec => Ph!Spec
<1>1. Init => Ph!Init
  BY DEF Init
<1> QED
  BY <1>1, StepsArePipes, PTL DEF Spec, Ph!Spec

\* What is proved of Pipes holds of the tool's handle.
THEOREM HandleInvariant == Spec => []Ph!IInv
<1>1. P!Spec => []P!IInv
  BY P!InvariantHolds, FdAssumption, OpensAssumption, ClientAssumption, PTL
<1>2. /\ Ph!Init <=> P!Init
      /\ [Ph!Next]_(Ph!vars) <=> [P!Next]_(P!vars)
      /\ Ph!IInv <=> P!IInv
  BY SamePipes DEF Ph!vars, P!vars, Ph!handle, P!handle, Ph!process, P!process,
     Ph!history, P!history
<1>3. Ph!Spec => P!Spec
  BY <1>2, PTL DEF Ph!Spec, P!Spec
<1> QED
  BY <1>1, <1>2, <1>3, HandleIsPipes, PTL

-----------------------------------------------------------------------------
\* Which call of pipes.c the tool is in.
LEMMA ControlKept ==
  ASSUME Control, [Next]_vars
  PROVE  Control'
<1> USE DEF Control
<1>1. CASE UlogInit
  BY <1>1, LogFacts DEF UlogInit, pipes
<1>2. CASE Open
  BY <1>2, OpenFacts DEF Open
<1>3. ASSUME NEW at \in Texts,
             \/ CbUrl(at) \/ CbStatusComplete(at) \/ CbHeaderField(at)
             \/ CbHeaderValue(at) \/ CbBodyPiped(at) \/ CbBodyCopied(at)
      PROVE  Control'
  <2>1. UNCHANGED <<state, call, old_state>>
    BY <1>3, CallbackFacts, QuietFacts
  <2> QED
    BY <1>3, <2>1 DEF CbUrl, CbStatusComplete, CbHeaderField, CbHeaderValue,
       CbBodyPiped, CbBodyCopied, Calls
<1>4. CASE CbHeadersComplete \/ WriteAll \/ CbMessageCompleteCopied \/ Eof
  BY <1>4 DEF CbHeadersComplete, WriteAll, CbMessageCompleteCopied, Eof, Calls,
     pipes
<1>5. CASE CbMessageCompletePiped
  BY <1>5, EofFacts DEF CbMessageCompletePiped, Calls, pipes
<1>6. CASE DrainRead \/ DrainEnd \/ DrainFails \/ Breaks
  BY <1>6, ReadFacts, LogFacts DEF DrainRead, DrainEnd, DrainFails, Breaks, pipes
<1>7. CASE Flush
  <2>1. Ph!BeginClose("pipe_reset") /\ old_state' = state /\ pc = "flush"
        /\ pc' = "reset"
    BY <1>7 DEF Flush, Ph!PipeReset
  <2> QED
    BY <2>1, CloseFacts
<1>8. CASE ResetReturns \/ InputFails
  BY <1>8, LogFacts DEF ResetReturns, InputFails, pipes
<1>9. CASE Delete
  <2>1. CASE Ph!PipeHandleDelete /\ UNCHANGED pc
    <3>1. CASE state = "PIPES_CLOSED" /\ call' = "freed" /\ UNCHANGED state
      BY <1>9, <2>1, <3>1 DEF Delete
    <3>2. CASE Ph!BeginClose("pipe_handle_delete")
      BY <1>9, <2>1, <3>2, CloseFacts DEF Delete
    <3> QED
      BY <2>1, <3>1, <3>2 DEF Ph!PipeHandleDelete, Ph!handle
  <2>2. CASE call = "freed" /\ pc' = "exit" /\ UNCHANGED pipes
    BY <2>2 DEF pipes
  <2> QED
    BY <1>9, <2>1, <2>2 DEF Delete
<1>10. CASE WaitsOrReopens
  <2>1. UNCHANGED pc
    BY <1>10 DEF WaitsOrReopens
  <2>2. CASE Ph!Waitpid
    <3>1. CASE call = "pipe_reset"
      BY <2>1, <2>2, <3>1, WaitFacts DEF Ph!AfterClose
    <3>2. CASE call \in {"pipe_close", "pipe_handle_delete"}
      BY <2>1, <2>2, <3>2, WaitFacts DEF Ph!AfterClose
    <3> QED
      BY <2>2, <3>1, <3>2, WaitFacts DEF Ph!Waiting
  <2>3. CASE call = "reopen_bi" /\ Ph!PipeOpen2
    BY <2>1, <2>3, OpenFacts
  <2> QED
    BY <1>10, <2>2, <2>3 DEF WaitsOrReopens
<1>11. CASE Command \/ CommandQuits
  <2>1. UNCHANGED pc
    BY <1>11 DEF Command, CommandSetUp, CommandTakes, CommandPrints,
       CommandBlocks, CommandEnds, CommandKilled, CommandQuits, rest
  <2>2. UNCHANGED <<state, call, old_state>>
    BY <1>11, ChildFacts DEF Command, CommandSetUp, CommandTakes,
       CommandPrints, CommandBlocks, CommandEnds, CommandKilled, CommandQuits,
       pipes
  <2> QED
    BY <2>1, <2>2
<1>12. CASE UNCHANGED vars
  BY <1>12 DEF vars, pipes
<1> QED
  BY <1>1, <1>2, <1>3, <1>4, <1>5, <1>6, <1>7, <1>8, <1>9, <1>10, <1>11, <1>12
  DEF Next, Tool, Done

LEMMA ReadToTheEndKept ==
  ASSUME Control, ReadToTheEnd, [Next]_vars
  PROVE  ReadToTheEnd'
<1> USE DEF ReadToTheEnd
<1>1. ASSUME UNCHANGED <<pc, mishaps>>, UNCHANGED eof_read \/ pc # "flush"
      PROVE  ReadToTheEnd'
  BY <1>1
<1>2. CASE pc # "flush" /\ pc' # "flush"
  BY <1>2
<1>3. CASE DrainEnd
  BY <1>3, ReadFacts DEF DrainEnd
<1>4. CASE DrainFails
  BY <1>4 DEF DrainFails
<1>5. CASE Tool /\ ~DrainEnd /\ ~WaitsOrReopens
  <2>1. pc' # "flush"
    BY <1>5 DEF Tool, UlogInit, Open, CbUrl, CbStatusComplete, CbHeaderField,
       CbHeaderValue, CbBodyPiped, CbBodyCopied, Calls, CbHeadersComplete,
       WriteAll, CbMessageCompleteCopied, CbMessageCompletePiped, DrainRead,
       Flush, ResetReturns, Eof, InputFails, Delete
  <2> QED
    BY <2>1
<1>6. CASE WaitsOrReopens
  <2>1. call # "none"
    BY <1>6, WaitFacts DEF WaitsOrReopens, Ph!Waiting
  <2>2. pc # "flush" /\ UNCHANGED pc
    BY <1>6, <2>1 DEF Control, WaitsOrReopens
  <2> QED
    BY <2>2
<1>7. CASE Command
  <2>1. UNCHANGED <<pc, mishaps, eof_read>>
    BY <1>7, ChildFacts DEF Command, CommandSetUp, CommandTakes,
       CommandPrints, CommandBlocks, CommandEnds, CommandKilled, rest,
       history, pipes
  <2> QED
    BY <2>1, <1>1
<1>8. CASE CommandQuits
  <2>1. UNCHANGED <<pc, eof_read>> /\ mishaps \subseteq mishaps'
    BY <1>8, ChildFacts DEF CommandQuits
  <2> QED
    BY <2>1
<1>9. CASE Breaks \/ UNCHANGED vars
  BY <1>1, <1>9 DEF Breaks, vars, history, pipes
<1> QED
  BY <1>3, <1>4, <1>5, <1>6, <1>7, <1>8, <1>9 DEF Next, Done

-----------------------------------------------------------------------------
\* The two clients of Pipes differ in when they close only.
LEMMA SameSteps ==
  /\ Ph!Init <=> Drained!Init
  /\ Ph!PipeOpen <=> Drained!PipeOpen
  /\ Ph!PipeOpen2 <=> Drained!PipeOpen2
  /\ Ph!PipeSendEof <=> Drained!PipeSendEof
  /\ Ph!ReadData <=> Drained!ReadData
  /\ Ph!ReadEof <=> Drained!ReadEof
  /\ Ph!Waitpid <=> Drained!Waitpid
  /\ Ph!ChildSetUp <=> Drained!ChildSetUp
  /\ Ph!ChildAborts <=> Drained!ChildAborts
  /\ Ph!ChildExitsOnEof <=> Drained!ChildExitsOnEof
  /\ Ph!ChildExitsEarly <=> Drained!ChildExitsEarly
  /\ Ph!ChildBlocks <=> Drained!ChildBlocks
  /\ Ph!ChildKilled <=> Drained!ChildKilled
  /\ Ph!LogConnect <=> Drained!LogConnect
  /\ Ph!LogClose <=> Drained!LogClose
  /\ Ph!Done <=> Drained!Done
<1> USE DEF Ph!Std, Drained!Std, Ph!Log, Drained!Log, Ph!Fd, Drained!Fd,
        Ph!States, Drained!States, Ph!Entry, Drained!Entry, Ph!Free,
        Drained!Free, Ph!End, Drained!End, Ph!Entries, Drained!Entries,
        Ph!NoFds, Drained!NoFds, Ph!Holds, Drained!Holds, Ph!Held,
        Drained!Held, Ph!Lowest, Drained!Lowest, Ph!IsPipe, Drained!IsPipe,
        Ph!NoPipe, Drained!NoPipe, Ph!Ends, Drained!Ends, Ph!WithPipe,
        Drained!WithPipe, Ph!ParentSetUp, Drained!ParentSetUp,
        Ph!ParentSetUp2, Drained!ParentSetUp2, Ph!ChildCloses,
        Drained!ChildCloses, Ph!ChildCloses2, Drained!ChildCloses2,
        Ph!ChildDups, Drained!ChildDups, Ph!ChildDups2, Drained!ChildDups2,
        Ph!Exec, Drained!Exec, Ph!Init, Drained!Init, Ph!MayOpen,
        Drained!MayOpen, Ph!OpenFails, Drained!OpenFails, Ph!ForkFails,
        Drained!ForkFails, Ph!Forks, Drained!Forks, Ph!PipeOpen,
        Drained!PipeOpen, Ph!PipeOpen2, Drained!PipeOpen2, Ph!PipeSendEof,
        Drained!PipeSendEof, Ph!MayRead, Drained!MayRead, Ph!ReadData,
        Drained!ReadData, Ph!ReadEof, Drained!ReadEof, Ph!Waiting,
        Drained!Waiting, Ph!AfterClose, Drained!AfterClose, Ph!Waitpid,
        Drained!Waitpid, Ph!ChildSetUp, Drained!ChildSetUp, Ph!Exits,
        Drained!Exits, Ph!ChildAborts, Drained!ChildAborts,
        Ph!ChildExitsOnEof, Drained!ChildExitsOnEof, Ph!ChildExitsEarly,
        Drained!ChildExitsEarly, Ph!ChildBlocks, Drained!ChildBlocks,
        Ph!ChildKilled, Drained!ChildKilled, Ph!LogConnect,
        Drained!LogConnect, Ph!LogClose, Drained!LogClose, Ph!Done,
        Drained!Done, Ph!handle, Drained!handle, Ph!process, Drained!process,
        Ph!history, Drained!history, Ph!vars, Drained!vars
<1>1. Ph!Init <=> Drained!Init
  OBVIOUS
<1>2. Ph!PipeOpen <=> Drained!PipeOpen
  OBVIOUS
<1>3. Ph!PipeOpen2 <=> Drained!PipeOpen2
  OBVIOUS
<1>4. Ph!PipeSendEof <=> Drained!PipeSendEof
  OBVIOUS
<1>5. Ph!ReadData <=> Drained!ReadData
  OBVIOUS
<1>6. Ph!ReadEof <=> Drained!ReadEof
  OBVIOUS
<1>7. Ph!Waitpid <=> Drained!Waitpid
  OBVIOUS
<1>8. Ph!ChildSetUp <=> Drained!ChildSetUp
  OBVIOUS
<1>9. Ph!ChildAborts <=> Drained!ChildAborts
  OBVIOUS
<1>10. Ph!ChildExitsOnEof <=> Drained!ChildExitsOnEof
  OBVIOUS
<1>11. Ph!ChildExitsEarly <=> Drained!ChildExitsEarly
  OBVIOUS
<1>12. Ph!ChildBlocks <=> Drained!ChildBlocks
  OBVIOUS
<1>13. Ph!ChildKilled <=> Drained!ChildKilled
  OBVIOUS
<1>14. Ph!LogConnect <=> Drained!LogConnect
  OBVIOUS
<1>15. Ph!LogClose <=> Drained!LogClose
  OBVIOUS
<1>16. Ph!Done <=> Drained!Done
  OBVIOUS
<1> QED
  BY <1>1, <1>2, <1>3, <1>4, <1>5, <1>6, <1>7, <1>8, <1>9, <1>10, <1>11,
     <1>12, <1>13, <1>14, <1>15, <1>16

\* A step of a handle that does not close it widowed before end of file is
\* one of the stricter client's.
LEMMA StricterStep ==
  ASSUME Ph!Next,
         call = "none" /\ Ph!Waiting' /\ state = "PIPES_WIDOWED" => eof_read
  PROVE  Drained!Next
<1>1. ASSUME NEW caller \in {"pipe_close", "pipe_reset", "pipe_handle_delete"},
             Ph!BeginClose(caller)
      PROVE  Drained!BeginClose(caller)
  <2>1. call = "none" /\ Ph!Waiting'
    BY <1>1 DEF Ph!BeginClose, Ph!Waiting
  <2>2. state = "PIPES_WIDOWED" => eof_read
    BY <2>1
  <2> QED
    BY <1>1, <2>2 DEF Ph!BeginClose, Drained!BeginClose, Ph!CloseEnds,
       Drained!CloseEnds, Ph!Free, Drained!Free, Ph!Entry, Drained!Entry,
       Ph!handle, Drained!handle, Ph!process, Drained!process, Ph!history,
       Drained!history
<1>2. CASE Ph!PipeClose \/ Ph!PipeReset \/ Ph!PipeHandleDelete
  BY <1>1, <1>2 DEF Ph!PipeClose, Drained!PipeClose, Ph!PipeReset,
     Drained!PipeReset, Ph!PipeHandleDelete, Drained!PipeHandleDelete,
     Ph!handle, Drained!handle, Ph!process, Drained!process, Ph!history,
     Drained!history, Drained!Next
<1>3. CASE ~(Ph!PipeClose \/ Ph!PipeReset \/ Ph!PipeHandleDelete)
  BY <1>3, SameSteps DEF Ph!Next, Drained!Next
<1> QED
  BY <1>2, <1>3

\* The only step that begins to close a widowed handle is the one behind the
\* loop that drains it.
LEMMA ClosesWhenDrained ==
  ASSUME Control, ReadToTheEnd, [Next]_vars, "drain failed" \notin mishaps,
         call = "none", Ph!Waiting', state = "PIPES_WIDOWED"
  PROVE  eof_read
<1>1. call' # call
  BY DEF Ph!Waiting
<1>2. CASE Flush
  BY <1>2 DEF Flush, ReadToTheEnd
<1>3. CASE Delete
  BY <1>1, <1>3 DEF Delete, Control, pipes
<1>4. CASE Tool /\ ~Flush /\ ~Delete
  <2>1. ~WaitsOrReopens
    BY WaitFacts DEF WaitsOrReopens, Ph!Waiting
  <2>2. UNCHANGED call \/ call' = "none"
    <3>1. ASSUME NEW at \in Texts,
                 \/ CbUrl(at) \/ CbStatusComplete(at) \/ CbHeaderField(at)
                 \/ CbHeaderValue(at) \/ CbBodyPiped(at) \/ CbBodyCopied(at)
          PROVE  UNCHANGED call
      BY <3>1, CallbackFacts, QuietFacts
    <3> QED
      BY <1>4, <2>1, <3>1, OpenFacts, EofFacts, ReadFacts, LogFacts DEF Tool,
         UlogInit, Open, CbHeadersComplete, WriteAll, CbMessageCompleteCopied,
         CbMessageCompletePiped, DrainRead, DrainEnd, ResetReturns, Eof,
         InputFails, pipes
  <2> QED
    BY <1>1, <2>2
<1>5. CASE DrainFails \/ Breaks \/ UNCHANGED vars
  BY <1>1, <1>5, LogFacts DEF DrainFails, Breaks, vars, pipes
<1>6. CASE Command \/ CommandQuits
  BY <1>1, <1>6, ChildFacts DEF Command, CommandSetUp, CommandTakes,
     CommandPrints, CommandBlocks, CommandEnds, CommandKilled, CommandQuits,
     pipes
<1> QED
  BY <1>2, <1>3, <1>4, <1>5, <1>6 DEF Next, Done

\* Where the tool is in its calls, and that it closes drained handles only.
THEOREM ControlInvariant == Spec => [](Control /\ ReadToTheEnd)
<1>1. Init => Control /\ ReadToTheEnd
  BY DEF Init, Ph!Init, Control, ReadToTheEnd
<1>2. Control /\ ReadToTheEnd /\ [Next]_vars => (Control /\ ReadToTheEnd)'
  BY ControlKept, ReadToTheEndKept
<1> QED
  BY <1>1, <1>2, PTL DEF Spec

\* The handle the tool works with is one of Pipes', and until a read that
\* drains a command fails one of the stricter client's.
THEOREM KeepsToPipes == Spec => UsesPipes
<1>1. Init => Drained!Init
  BY SameSteps DEF Init
<1>2. Control /\ ReadToTheEnd /\ [Next]_vars =>
        [IF "drain failed" \in mishaps THEN Ph!Next ELSE Drained!Next]_pipes
  <2> SUFFICES ASSUME Control, ReadToTheEnd, [Next]_vars, ~UNCHANGED pipes
               PROVE  IF "drain failed" \in mishaps THEN Ph!Next ELSE Drained!Next
    OBVIOUS
  <2>1. Ph!Next
    BY StepsArePipes DEF pipes, Ph!vars, Ph!handle, Ph!process, Ph!history
  <2>2. CASE "drain failed" \notin mishaps
    BY <2>1, <2>2, ClosesWhenDrained, StricterStep
  <2> QED
    BY <2>1, <2>2
<1> QED
  BY <1>1, <1>2, ControlInvariant, PTL DEF Spec, UsesPipes

\* A tool that returns has no command left, whichever way it got there.
THEOREM NoCommandLeft == Spec => []LeavesNoCommand
<1>1. Ph!IInv /\ Control => LeavesNoCommand
  BY DEF Ph!IInv, Ph!CallOK, Ph!ProcOK, Ph!Opened, Control, LeavesNoCommand
<1> QED
  BY <1>1, HandleInvariant, ControlInvariant, PTL

-----------------------------------------------------------------------------
Atoms == Sources \X STRING

LEMMA WrittenAtoms == Seq(Atoms) \subseteq Seq(Written)
<1>1. Atoms \subseteq Written
  BY DEF Atoms, Written
<1> QED
  BY <1>1

LEMMA ByType ==
  ASSUME NEW who \in Sources, NEW text \in Text
  PROVE  By(who, text) \in Seq(Atoms)
<1>1. \A i \in 1 .. Len(text) : <<who, text[i]>> \in Atoms
  BY DEF Text, Atoms
<1> QED
  BY <1>1 DEF By, Text

LEMMA TwoSeq ==
  ASSUME NEW S, NEW x \in S, NEW y \in S
  PROVE  <<x, y>> \in Seq(S)
OBVIOUS

LEMMA LengthIsNat ==
  ASSUME NEW S, NEW s \in Seq(S)
  PROVE  Len(s) \in Nat
OBVIOUS

LEMMA NothingIsSeq ==
  ASSUME NEW S
  PROVE  <<>> \in Seq(S) /\ Len(<<>>) = 0
OBVIOUS

LEMMA RepeatSeq ==
  ASSUME NEW S, NEW x \in S, NEW n \in Nat
  PROVE  [k \in 1 .. n |-> x] \in Seq(S)
OBVIOUS

\* A filter makes a text of its own of each text.
LEMMA FilterType ==
  ASSUME NEW text \in Text
  PROVE  Filter(text) \in Seq(FromCommand) /\ Filter(text) \in Seq(Atoms)
<1> DEFINE made == [i \in DOMAIN text |->
                      [k \in 1 .. GROWTH |-> <<"command", text[i]>>]]
<1> USE DEF Text
<1>1. ASSUME NEW i \in 1 .. Len(text)
      PROVE  [k \in 1 .. GROWTH |-> <<"command", text[i]>>] \in Seq(FromCommand)
  <2>1. <<"command", text[i]>> \in FromCommand
    BY DEF FromCommand
  <2>2. GROWTH \in Nat
    BY CommandAssumption
  <2> QED
    BY <2>1, <2>2, RepeatSeq, Zenon
<1>2. made \in Seq(Seq(FromCommand))
  <2>1. DOMAIN text = 1 .. Len(text) /\ Len(text) \in Nat
    OBVIOUS
  <2>2. made = [i \in 1 .. Len(text) |-> made[i]]
    BY <2>1, Zenon
  <2>3. \A i \in 1 .. Len(text) : made[i] \in Seq(FromCommand)
    BY <1>1, <2>1, Zenon
  <2> HIDE DEF made
  <2> QED
    BY <2>1, <2>2, <2>3
<1>3. FlattenSeq(made) \in Seq(FromCommand)
  BY <1>2, FlattenType
<1>4. Seq(FromCommand) \subseteq Seq(Atoms)
  <2>1. FromCommand \subseteq Atoms
    BY DEF FromCommand, Atoms, Sources
  <2> QED
    BY <2>1
<1> QED
  BY <1>3, <1>4 DEF Filter

LEMMA ConstantTexts ==
  /\ ContentLength \in Text /\ ContentType \in Text /\ Original \in Text
  /\ Colon \in Text /\ Crlf \in Text /\ Blank \in Text
  /\ <<"start ">> \in Text /\ <<>> \in Text
<1>1. ASSUME NEW a \in STRING PROVE <<a>> \in Text
  BY OneSeq, Zenon DEF Text
<1>2. ASSUME NEW a \in STRING, NEW b \in STRING PROVE <<a, b>> \in Text
  BY TwoSeq, Zenon DEF Text
<1>3. /\ "Content" \in STRING /\ "-Length" \in STRING /\ "-Type" \in STRING
      /\ "X-Mumpsimus-Original-" \in STRING /\ ": " \in STRING
      /\ "\r\n" \in STRING /\ "blank line" \in STRING /\ "start " \in STRING
  BY LiteralAssumption
<1>4. /\ Original \in Text /\ Colon \in Text /\ Crlf \in Text /\ Blank \in Text
      /\ <<"start ">> \in Text
  BY <1>1, <1>3 DEF Original, Colon, Crlf, Blank
<1>5. ContentLength \in Text /\ ContentType \in Text
  BY <1>2, <1>3 DEF ContentLength, ContentType
<1>6. <<>> \in Text
  BY DEF Text
<1> QED
  BY <1>4, <1>5, <1>6

LEMMA TextConcat ==
  ASSUME NEW a \in Text, NEW b \in Text
  PROVE  a \o b \in Text
BY DEF Text

LEMMA TextParts ==
  ASSUME NEW S, NEW text \in Seq(S), NEW n \in 0 .. Len(text)
  PROVE  /\ SubSeq(text, 1, n) \in Seq(S) /\ Len(SubSeq(text, 1, n)) = n
         /\ From(text, n + 1) \in Seq(S)
         /\ From(text, n + 1) = <<>> <=> n = Len(text)
<1>1. SubSeq(text, 1, n) \in Seq(S) /\ Len(SubSeq(text, 1, n)) = n
  BY PartSeq
<1>2. From(text, n + 1) \in Seq(S) /\ Len(From(text, n + 1)) = Len(text) - n
  BY PartSeq DEF From
<1>3. ASSUME NEW rest_of \in Seq(S) PROVE rest_of = <<>> <=> Len(rest_of) = 0
  OBVIOUS
<1>4. Len(text) - n = 0 <=> n = Len(text)
  OBVIOUS
<1> QED
  BY <1>1, <1>2, <1>3, <1>4

\* The new head: the length is the only atom in it that is not input.
LEMMA NewHeadersType ==
  ASSUME headers \in Text, content_length_at \in Nat \union {-1},
         body \in Seq(Atoms)
  PROVE  NewHeaders \in Seq(Written)
<1>1. "tool" \in Sources
  BY DEF Sources
<1>2. By("tool", headers) \in Seq(Written)
  BY <1>1, ByType, WrittenAtoms
<1>3. ASSUME content_length_at >= 0 PROVE NewHeaders \in Seq(Written)
  <2> DEFINE at == AtMost(content_length_at, Len(headers))
             before == By("tool", SubSeq(headers, 1, at) \o ContentLength \o Colon)
             behind == By("tool", Crlf \o Original \o From(headers, at + 1))
  <2>1. at \in 0 .. Len(headers)
    BY <1>3 DEF AtMost, Text
  <2>2. SubSeq(headers, 1, at) \in Text /\ From(headers, at + 1) \in Text
    BY <2>1, TextParts DEF Text
  <2> HIDE DEF at
  <2>3. SubSeq(headers, 1, at) \o ContentLength \o Colon \in Text
        /\ Crlf \o Original \o From(headers, at + 1) \in Text
    BY <2>2, TextConcat, ConstantTexts
  <2>4. before \in Seq(Written) /\ behind \in Seq(Written)
    BY <1>1, <2>3, ByType, WrittenAtoms
  <2>5. NewLength \in Seq(Written)
    <3>1. <<"length", Len(body)>> \in Written
      BY DEF Written
    <3> QED
      BY <3>1, OneSeq DEF NewLength
  <2>6. before \o NewLength \o behind \in Seq(Written)
    <3> HIDE DEF before, behind
    <3> QED
      BY <2>4, <2>5, ConcatSeq
  <2> QED
    BY <1>3, <2>6 DEF NewHeaders, at
<1> QED
  BY <1>2, <1>3 DEF NewHeaders

-----------------------------------------------------------------------------
LEMMA TypesStart == Init => TypeOK
<1> SUFFICES ASSUME Init PROVE TypeOK
  OBVIOUS
<1>1. Ph!TypeOK
  BY SamePipes, P!InitInv, FdAssumption, OpensAssumption, ClientAssumption
  DEF Init, Ph!IInv
<1>2. input.messages \in Seq(Messages)
  BY InputAssumption DEF Init
<1>3. todo \in Seq(CallbacksWithText)
  BY <1>2, StreamType DEF Init
<1>4. /\ url \in Text /\ status_line \in Text /\ headers \in Text
      /\ unwritten \in Text /\ in_pipe \in Text
  BY ConstantTexts DEF Init
<1>5. /\ body \in Seq(Sources \X STRING) /\ taken \in Seq(Sources \X STRING)
      /\ out_pipe \in Seq(Sources \X STRING) /\ stdout \in Seq(Written)
  BY DEF Init
<1>6. Len(in_pipe) <= IN_CAPACITY /\ Len(out_pipe) <= OUT_CAPACITY
  BY CommandAssumption DEF Init
<1>7. StaysInBlocks
  <2>1. Len(<<>>) = 0 /\ 0 < URL_MAX /\ 0 < LINE_MAX
    BY SizeAssumption
  <2> QED
    BY <2>1 DEF Init, StaysInBlocks
<1> QED
  BY <1>1, <1>3, <1>4, <1>5, <1>6, <1>7 DEF Init, TypeOK, PositionIsOfThisHead

\* What is to come at first is all there is.
LEMMA TextsStart == Init => TextsDue
<1> SUFFICES ASSUME Init PROVE TextsDue
  OBVIOUS
<1>1. input.messages \in Seq(Messages)
  BY InputAssumption DEF Init
<1>2. todo = Stream(input.messages) /\ todo \in Seq(CallbacksWithText) /\ url = <<>>
  BY <1>1, StreamType DEF Init
<1>3. \A k \in DOMAIN todo : todo[k] \in CallbacksWithText /\ todo[k] \in ToSet(todo)
  BY <1>2 DEF ToSet
<1>4. \A c \in CallbacksWithText : Len(c.at) \in Nat
  BY DEF CallbacksWithText, Text
<1>5. \A k \in DOMAIN todo : \E due \in ToSet(Stream(input.messages)) :
        due.cb = todo[k].cb /\ Len(todo[k].at) <= Len(due.at)
  BY <1>2, <1>3, <1>4
<1> QED
  BY <1>2, <1>5 DEF TextsDue

LEMMA NothingFits ==
  <<>> \in Text /\ Len(<<>>) <= IN_CAPACITY /\ Len(<<>>) <= OUT_CAPACITY
<1>1. Len(<<>>) = 0
  OBVIOUS
<1>2. 0 <= IN_CAPACITY /\ 0 <= OUT_CAPACITY
  BY CommandAssumption
<1> QED
  BY <1>1, <1>2, ConstantTexts

LEMMA CutType ==
  ASSUME NEW text \in Text, NEW n \in Nat
  PROVE  /\ Cut(text, n) \in Text /\ Len(Cut(text, n)) = AtMost(Len(text), n)
         /\ Len(text) \in Nat
         /\ Len(text) <= n => Cut(text, n) = text
<1> DEFINE m == AtMost(Len(text), n)
<1>1. text \in Seq(STRING) /\ Len(text) \in Nat
  BY DEF Text
<1>2. m \in 0 .. Len(text) /\ (Len(text) <= n => m = Len(text))
  BY <1>1 DEF AtMost
<1> HIDE DEF m
<1>3. SubSeq(text, 1, m) \in Text /\ Len(SubSeq(text, 1, m)) = m
  BY <1>1, <1>2, TextParts DEF Text
<1>4. SubSeq(text, 1, Len(text)) = text
  BY <1>1
<1> QED
  BY <1>1, <1>2, <1>3, <1>4 DEF Cut, m

\* What is kept of a URL fits its block.
LEMMA KeptType ==
  ASSUME NEW text \in Text
  PROVE  /\ KeptOfUrl(text) \in Text
         /\ Len(KeptOfUrl(text)) = AtMost(Len(text), URL_MAX - 1)
         /\ Len(KeptOfUrl(text)) \in Nat
         /\ Len(KeptOfUrl(text)) < URL_MAX /\ Len(KeptOfUrl(text)) <= Len(text)
         /\ Len(text) \in Nat /\ URL_MAX - 1 \in Nat
         /\ Len(text) < URL_MAX => KeptOfUrl(text) = text
<1>1. URL_MAX \in Nat /\ URL_MAX - 1 \in Nat
  BY SizeAssumption
<1>2. /\ KeptOfUrl(text) \in Text
      /\ Len(KeptOfUrl(text)) = AtMost(Len(text), URL_MAX - 1)
      /\ Len(text) \in Nat
      /\ Len(text) <= URL_MAX - 1 => KeptOfUrl(text) = text
  BY <1>1, CutType, Zenon DEF KeptOfUrl
<1>3. Len(KeptOfUrl(text)) < URL_MAX /\ Len(KeptOfUrl(text)) <= Len(text)
      /\ Len(KeptOfUrl(text)) \in Nat
  BY <1>1, <1>2 DEF AtMost
<1>4. Len(text) < URL_MAX => Len(text) <= URL_MAX - 1
  BY <1>1, <1>2
<1> QED
  BY <1>1, <1>2, <1>3, <1>4, Zenon

\* A start line is two atoms longer than its target.
LEMMA StartLineType ==
  ASSUME NEW text \in Text
  PROVE  /\ StartLineUncut(text) \in Text
         /\ Len(StartLineUncut(text)) = Len(text) + 2
         /\ StartLine(text) \in Text
         /\ Len(StartLine(text)) = AtMost(Len(text) + 2, BUFFER_MAX - 1)
         /\ Len(StartLineUncut(text)) < BUFFER_MAX =>
              StartLine(text) = StartLineUncut(text)
<1>1. BUFFER_MAX \in Nat /\ BUFFER_MAX - 1 \in Nat
  BY SizeAssumption
<1>2. <<"start ">> \o text \in Text
  BY TextConcat, ConstantTexts
<1>3. StartLineUncut(text) \in Text
  BY <1>2, TextConcat, ConstantTexts DEF StartLineUncut
<1>4. Len(StartLineUncut(text)) = Len(text) + 2
  <2>1. ASSUME NEW a \in Text, NEW b \in Text
        PROVE  Len(a \o b) = Len(a) + Len(b)
    BY DEF Text
  <2>2. Len(<<"start ">>) = 1 /\ Len(Crlf) = 1 /\ Len(text) \in Nat
    BY DEF Crlf, Text
  <2>3. Len(<<"start ">> \o text) = 1 + Len(text)
    BY <2>1, <2>2, ConstantTexts
  <2>4. Len((<<"start ">> \o text) \o Crlf) = Len(<<"start ">> \o text) + 1
    BY <1>2, <2>1, <2>2, ConstantTexts
  <2> QED
    BY <2>2, <2>3, <2>4 DEF StartLineUncut
<1> DEFINE line == StartLineUncut(text)
<1>5. line \in Text /\ Len(line) = Len(text) + 2
  BY <1>3, <1>4
<1> HIDE DEF line
<1>6. /\ Cut(line, BUFFER_MAX - 1) \in Text
      /\ Len(Cut(line, BUFFER_MAX - 1)) = AtMost(Len(line), BUFFER_MAX - 1)
      /\ Len(line) \in Nat
      /\ Len(line) <= BUFFER_MAX - 1 => Cut(line, BUFFER_MAX - 1) = line
  BY <1>1, <1>5, CutType
<1>7. Len(line) < BUFFER_MAX => Len(line) <= BUFFER_MAX - 1
  BY <1>1, <1>6
<1>8. StartLine(text) = Cut(line, BUFFER_MAX - 1)
  BY DEF StartLine, line
<1> QED
  BY <1>5, <1>6, <1>7, <1>8, Zenon DEF line

\* A longer target makes no shorter a start line.
LEMMA LongerLine ==
  ASSUME NEW a \in Text, NEW b \in Text, Len(a) <= Len(b)
  PROVE  Len(StartLine(a)) <= Len(StartLine(b))
<1>1. /\ Len(a) \in Nat /\ Len(b) \in Nat
      /\ BUFFER_MAX - 1 \in Nat
  BY SizeAssumption DEF Text
<1>2. /\ Len(StartLine(a)) = AtMost(Len(a) + 2, BUFFER_MAX - 1)
      /\ Len(StartLine(b)) = AtMost(Len(b) + 2, BUFFER_MAX - 1)
  BY StartLineType
<1> QED
  BY <1>1, <1>2 DEF AtMost

\* The input does not change, and nothing that went wrong is forgotten.
LEMMA HistoryKept ==
  ASSUME [Next]_vars
  PROVE  UNCHANGED input /\ mishaps \subseteq mishaps'
<1>1. CASE \/ UlogInit \/ Open \/ WriteAll \/ DrainRead \/ DrainEnd \/ Flush
           \/ ResetReturns \/ Eof \/ InputFails \/ Delete \/ WaitsOrReopens \/ Breaks
  BY <1>1 DEF UlogInit, Open, WriteAll, DrainRead, DrainEnd, Flush, ResetReturns,
     Eof, InputFails, Delete, WaitsOrReopens, Breaks, history
<1>2. ASSUME NEW at \in Texts, CbUrl(at) \/ CbStatusComplete(at)
      PROVE  UNCHANGED input /\ mishaps \subseteq mishaps'
  BY <1>2 DEF CbUrl, CbStatusComplete, PutsEnd, Calls
<1>3. ASSUME NEW at \in Texts, \/ CbHeaderField(at) \/ CbHeaderValue(at)
                               \/ CbBodyPiped(at) \/ CbBodyCopied(at)
      PROVE  UNCHANGED history
  BY <1>3 DEF CbHeaderField, CbHeaderValue, CbBodyPiped, CbBodyCopied, Calls, history
<1>4. CASE CbHeadersComplete
  BY <1>4 DEF CbHeadersComplete, PutsEnd, Calls
<1>5. CASE CbMessageCompleteCopied \/ CbMessageCompletePiped
  BY <1>5 DEF CbMessageCompleteCopied, CbMessageCompletePiped, Calls
<1>6. CASE DrainFails \/ CommandQuits
  BY <1>6 DEF DrainFails, CommandQuits
<1>7. CASE Command \/ UNCHANGED vars
  BY <1>7 DEF Command, CommandSetUp, CommandTakes, CommandPrints, CommandBlocks,
     CommandEnds, CommandKilled, rest, vars, history
<1> QED
  BY <1>1, <1>2, <1>3, <1>4, <1>5, <1>6, <1>7 DEF Next, Tool, Done, history

\* Only a text that is too long has anything put behind the blocks.
LEMMA StaysKept ==
  ASSUME TypeOK, TextsDue, [Next]_vars
  PROVE  StaysInBlocks' /\ TextsDue'
<1> DEFINE Dues == ToSet(Stream(input.messages))
<1>1. /\ UNCHANGED input /\ mishaps \subseteq mishaps' /\ (LongText' <=> LongText)
      /\ Dues' = Dues
  BY HistoryKept DEF LongText, IsStartText, KeptOfUrl, StartLine, StartLineUncut
<1>2. /\ StaysInBlocks /\ todo \in Seq(CallbacksWithText) /\ url \in Text
      /\ URL_MAX \in Nat /\ LINE_MAX \in Nat /\ Len(url) \in Nat
  <2>1. StaysInBlocks /\ todo \in Seq(CallbacksWithText) /\ url \in Text
    BY DEF TypeOK
  <2>2. URL_MAX \in Nat /\ LINE_MAX \in Nat
    BY SizeAssumption
  <2>3. Len(url) \in Nat
    BY <2>1 DEF Text
  <2> QED
    BY <2>1, <2>2, <2>3
<1>3. \A due \in Dues : due.at \in Text /\ Len(due.at) \in Nat
  <2>1. \A c \in CallbacksWithText : c.at \in Text /\ Len(c.at) \in Nat
    BY DEF CallbacksWithText, Text
  <2>2. Stream(input.messages) \in Seq(CallbacksWithText)
    BY StreamType, InputAssumption DEF TypeOK
  <2> QED
    BY <2>1, <2>2 DEF ToSet
<1>4. /\ \A k \in DOMAIN todo : IsStartText(todo[k]) =>
           \E due \in Dues : due.cb = todo[k].cb /\ Len(todo[k].at) <= Len(due.at)
      /\ url # <<>> => \E due \in Dues : IsStartText(due) /\ Len(url) <= Len(due.at)
  BY DEF TextsDue
<1>5. /\ "overrun" \in mishaps => LongText
      /\ Len(url) < URL_MAX
      /\ Len(status_line) < LINE_MAX \/ "overrun" \in mishaps
      /\ pc = "overrun" => "overrun" \in mishaps
  BY <1>2 DEF StaysInBlocks
<1> DEFINE TodoDue == \A k \in DOMAIN todo : IsStartText(todo[k]) =>
                        \E due \in Dues : due.cb = todo[k].cb
                                          /\ Len(todo[k].at) <= Len(due.at)
           UrlDue == url # <<>> => \E due \in Dues : IsStartText(due) /\ Len(url) <= Len(due.at)
<1>6. TodoDue' /\ UrlDue' => TextsDue'
  BY DEF TextsDue
<1> HIDE DEF Dues
<1>7. UNCHANGED todo => TodoDue'
  BY <1>1, <1>4 DEF IsStartText
<1>8. UNCHANGED url => UrlDue'
  BY <1>1, <1>4 DEF IsStartText
<1> HIDE DEF TodoDue, UrlDue
<1>9. ASSUME UNCHANGED <<url, status_line>>, "overrun" \in mishaps' => "overrun" \in mishaps,
             pc' = "overrun" => "overrun" \in mishaps
      PROVE  StaysInBlocks' /\ UrlDue'
  BY <1>1, <1>5, <1>8, <1>9 DEF StaysInBlocks
<1>10. ASSUME NEW cb, NEW at, Calls(cb, at)
       PROVE  /\ TodoDue' /\ at \in Text /\ Len(at) \in Nat /\ pc = "parse"
              /\ cb \in {"url", "status"} =>
                   \E due \in Dues : due.cb = cb /\ Len(at) <= Len(due.at)
  <2>1. /\ todo # <<>> /\ at \in Pieces(todo, WholeTexts)
        /\ todo' \in Remaining(todo, at, WholeTexts)
        /\ todo[1].cb = cb /\ pc = "parse" /\ 1 \in DOMAIN todo
    BY <1>2, <1>10 DEF Calls
  <2>2. /\ Len(at) <= Len(todo[1].at)
        /\ \A k \in DOMAIN todo' : \E i \in DOMAIN todo :
             todo'[k].cb = todo[i].cb /\ Len(todo'[k].at) <= Len(todo[i].at)
    BY <1>2, <2>1, NoLonger
  <2>3. at \in Text /\ todo' \in Seq(CallbacksWithText) /\ Len(at) \in Nat
    BY <1>2, <2>1, PieceType DEF Text
  <2>4. \A c \in CallbacksWithText : Len(c.at) \in Nat
    BY DEF CallbacksWithText, Text
  <2>5. /\ \A i \in DOMAIN todo : Len(todo[i].at) \in Nat
        /\ \A i \in DOMAIN todo' : Len(todo'[i].at) \in Nat
    BY <1>2, <2>3, <2>4
  <2>6. TodoDue'
    <3>1. ASSUME NEW k \in DOMAIN todo', todo'[k].cb \in {"url", "status"}
          PROVE  \E due \in Dues : due.cb = todo'[k].cb /\ Len(todo'[k].at) <= Len(due.at)
      <4>1. PICK i \in DOMAIN todo :
              todo'[k].cb = todo[i].cb /\ Len(todo'[k].at) <= Len(todo[i].at)
        BY <2>2
      <4>2. PICK due \in Dues : due.cb = todo[i].cb /\ Len(todo[i].at) <= Len(due.at)
        BY <1>4, <3>1, <4>1 DEF IsStartText
      <4> QED
        BY <1>3, <2>5, <4>1, <4>2
    <3> QED
      BY <1>1, <3>1 DEF TodoDue, IsStartText
  <2>7. ASSUME cb \in {"url", "status"}
        PROVE  \E due \in Dues : due.cb = cb /\ Len(at) <= Len(due.at)
    <3>1. PICK due \in Dues : due.cb = cb /\ Len(todo[1].at) <= Len(due.at)
      BY <1>4, <2>1, <2>7 DEF IsStartText
    <3> QED
      BY <1>3, <2>1, <2>2, <2>3, <2>5, <3>1
  <2> QED
    BY <2>1, <2>3, <2>6, <2>7
<1>11. ASSUME NEW at \in Texts, CbUrl(at) \/ CbStatusComplete(at)
       PROVE  StaysInBlocks' /\ TextsDue'
  <2>1. PICK cb \in {"url", "status"} : Calls(cb, at) /\ (cb = "url" => CbUrl(at))
                                        /\ (cb = "status" => CbStatusComplete(at))
    BY <1>11 DEF CbUrl, CbStatusComplete
  <2>2. /\ TodoDue' /\ at \in Text /\ Len(at) \in Nat /\ pc = "parse"
        /\ \E due \in Dues : due.cb = cb /\ Len(at) <= Len(due.at)
    BY <1>10, <2>1
  <2>3. url' = KeptOfUrl(at) /\ UNCHANGED <<pc, status_line>>
    BY <2>1 DEF CbUrl, CbStatusComplete
  <2>4. Len(url') < URL_MAX /\ Len(url') <= Len(at) /\ Len(url') \in Nat
    BY <2>2, <2>3, KeptType
  <2>5. UrlDue'
    <3>1. PICK due \in Dues : due.cb = cb /\ Len(at) <= Len(due.at)
      BY <2>2
    <3>2. due \in Dues' /\ IsStartText(due) /\ Len(url') <= Len(due.at)
      BY <1>1, <1>3, <2>2, <2>4, <3>1 DEF IsStartText
    <3> QED
      BY <3>2 DEF UrlDue, IsStartText
  <2>6. "overrun" \in mishaps' => LongText
    <3>1. CASE cb = "url"
      <4>1. UrlEnd(at) < URL_MAX
        BY <1>2, <2>2, KeptType DEF UrlEnd
      <4>2. UNCHANGED mishaps
        BY <2>1, <3>1, <4>1 DEF CbUrl, PutsEnd
      <4> QED
        BY <1>5, <4>2
    <3>2. CASE cb = "status" /\ Len(at) < URL_MAX
      <4>1. StatusEnd(at) < URL_MAX
        BY <3>2 DEF StatusEnd
      <4>2. UNCHANGED mishaps
        BY <2>1, <3>2, <4>1 DEF CbStatusComplete, PutsEnd
      <4> QED
        BY <1>5, <4>2
    <3>3. CASE cb = "status" /\ ~(Len(at) < URL_MAX)
      <4>1. PICK due \in Dues : due.cb = "status" /\ Len(at) <= Len(due.at)
        BY <2>2, <3>3
      <4>2. Len(due.at) >= URL_MAX
        BY <1>2, <1>3, <2>2, <3>3, <4>1
      <4> QED
        BY <4>1, <4>2 DEF LongText, Dues
    <3> QED
      BY <3>1, <3>2, <3>3
  <2>7. Len(status_line') < LINE_MAX \/ "overrun" \in mishaps'
    BY <1>1, <1>5, <2>3
  <2>8. pc' # "overrun"
    BY <2>2, <2>3
  <2> QED
    BY <1>1, <1>6, <2>2, <2>4, <2>5, <2>6, <2>7, <2>8 DEF StaysInBlocks
<1>12. CASE CbHeadersComplete
  <2>1. /\ Calls("headers_complete", <<>>) /\ status_line' = StartLine(url)
        /\ PutsEnd(Len(status_line'), LINE_MAX) /\ UNCHANGED <<pc, url>>
    BY <1>12 DEF CbHeadersComplete
  <2>2. pc' # "overrun" /\ TodoDue' /\ UrlDue' /\ Len(url') < URL_MAX
    BY <1>5, <1>8, <1>10, <2>1
  <2>3. CASE Len(StartLine(url)) < LINE_MAX
    <3>1. UNCHANGED mishaps
      BY <2>1, <2>3 DEF PutsEnd
    <3> QED
      BY <1>1, <1>5, <1>6, <2>1, <2>2, <2>3, <3>1 DEF StaysInBlocks
  <2>4. CASE ~(Len(StartLine(url)) < LINE_MAX)
    <3>1. "overrun" \in mishaps'
      BY <2>1, <2>4 DEF PutsEnd
    <3>2. /\ Len(StartLine(url)) = AtMost(Len(url) + 2, BUFFER_MAX - 1)
          /\ Len(StartLine(url)) \in Nat /\ BUFFER_MAX - 1 \in Nat
      <4>1. BUFFER_MAX - 1 \in Nat
        BY SizeAssumption
      <4>2. Len(StartLine(url)) = AtMost(Len(url) + 2, BUFFER_MAX - 1)
        BY <1>2, StartLineType
      <4> QED
        BY <1>2, <4>1, <4>2 DEF AtMost
    <3>3. url # <<>>
      <4>1. LINE_MAX > 2 /\ BUFFER_MAX \in Nat
        BY SizeAssumption
      <4>2. Len(url) # 0
        BY <1>2, <2>4, <3>2, <4>1 DEF AtMost
      <4> QED
        BY <4>2
    <3>4. PICK due \in Dues : IsStartText(due) /\ Len(url) <= Len(due.at)
      BY <1>4, <3>3
    <3>5. due.at \in Text /\ Len(due.at) \in Nat
      BY <1>3
    <3>6. /\ KeptOfUrl(due.at) \in Text /\ URL_MAX - 1 \in Nat
          /\ Len(KeptOfUrl(due.at)) = AtMost(Len(due.at), URL_MAX - 1)
      BY <3>5, KeptType
    <3>7. Len(url) <= Len(KeptOfUrl(due.at))
      BY <1>2, <1>5, <3>4, <3>5, <3>6 DEF AtMost
    <3>8. Len(StartLine(url)) <= Len(StartLine(KeptOfUrl(due.at)))
      BY <1>2, <3>6, <3>7, LongerLine
    <3>9. Len(StartLine(KeptOfUrl(due.at))) \in Nat
      BY <3>6, StartLineType DEF Text
    <3>10. Len(StartLine(KeptOfUrl(due.at))) >= LINE_MAX
      BY <1>2, <2>4, <3>2, <3>8, <3>9
    <3>11. LongText
      BY <3>4, <3>10 DEF LongText, Dues
    <3> QED
      BY <1>1, <1>6, <2>2, <3>1, <3>11 DEF StaysInBlocks
  <2> QED
    BY <2>3, <2>4
<1>13. CASE \/ \E at \in Texts : \/ CbHeaderField(at) \/ CbHeaderValue(at)
                                 \/ CbBodyPiped(at) \/ CbBodyCopied(at)
            \/ CbMessageCompleteCopied \/ CbMessageCompletePiped
  <2>1. PICK at, cb : Calls(cb, at)
    BY <1>13 DEF CbHeaderField, CbHeaderValue, CbBodyPiped, CbBodyCopied,
       CbMessageCompleteCopied, CbMessageCompletePiped
  <2>2. UNCHANGED <<mishaps, url, status_line>> /\ pc' # "overrun"
    BY <1>10, <1>13, <2>1 DEF CbHeaderField, CbHeaderValue, CbBodyPiped, CbBodyCopied,
       CbMessageCompleteCopied, CbMessageCompletePiped, parsed
  <2> QED
    BY <1>6, <1>9, <1>10, <2>1, <2>2
<1>14. CASE \/ UlogInit \/ Open \/ WriteAll \/ DrainRead \/ DrainEnd \/ DrainFails
            \/ Flush \/ ResetReturns \/ Eof \/ InputFails \/ Delete \/ WaitsOrReopens
  <2>1. UNCHANGED <<todo, url, status_line>>
    BY <1>14 DEF UlogInit, Open, WriteAll, DrainRead, DrainEnd, DrainFails, Flush,
       ResetReturns, Eof, InputFails, Delete, WaitsOrReopens, parsed
  <2>2. pc' = "overrun" => UNCHANGED pc
    BY <1>14 DEF UlogInit, Open, WriteAll, DrainRead, DrainEnd, DrainFails, Flush,
       ResetReturns, Eof, InputFails, Delete, WaitsOrReopens
  <2>3. mishaps' \subseteq mishaps \union {"drain failed"}
    BY <1>14 DEF UlogInit, Open, WriteAll, DrainRead, DrainEnd, DrainFails, Flush,
       ResetReturns, Eof, InputFails, Delete, WaitsOrReopens, history
  <2> QED
    BY <1>5, <1>6, <1>7, <1>9, <2>1, <2>2, <2>3
<1>15. CASE Breaks \/ Command \/ CommandQuits \/ UNCHANGED vars
  <2>1. /\ UNCHANGED <<todo, url, status_line>>
        /\ mishaps' \subseteq mishaps \union {"quit"}
        /\ UNCHANGED pc \/ "overrun" \in mishaps
    BY <1>15 DEF Breaks, Command, CommandSetUp, CommandTakes, CommandPrints,
       CommandBlocks, CommandEnds, CommandKilled, CommandQuits, rest, vars,
       parsed, history
  <2> QED
    BY <1>5, <1>6, <1>7, <1>9, <2>1
<1> QED
  BY <1>11, <1>12, <1>13, <1>14, <1>15 DEF Next, Tool, Done

\* Every step keeps the types.
LEMMA TypesKept ==
  ASSUME Ph!IInv', TypeOK, StaysInBlocks', [Next]_vars
  PROVE  TypeOK'
<1> DEFINE HandleOK == Ph!TypeOK
           ToolOK == /\ pc \in {"start", "open", "parse", "write", "drain",
                                "flush", "reset", "delete", "exit",
                                "aborted", "killed", "overrun"}
                     /\ rc \in {"EX_OK", "EX_IOERR", "-1"}
                     /\ input \in Inputs
                     /\ mishaps \subseteq {"quit", "drain failed", "overrun"}
                     /\ todo \in Seq(CallbacksWithText)
           FlagsOK == /\ content_length_at \in Nat \union {-1}
                      /\ last_field_was_content_type \in BOOLEAN
                      /\ do_pipe_this_message \in BOOLEAN
           HeadOK == /\ url \in Text /\ status_line \in Text /\ headers \in Text
                     /\ PositionIsOfThisHead
           InOK == unwritten \in Text /\ in_pipe \in Text
                     /\ Len(in_pipe) <= IN_CAPACITY
           OutOK == /\ body \in Seq(Atoms) /\ taken \in Seq(Atoms)
                    /\ out_pipe \in Seq(Atoms) /\ Len(out_pipe) <= OUT_CAPACITY
           PrintedOK == stdout \in Seq(Written)
<1>1. HandleOK'
  BY DEF Ph!IInv
<1>2. ToolOK /\ FlagsOK /\ HeadOK /\ InOK /\ OutOK /\ PrintedOK
  BY DEF TypeOK, Atoms
<1>3. ToolOK' /\ FlagsOK' /\ HeadOK' /\ InOK' /\ OutOK' /\ PrintedOK' => TypeOK'
  BY <1>1 DEF TypeOK, Atoms
<1> HIDE DEF HandleOK
<1>4. ASSUME NEW cb, NEW at, Calls(cb, at)
      PROVE  /\ at \in Text /\ todo' \in Seq(CallbacksWithText)
             /\ UNCHANGED <<rc, input>> /\ pc = "parse"
  BY <1>2, <1>4, PieceType DEF Calls
<1> USE DEF flags, parsed, bytes, history
<1>5. CASE UlogInit \/ Open
  BY <1>2, <1>3, <1>5 DEF UlogInit, Open, PositionIsOfThisHead
<1>6. ASSUME NEW at \in Texts, CbUrl(at) \/ CbStatusComplete(at)
      PROVE  TypeOK'
  <2>1. /\ at \in Text /\ url' = KeptOfUrl(at)
        /\ mishaps' \subseteq mishaps \union {"overrun"}
    BY <1>4, <1>6 DEF CbUrl, CbStatusComplete, PutsEnd
  <2>2. url' \in Text
    BY <2>1, KeptType
  <2>3. ToolOK'
    BY <1>2, <1>4, <1>6, <2>1 DEF CbUrl, CbStatusComplete
  <2> QED
    BY <1>2, <1>3, <1>6, <2>2, <2>3, ConstantTexts DEF CbUrl, CbStatusComplete,
       PositionIsOfThisHead
<1>7. ASSUME NEW at \in Texts, CbHeaderField(at)
      PROVE  TypeOK'
  <2>1. /\ at \in Text /\ ToolOK' /\ InOK' /\ OutOK' /\ PrintedOK'
        /\ headers' = headers \o at \o Colon
        /\ UNCHANGED <<url, status_line>>
    BY <1>2, <1>4, <1>7 DEF CbHeaderField
  <2>2. FlagsOK'
    <3>1. Position(at) \in Nat
      BY <1>2, LengthIsNat DEF Position, Text
    <3>2. Resembles(ContentType, at) \in BOOLEAN
      BY DEF Resembles, IsPrefix
    <3> QED
      BY <1>2, <1>7, <3>1, <3>2 DEF CbHeaderField
  <2>3. headers' \in Text /\ headers' # <<>>
    <3>1. headers' \in Text
      BY <1>2, <2>1, TextConcat, ConstantTexts
    <3>2. ASSUME NEW a \in Text, NEW b \in Text PROVE a \o b \o Colon # <<>>
      BY DEF Text, Colon
    <3> QED
      BY <1>2, <2>1, <3>1, <3>2
  <2> QED
    BY <1>2, <1>3, <2>1, <2>2, <2>3 DEF PositionIsOfThisHead
<1>8. ASSUME NEW at \in Texts, CbHeaderValue(at)
      PROVE  TypeOK'
  <2>1. /\ at \in Text /\ ToolOK' /\ InOK' /\ OutOK' /\ PrintedOK'
        /\ headers' = headers \o at \o Crlf
        /\ UNCHANGED <<url, status_line, content_length_at,
                       last_field_was_content_type>>
    BY <1>2, <1>4, <1>8 DEF CbHeaderValue
  <2>3. do_pipe_this_message' \in BOOLEAN
    <3>1. CASE last_field_was_content_type /\ HasPattern
      <4>1. do_pipe_this_message' = (at \in Matching)
        BY <1>8, <3>1 DEF CbHeaderValue
      <4> QED
        BY <4>1
    <3>2. CASE ~(last_field_was_content_type /\ HasPattern)
      BY <1>2, <1>8, <3>2 DEF CbHeaderValue
    <3> QED
      BY <3>1, <3>2
  <2>2. headers' \in Text /\ headers' # <<>>
    <3>1. headers' \in Text
      BY <1>2, <2>1, TextConcat, ConstantTexts
    <3>2. ASSUME NEW a \in Text, NEW b \in Text PROVE a \o b \o Crlf # <<>>
      BY DEF Text, Crlf
    <3> QED
      BY <1>2, <2>1, <3>1, <3>2
  <2> QED
    BY <1>2, <1>3, <2>1, <2>2, <2>3 DEF PositionIsOfThisHead
<1>9. CASE CbHeadersComplete
  <2>1. /\ ToolOK' /\ InOK' /\ OutOK' /\ PrintedOK' /\ FlagsOK'
        /\ headers' = headers \o Blank /\ status_line' = StartLine(url)
        /\ UNCHANGED url
    <3>1. mishaps' \subseteq mishaps \union {"overrun"}
      BY <1>9 DEF CbHeadersComplete, PutsEnd
    <3> QED
      BY <1>2, <1>4, <1>9, <3>1 DEF CbHeadersComplete
  <2>2. status_line' \in Text
    BY <1>2, <2>1, StartLineType
  <2>3. headers' \in Text /\ headers' # <<>>
    <3>1. ASSUME NEW a \in Text PROVE a \o Blank # <<>>
      BY DEF Text, Blank
    <3> QED
      BY <1>2, <2>1, <3>1, TextConcat, ConstantTexts
  <2> QED
    BY <1>2, <1>3, <2>1, <2>2, <2>3 DEF PositionIsOfThisHead
<1>10. ASSUME NEW at \in Texts, CbBodyPiped(at)
       PROVE  TypeOK'
  BY <1>2, <1>3, <1>4, <1>10 DEF CbBodyPiped, PositionIsOfThisHead
<1>11. ASSUME NEW at \in Texts, CbBodyCopied(at)
       PROVE  TypeOK'
  <2> DEFINE head == IF headers = <<>> THEN <<>> ELSE status_line \o headers
  <2>1. /\ at \in Text /\ ToolOK' /\ InOK' /\ OutOK' /\ FlagsOK'
        /\ headers' = <<>> /\ stdout' = stdout \o By("tool", head \o at)
        /\ UNCHANGED <<url, status_line, do_pipe_this_message>>
        /\ ~do_pipe_this_message
    BY <1>2, <1>4, <1>11 DEF CbBodyCopied
  <2>2. head \o at \in Text
    BY <1>2, <2>1, TextConcat, ConstantTexts
  <2>3. By("tool", head \o at) \in Seq(Written)
    BY <2>2, ByType, WrittenAtoms DEF Sources
  <2>4. stdout' \in Seq(Written)
    BY <1>2, <2>1, <2>3, ConcatSeq
  <2>5. HeadOK'
    BY <1>2, <2>1, ConstantTexts DEF PositionIsOfThisHead
  <2> QED
    BY <1>3, <2>1, <2>4, <2>5
<1>12. CASE WriteAll
  <2>1. ToolOK' /\ FlagsOK' /\ HeadOK' /\ OutOK' /\ PrintedOK'
    BY <1>2, <1>12 DEF WriteAll, PositionIsOfThisHead
  <2>2. CASE UNCHANGED <<in_pipe, unwritten>>
    BY <1>2, <1>3, <2>1, <2>2
  <2>3. ASSUME Len(in_pipe) < IN_CAPACITY,
               LET n == AtMost(Len(unwritten), IN_CAPACITY - Len(in_pipe)) IN
               /\ in_pipe' = in_pipe \o SubSeq(unwritten, 1, n)
               /\ unwritten' = From(unwritten, n + 1)
        PROVE  InOK'
    <3> DEFINE n == AtMost(Len(unwritten), IN_CAPACITY - Len(in_pipe))
    <3>1. IN_CAPACITY \in Nat /\ Len(in_pipe) \in Nat /\ Len(unwritten) \in Nat
      BY <1>2, CommandAssumption, LengthIsNat DEF Text
    <3>2. n \in 0 .. Len(unwritten) /\ Len(in_pipe) + n <= IN_CAPACITY
      BY <2>3, <3>1 DEF AtMost
    <3>3. in_pipe' = in_pipe \o SubSeq(unwritten, 1, n)
          /\ unwritten' = From(unwritten, n + 1)
      BY <2>3
    <3> HIDE DEF n
    <3>4. SubSeq(unwritten, 1, n) \in Text /\ Len(SubSeq(unwritten, 1, n)) = n
          /\ unwritten' \in Text
      BY <1>2, <3>2, <3>3, TextParts DEF Text
    <3>5. in_pipe' \in Text
      BY <1>2, <3>3, <3>4, TextConcat
    <3>6. ASSUME NEW a \in Text, NEW b \in Text
          PROVE  Len(a \o b) = Len(a) + Len(b)
      BY DEF Text
    <3>7. Len(in_pipe') = Len(in_pipe) + n
      <4>1. in_pipe \in Text /\ SubSeq(unwritten, 1, n) \in Text
        BY <1>2, <3>4
      <4> QED
        BY <3>3, <3>4, <3>6, <4>1
    <3> QED
      BY <3>2, <3>4, <3>5, <3>7
  <2> QED
    BY <1>3, <1>12, <2>1, <2>2, <2>3 DEF WriteAll
<1>13. CASE CbMessageCompleteCopied \/ CbMessageCompletePiped
  BY <1>2, <1>3, <1>4, <1>13 DEF CbMessageCompleteCopied,
     CbMessageCompletePiped, PositionIsOfThisHead
<1>14. CASE DrainRead
  <2>1. body' \in Seq(Atoms) /\ out_pipe' = <<>>
    BY <1>2, <1>14, ConcatSeq DEF DrainRead
  <2>2. out_pipe' \in Seq(Atoms) /\ Len(out_pipe') <= OUT_CAPACITY
    BY <2>1, CommandAssumption
  <2> QED
    BY <1>2, <1>3, <1>14, <2>1, <2>2 DEF DrainRead, PositionIsOfThisHead
<1>15. CASE DrainEnd \/ DrainFails \/ Breaks \/ ResetReturns
  BY <1>2, <1>3, <1>15 DEF DrainEnd, DrainFails, Breaks, ResetReturns,
     PositionIsOfThisHead
<1>16. CASE Flush
  <2>1. /\ stdout' = stdout \o By("tool", status_line) \o NewHeaders \o body
        /\ headers' = <<>> /\ body' = <<>> /\ pc' = "reset"
        /\ ToolOK' /\ FlagsOK' /\ InOK'
        /\ UNCHANGED <<url, status_line, taken, out_pipe>>
    BY <1>2, <1>16 DEF Flush
  <2>2. NewHeaders \in Seq(Written)
    BY <1>2, NewHeadersType
  <2>3. By("tool", status_line) \in Seq(Written) /\ body \in Seq(Written)
    BY <1>2, ByType, WrittenAtoms DEF Sources
  <2>4. stdout' \in Seq(Written)
    <3>1. stdout \o By("tool", status_line) \in Seq(Written)
      BY <1>2, <2>3, ConcatSeq
    <3>2. stdout \o By("tool", status_line) \o NewHeaders \in Seq(Written)
      BY <2>2, <3>1, ConcatSeq
    <3> QED
      BY <2>1, <2>3, <3>2, ConcatSeq
  <2>5. body' \in Seq(Atoms)
    BY <2>1, NothingIsSeq
  <2> QED
    BY <1>2, <1>3, <2>1, <2>4, <2>5, ConstantTexts DEF PositionIsOfThisHead
<1>17. CASE Eof \/ InputFails \/ Delete
  BY <1>2, <1>3, <1>17 DEF Eof, InputFails, Delete, PositionIsOfThisHead
<1>18. CASE WaitsOrReopens
  <2>1. out_pipe' \in Seq(Atoms) /\ Len(out_pipe') <= OUT_CAPACITY
    <3>1. out_pipe' = <<>>
      BY <1>18 DEF WaitsOrReopens
    <3> QED
      BY <3>1, NothingFits, NothingIsSeq
  <2> QED
    BY <1>2, <1>3, <1>18, <2>1 DEF WaitsOrReopens, PositionIsOfThisHead
<1>19. CASE CommandSetUp \/ CommandBlocks \/ CommandEnds \/ UNCHANGED vars
  <2>1. UNCHANGED <<pc, rc, history, todo, parsed, body, unwritten, bytes, stdout>>
    BY <1>19 DEF CommandSetUp, CommandBlocks, CommandEnds, rest, vars
  <2> QED
    BY <1>2, <1>3, <2>1 DEF PositionIsOfThisHead
<1>20. CASE CommandTakes
  <2>1. taken' \in Seq(Atoms)
    BY <1>2, <1>20, FilterType, ConcatSeq DEF CommandTakes
  <2>2. in_pipe' \in Text /\ Len(in_pipe') <= IN_CAPACITY
    <3>1. in_pipe' = <<>>
      BY <1>20 DEF CommandTakes
    <3> QED
      BY <3>1, NothingFits
  <2> QED
    BY <1>2, <1>3, <1>20, <2>1, <2>2 DEF CommandTakes, rest,
       PositionIsOfThisHead
<1>21. CASE CommandPrints
  <2>1. PICK n \in 1 .. AtMost(Len(taken), OUT_CAPACITY - Len(out_pipe)) :
          /\ out_pipe' = out_pipe \o SubSeq(taken, 1, n)
          /\ taken' = From(taken, n + 1)
    BY <1>21 DEF CommandPrints
  <2>2. OUT_CAPACITY \in Nat /\ Len(out_pipe) \in Nat /\ Len(taken) \in Nat
    BY <1>2, CommandAssumption, LengthIsNat
  <2>3. n \in 0 .. Len(taken) /\ Len(out_pipe) + n <= OUT_CAPACITY
    BY <2>2 DEF AtMost
  <2>4. SubSeq(taken, 1, n) \in Seq(Atoms) /\ Len(SubSeq(taken, 1, n)) = n
        /\ taken' \in Seq(Atoms)
    BY <1>2, <2>1, <2>3, TextParts
  <2>5. out_pipe' \in Seq(Atoms)
    BY <1>2, <2>1, <2>4, ConcatSeq
  <2>6. ASSUME NEW a \in Seq(Atoms), NEW b \in Seq(Atoms)
        PROVE  Len(a \o b) = Len(a) + Len(b)
    OBVIOUS
  <2>7. Len(out_pipe') = Len(out_pipe) + n
    <3>1. out_pipe \in Seq(Atoms)
      BY <1>2
    <3> QED
      BY <2>1, <2>4, <2>6, <3>1
  <2>8. OutOK'
    BY <1>21, <1>2, <2>3, <2>4, <2>5, <2>7 DEF CommandPrints, rest
  <2> QED
    BY <1>2, <1>3, <1>21, <2>8 DEF CommandPrints, rest, PositionIsOfThisHead
<1>22. CASE CommandKilled \/ CommandQuits
  <2>1. /\ in_pipe' \in Text /\ Len(in_pipe') <= IN_CAPACITY
        /\ taken' \in Seq(Atoms)
    <3>1. in_pipe' = <<>> /\ taken' = <<>>
      BY <1>22 DEF CommandKilled, CommandQuits
    <3> QED
      BY <3>1, NothingFits, NothingIsSeq
  <2> QED
    BY <1>2, <1>3, <1>22, <2>1 DEF CommandKilled, CommandQuits, rest,
       PositionIsOfThisHead
<1> QED
  BY <1>5, <1>6, <1>7, <1>8, <1>9, <1>10, <1>11, <1>12, <1>13, <1>14, <1>15,
     <1>16, <1>17, <1>18, <1>19, <1>20, <1>21, <1>22
  DEF Next, Tool, Command, Done

\* Every variable keeps its type; no position in the head of an earlier
\* message is left behind, no pipe holds more than it can, and nothing is put
\* behind the blocks of the URL and of the start line unless the input has a
\* text that is too long for them, which the tool does not look for.
THEOREM TypeCorrect == Spec => []TypeOK
<1>1. Ph!IInv' /\ TypeOK /\ TextsDue /\ [Next]_vars => (TypeOK /\ TextsDue)'
  BY StaysKept, TypesKept
<1> QED
  BY <1>1, TypesStart, TextsStart, HandleInvariant, PTL DEF Spec

-----------------------------------------------------------------------------
ByLaws(T) ==
  \A who \in Sources : \A a, b \in Text :
    By(who, a) \in T /\ By(who, a \o b) = By(who, a) \o By(who, b)

LEMMA ByEmpty == \A who : By(who, <<>>) = <<>>
BY DEF By

\* A text in two parts is written as its two parts.
LEMMA ByParts ==
  ASSUME NEW who \in Sources, NEW a \in Text, NEW b \in Text
  PROVE  By(who, a \o b) = By(who, a) \o By(who, b)
<1> DEFINE x == By(who, a)
           y == By(who, b)
           z == By(who, a \o b)
<1>1. /\ a \o b \in Text /\ Len(a \o b) = Len(a) + Len(b)
      /\ Len(a) \in Nat /\ Len(b) \in Nat
      /\ \A i \in 1 .. Len(a) : (a \o b)[i] = a[i]
      /\ \A i \in 1 .. Len(b) : (a \o b)[Len(a) + i] = b[i]
  BY DEF Text
<1>2. x \in Seq(Atoms) /\ y \in Seq(Atoms) /\ z \in Seq(Atoms)
  BY <1>1, ByType
<1>3. /\ Len(x) = Len(a) /\ Len(y) = Len(b) /\ Len(z) = Len(a) + Len(b)
      /\ \A i \in 1 .. Len(a) : x[i] = <<who, a[i]>>
      /\ \A i \in 1 .. Len(b) : y[i] = <<who, b[i]>>
      /\ \A i \in 1 .. Len(a) + Len(b) : z[i] = <<who, (a \o b)[i]>>
  BY <1>1, <1>2 DEF By, Text
<1> HIDE DEF x, y, z
<1>4. /\ Len(z) = Len(x) + Len(y)
      /\ \A i \in 1 .. Len(x) : z[i] = x[i]
      /\ \A i \in 1 .. Len(y) : z[Len(x) + i] = y[i]
  <2>1. Len(z) = Len(x) + Len(y)
    BY <1>3
  <2>2. ASSUME NEW i \in 1 .. Len(x) PROVE z[i] = x[i]
    <3>1. i \in 1 .. Len(a) /\ i \in 1 .. Len(a) + Len(b)
      BY <1>1, <1>3
    <3> QED
      BY <1>1, <1>3, <3>1
  <2>3. ASSUME NEW i \in 1 .. Len(y) PROVE z[Len(x) + i] = y[i]
    <3>1. i \in 1 .. Len(b) /\ Len(a) + i \in 1 .. Len(a) + Len(b)
      BY <1>1, <1>3
    <3>2. z[Len(a) + i] = <<who, b[i]>>
      BY <1>1, <1>3, <3>1
    <3> QED
      BY <1>3, <3>1, <3>2
  <2> QED
    BY <2>1, <2>2, <2>3
<1> HIDE DEF Atoms
<1>5. z = x \o y
  BY <1>2, <1>4, SameAsConcat
<1> QED
  BY <1>5 DEF x, y, z

\* All that is printed is of one kind.
W == Seq(Written)

LEMMA WrittenLaws == Laws(W) /\ Laws(Text) /\ ByLaws(W)
<1>1. Laws(W) /\ Laws(Text)
  BY SequenceLaws, Zenon DEF W, Text
<1>2. ByLaws(W)
  BY ByParts, ByType, WrittenAtoms DEF ByLaws, W
<1> QED
  BY <1>1, <1>2

\* The laws one by one: all at once have the provers build ever longer sequences.
LEMMA Regrouped ==
  ASSUME NEW a \in W, NEW b \in W, NEW c \in W
  PROVE  (a \o b) \o c = a \o (b \o c)
<1>1. Laws(W)
  BY WrittenLaws
<1> QED
  BY <1>1, Zenon DEF Laws

LEMMA WordsRegrouped ==
  ASSUME NEW a \in Text, NEW b \in Text, NEW c \in Text
  PROVE  (a \o b) \o c = a \o (b \o c)
<1>1. Associative(Text)
  BY ConcatIsAssociative, Zenon DEF Text
<1> QED
  BY <1>1, Zenon DEF Associative

LEMMA Joined ==
  ASSUME NEW a \in W, NEW b \in W
  PROVE  a \o b \in W
<1>1. Laws(W)
  BY WrittenLaws
<1> QED
  BY <1>1, Zenon DEF Laws

\* A filter makes of a text in two parts what it makes of the first and then
\* of the second.
LEMMA FilterParts ==
  ASSUME NEW a \in Text, NEW b \in Text
  PROVE  Filter(a \o b) = Filter(a) \o Filter(b)
<1> DEFINE made(x) == [k \in 1 .. GROWTH |-> <<"command", x>>]
           Made(text) == [i \in DOMAIN text |-> made(text[i])]
           S == Seq(Atoms)
<1>1. ASSUME NEW x \in STRING PROVE made(x) \in S
  <2>1. <<"command", x>> \in Atoms
    BY DEF Atoms, Sources
  <2>2. GROWTH \in Nat
    BY CommandAssumption
  <2> QED
    BY <2>1, <2>2, RepeatSeq, Zenon
<1> HIDE DEF made, S
<1>2. ASSUME NEW text \in Text
      PROVE  /\ Made(text) \in Seq(S) /\ Len(Made(text)) = Len(text)
             /\ \A i \in 1 .. Len(text) : Made(text)[i] = made(text[i])
  <2>1. DOMAIN text = 1 .. Len(text) /\ Len(text) \in Nat
        /\ \A i \in 1 .. Len(text) : text[i] \in STRING
    BY DEF Text
  <2>2. \A i \in 1 .. Len(text) : made(text[i]) \in S
    BY <1>1, <2>1
  <2> QED
    BY <2>1, <2>2
<1>3. /\ a \o b \in Text /\ Len(a \o b) = Len(a) + Len(b)
      /\ Len(a) \in Nat /\ Len(b) \in Nat
      /\ \A i \in 1 .. Len(a) : (a \o b)[i] = a[i]
      /\ \A i \in 1 .. Len(b) : (a \o b)[Len(a) + i] = b[i]
  BY DEF Text
<1>4. /\ Made(a) \in Seq(S) /\ Made(b) \in Seq(S) /\ Made(a \o b) \in Seq(S)
      /\ Len(Made(a)) = Len(a) /\ Len(Made(b)) = Len(b)
      /\ Len(Made(a \o b)) = Len(a) + Len(b)
      /\ \A i \in 1 .. Len(a) : Made(a)[i] = made(a[i])
      /\ \A i \in 1 .. Len(b) : Made(b)[i] = made(b[i])
      /\ \A i \in 1 .. Len(a) + Len(b) : Made(a \o b)[i] = made((a \o b)[i])
  <2> HIDE DEF Made
  <2> QED
    BY <1>2, <1>3
<1> DEFINE x == Made(a)
           y == Made(b)
           z == Made(a \o b)
<1> HIDE DEF Made
<1>5. /\ Len(z) = Len(x) + Len(y)
      /\ \A i \in 1 .. Len(x) : z[i] = x[i]
      /\ \A i \in 1 .. Len(y) : z[Len(x) + i] = y[i]
  <2> HIDE DEF x, y, z
  <2>0. /\ Len(x) = Len(a) /\ Len(y) = Len(b)
        /\ Len(z) = Len(a) + Len(b)
        /\ \A i \in 1 .. Len(a) : x[i] = made(a[i])
        /\ \A i \in 1 .. Len(b) : y[i] = made(b[i])
        /\ \A i \in 1 .. Len(a) + Len(b) : z[i] = made((a \o b)[i])
    BY <1>4 DEF x, y, z
  <2>1. Len(z) = Len(x) + Len(y)
    BY <2>0
  <2>2. ASSUME NEW i \in 1 .. Len(x) PROVE z[i] = x[i]
    <3>1. i \in 1 .. Len(a) /\ i \in 1 .. Len(a) + Len(b)
      BY <1>3, <2>0
    <3> QED
      BY <1>3, <2>0, <3>1
  <2>3. ASSUME NEW i \in 1 .. Len(y) PROVE z[Len(x) + i] = y[i]
    <3>1. i \in 1 .. Len(b) /\ Len(a) + i \in 1 .. Len(a) + Len(b)
      BY <1>3, <2>0
    <3>2. z[Len(a) + i] = made(b[i])
      BY <1>3, <2>0, <3>1
    <3> QED
      BY <2>0, <3>1, <3>2
  <2> QED
    BY <2>1, <2>2, <2>3
<1>6. z = x \o y
  <2>1. x \in Seq(S) /\ y \in Seq(S) /\ z \in Seq(S)
    BY <1>4
  <2> HIDE DEF x, y, z
  <2> QED
    BY <2>1, <1>5, SameAsConcat
<1>7. FlattenSeq(x \o y) = FlattenSeq(x) \o FlattenSeq(y)
  <2>1. x \in Seq(Seq(Atoms)) /\ y \in Seq(Seq(Atoms))
    BY <1>4 DEF S
  <2> HIDE DEF x, y
  <2> QED
    BY <2>1, FlattenConcat
<1>8. \A text : Filter(text) = FlattenSeq(Made(text))
  BY DEF Filter, Made, made
<1>9. Filter(a \o b) = FlattenSeq(z) /\ Filter(a) = FlattenSeq(x) /\ Filter(b) = FlattenSeq(y)
  BY <1>8, Zenon
<1> QED
  BY <1>6, <1>7, <1>9, Zenon

LEMMA FilterNothing == Filter(<<>>) = <<>>
<1>1. DOMAIN <<>> = {}
  OBVIOUS
<1>2. [i \in {} |-> [k \in 1 .. GROWTH |-> <<"command", <<>>[i]>>]] = <<>>
  OBVIOUS
<1> QED
  BY <1>1, <1>2, FlattenEmpty DEF Filter

\* The laws for the command's bytes.
FilterLaws ==
  /\ Filter(<<>>) = <<>>
  /\ \A a \in Text : Filter(a) \in W
  /\ \A a, b \in Text : Filter(a \o b) = Filter(a) \o Filter(b)

LEMMA CommandLaws == FilterLaws
<1>1. \A a \in Text : Filter(a) \in W
  BY FilterType, WrittenAtoms DEF W
<1> QED
  BY <1>1, FilterNothing, FilterParts DEF FilterLaws
-----------------------------------------------------------------------------
\* What is due of a field, a head and a message.
Line == [name : Text, value : Text]

LEMMA LengthAtom ==
  ASSUME NEW length \in Nat
  PROVE  <<<<"length", length>>>> \in W
<1>1. <<"length", length>> \in Written
  BY DEF Written
<1> QED
  BY <1>1, OneSeq DEF W

\* The two ways a field is printed.
LineOut(field) == By("tool", field.name \o Colon \o field.value \o Crlf)
MarkedLine(field, length) ==
  By("tool", field.name \o Colon) \o <<<<"length", length>>>>
    \o By("tool", Crlf \o Original \o field.name \o Colon \o field.value \o Crlf)

LEMMA FieldOutType ==
  ASSUME NEW field \in Line, NEW length \in Lengths
  PROVE  FieldOut(field, length) \in W
<1> DEFINE n == field.name
           v == field.value
<1>1. n \in Text /\ v \in Text /\ Colon \in Text /\ Crlf \in Text /\ Original \in Text
  BY ConstantTexts DEF Line
<1> HIDE DEF n, v
<1>2. Laws(Text) /\ Laws(W) /\ ByLaws(W) /\ "tool" \in Sources
  BY WrittenLaws DEF Sources
<1>3. /\ n \o Colon \in Text
      /\ n \o Colon \o v \o Crlf \in Text
      /\ Crlf \o Original \o n \o Colon \o v \o Crlf \in Text
  BY <1>1, TextConcat
<1>4. LineOut(field) \in W
  BY <1>2, <1>3 DEF LineOut, ByLaws, n, v
<1>5. ASSUME length >= 0 PROVE MarkedLine(field, length) \in W
  <2> DEFINE x == By("tool", n \o Colon)
             y == <<<<"length", length>>>>
             z == By("tool", Crlf \o Original \o n \o Colon \o v \o Crlf)
  <2>1. x \in W /\ z \in W
    BY <1>2, <1>3, Zenon DEF ByLaws
  <2>2. length \in Nat
    BY <1>5 DEF Lengths
  <2>3. y \in W
    BY <2>2, LengthAtom
  <2>4. MarkedLine(field, length) = x \o y \o z
    BY DEF MarkedLine, n, v
  <2> HIDE DEF x, y, z
  <2>5. x \o y \in W
    BY <1>2, <2>1, <2>3, Zenon DEF Laws
  <2>6. x \o y \o z \in W
    BY <1>2, <2>1, <2>5, Zenon DEF Laws
  <2> QED
    BY <2>4, <2>6
<1>6. FieldOut(field, length) =
        IF field.name = ContentLength /\ length >= 0 THEN MarkedLine(field, length)
                                                     ELSE LineOut(field)
  BY Zenon DEF FieldOut, MarkedLine, LineOut
<1> QED
  BY <1>4, <1>5, <1>6

\* What fields print is written.
LEMMA FieldsOutType ==
  ASSUME NEW fields \in FieldLines, NEW length \in Lengths
  PROVE  /\ [i \in DOMAIN fields |-> FieldOut(fields[i], length)] \in Seq(W)
         /\ FieldsOut(fields, length) \in W
<1>1. \A i \in 1 .. Len(fields) : FieldOut(fields[i], length) \in W
  <2>1. \A i \in 1 .. Len(fields) : fields[i] \in Line
    BY ElementOfSeq DEF FieldLines, Line
  <2> QED
    BY <2>1, FieldOutType
<1>2. fields \in Seq(Line)
  BY DEF FieldLines, Line
<1> HIDE DEF W
<1>3. [i \in DOMAIN fields |-> FieldOut(fields[i], length)] \in Seq(W)
  BY <1>1, <1>2
<1> QED
  BY <1>3, FlattenType DEF FieldsOut, W

\* One field more.
LEMMA FieldsOutMore ==
  ASSUME NEW fields \in Seq(Line), NEW x \in Line, NEW length \in Lengths
  PROVE  FieldsOut(Append(fields, x), length) =
           FieldsOut(fields, length) \o FieldOut(x, length)
<1> DEFINE more == Append(fields, x)
           p == [i \in DOMAIN fields |-> FieldOut(fields[i], length)]
           q == [i \in DOMAIN more |-> FieldOut(more[i], length)]
           o == FieldOut(x, length)
           e == Append(p, o)
<1>1. /\ more \in Seq(Line) /\ Len(more) = Len(fields) + 1
      /\ more[Len(fields) + 1] = x
      /\ \A i \in 1 .. Len(fields) : more[i] = fields[i]
      /\ Len(fields) \in Nat /\ DOMAIN fields = 1 .. Len(fields)
      /\ DOMAIN more = 1 .. Len(fields) + 1
  OBVIOUS
<1> HIDE DEF more
<1>2. p \in Seq(W) /\ q \in Seq(W) /\ o \in W
  <2>1. fields \in FieldLines /\ more \in FieldLines
    BY <1>1 DEF FieldLines, Line
  <2> QED
    BY <2>1, FieldsOutType, FieldOutType
<1>3. /\ Len(p) = Len(fields) /\ Len(q) = Len(fields) + 1
      /\ q[Len(fields) + 1] = o
      /\ \A i \in 1 .. Len(fields) : q[i] = p[i]
  BY <1>1, <1>2
<1> HIDE DEF p, q, o
<1>4. q = e
  <2>1. /\ e \in Seq(W) /\ Len(e) = Len(p) + 1 /\ e[Len(p) + 1] = o
        /\ \A i \in 1 .. Len(p) : e[i] = p[i]
    BY <1>2, AppendProperties
  <2> HIDE DEF e
  <2>2. ASSUME NEW i \in 1 .. Len(q) PROVE q[i] = e[i]
    BY <1>1, <1>3, <2>1
  <2> QED
    BY <1>1, <1>2, <1>3, <2>1, <2>2, SeqEqual
<1>5. FlattenSeq(e) = FlattenSeq(p) \o o
  BY <1>2, FlattenMore DEF W
<1> QED
  BY <1>4, <1>5, Zenon DEF FieldsOut, p, q, o, more

LEMMA NothingDue ==
  /\ \A length : FieldsOut(<<>>, length) = <<>>
  /\ Outs(<<>>) = <<>>
<1>1. DOMAIN <<>> = {}
  OBVIOUS
<1>2. \A length : [i \in {} |-> FieldOut(<<>>[i], length)] = <<>>
  OBVIOUS
<1>3. [i \in {} |-> Out(<<>>[i])] = <<>>
  OBVIOUS
<1> QED
  BY <1>1, <1>2, <1>3, FlattenEmpty DEF FieldsOut, Outs

\* The beginnings of a sequence.
HasUptos(S, T) ==
  \A s \in T :
    /\ Upto(s, 0) = <<>> /\ Upto(s, Len(s)) = s
    /\ \A j \in 0 .. Len(s) : Upto(s, j) \in T
    /\ \A j \in 0 .. Len(s) - 1 :
         s[j + 1] \in S /\ Upto(s, j + 1) = Append(Upto(s, j), s[j + 1])

LEMMA Uptos == \A S : HasUptos(S, Seq(S))
<1> SUFFICES ASSUME NEW S, NEW s \in Seq(S)
             PROVE  /\ Upto(s, 0) = <<>> /\ Upto(s, Len(s)) = s
                    /\ \A j \in 0 .. Len(s) : Upto(s, j) \in Seq(S)
                    /\ \A j \in 0 .. Len(s) - 1 :
                         s[j + 1] \in S /\ Upto(s, j + 1) = Append(Upto(s, j), s[j + 1])
  BY DEF HasUptos
<1>1. ASSUME NEW j \in 0 .. Len(s)
      PROVE  /\ Upto(s, j) \in Seq(S) /\ Len(Upto(s, j)) = j
             /\ \A i \in 1 .. j : Upto(s, j)[i] = s[i]
  BY DEF Upto
<1>2. Upto(s, 0) = <<>> /\ Upto(s, Len(s)) = s
  BY DEF Upto
<1>3. ASSUME NEW j \in 0 .. Len(s) - 1
      PROVE  s[j + 1] \in S /\ Upto(s, j + 1) = Append(Upto(s, j), s[j + 1])
  <2> DEFINE p == Upto(s, j)
             q == Upto(s, j + 1)
             x == s[j + 1]
             e == Append(p, x)
  <2>1. j \in 0 .. Len(s) /\ j + 1 \in 0 .. Len(s) /\ j \in Nat /\ j + 1 \in 1 .. Len(s)
        /\ x \in S
    OBVIOUS
  <2>2. /\ p \in Seq(S) /\ Len(p) = j /\ \A i \in 1 .. j : p[i] = s[i]
    BY <1>1, <2>1
  <2>3. /\ q \in Seq(S) /\ Len(q) = j + 1 /\ \A i \in 1 .. j + 1 : q[i] = s[i]
    <3> DEFINE k == j + 1
    <3>1. k \in 0 .. Len(s)
      BY <2>1
    <3> HIDE DEF k
    <3>2. /\ Upto(s, k) \in Seq(S) /\ Len(Upto(s, k)) = k
          /\ \A i \in 1 .. k : Upto(s, k)[i] = s[i]
      BY <1>1, <3>1
    <3> QED
      BY <3>2 DEF k
  <2> HIDE DEF p, q
  <2>4. /\ e \in Seq(S) /\ Len(e) = j + 1 /\ e[j + 1] = x
        /\ \A i \in 1 .. j : e[i] = p[i]
    BY <2>1, <2>2, AppendProperties
  <2> HIDE DEF e
  <2>5. ASSUME NEW i \in 1 .. j + 1 PROVE q[i] = e[i]
    <3>1. i \in 1 .. j \/ i = j + 1
      BY <2>1
    <3>2. CASE i \in 1 .. j
      BY <2>2, <2>3, <2>4, <3>2, Zenon
    <3>3. CASE i = j + 1
      BY <2>1, <2>3, <2>4, <3>3, Zenon
    <3> QED
      BY <3>1, <3>2, <3>3
  <2>6. q = e
    BY <2>3, <2>4, <2>5, SeqEqual
  <2> QED
    BY <2>1, <2>6 DEF e, p, q
<1> QED
  BY <1>1, <1>2, <1>3

\* A whole message: its head, then its body as it is or the command's.
Whole(message) == FlattenSeq(message.body)

LEMMA HeadOutType ==
  ASSUME NEW message \in Messages, NEW length \in Lengths
  PROVE  /\ StartLineUncut(message.url) \in Text
         /\ By("tool", StartLineUncut(message.url)) \in W
         /\ FieldsOut(message.fields, length) \in W
         /\ By("tool", Blank) \in W
         /\ HeadOut(message, length) \in W
<1>1. message.url \in Text /\ message.fields \in FieldLines
  BY DEF Messages
<1>2. StartLineUncut(message.url) \in Text
  BY <1>1, StartLineType
<1>3. "tool" \in Sources /\ Blank \in Text /\ Laws(W) /\ ByLaws(W)
  BY ConstantTexts, WrittenLaws DEF Sources
<1> DEFINE x == By("tool", StartLineUncut(message.url))
           y == FieldsOut(message.fields, length)
           z == By("tool", Blank)
<1>4. x \in W /\ y \in W /\ z \in W
  BY <1>1, <1>2, <1>3, FieldsOutType DEF ByLaws
<1>5. HeadOut(message, length) = x \o y \o z
  BY DEF HeadOut
<1> HIDE DEF x, y, z
<1>6. x \o y \in W
  BY <1>3, <1>4, Zenon DEF Laws
<1>7. x \o y \o z \in W
  BY <1>3, <1>4, <1>6, Zenon DEF Laws
<1> QED
  BY <1>2, <1>4, <1>5, <1>7 DEF x, y, z

LEMMA OutType ==
  ASSUME NEW message \in Messages
  PROVE  /\ Whole(message) \in Text
         /\ Filter(Whole(message)) \in W /\ Len(Filter(Whole(message))) \in Nat
         /\ By("tool", Whole(message)) \in W
         /\ Piped(message) => Out(message) =
              HeadOut(message, Len(Filter(Whole(message)))) \o Filter(Whole(message))
         /\ ~Piped(message) => Out(message) = HeadOut(message, -1) \o By("tool", Whole(message))
         /\ Out(message) \in W
<1>1. Whole(message) \in Text
  <2>1. message.body \in Seq(Text)
    BY DEF Messages
  <2> QED
    BY <2>1, FlattenType DEF Whole, Text
<1>2. "tool" \in Sources /\ Laws(W) /\ ByLaws(W) /\ FilterLaws
  BY CommandLaws, WrittenLaws DEF Sources
<1>3. Filter(Whole(message)) \in W /\ Len(Filter(Whole(message))) \in Nat
  <2>1. Filter(Whole(message)) \in W
    BY <1>1, <1>2, Zenon DEF FilterLaws
  <2> QED
    BY <2>1, LengthIsNat DEF W
<1>4. By("tool", Whole(message)) \in W
  BY <1>1, <1>2, Zenon DEF ByLaws
<1>5. /\ Piped(message) => Out(message) =
           HeadOut(message, Len(Filter(Whole(message)))) \o Filter(Whole(message))
      /\ ~Piped(message) => Out(message) = HeadOut(message, -1) \o By("tool", Whole(message))
  BY Zenon DEF Out, Whole
<1>6. /\ HeadOut(message, Len(Filter(Whole(message)))) \in W
      /\ HeadOut(message, -1) \in W
  <2>1. Len(Filter(Whole(message))) \in Lengths /\ -1 \in Lengths
    BY <1>3 DEF Lengths
  <2> QED
    BY <2>1, HeadOutType
<1>7. /\ HeadOut(message, Len(Filter(Whole(message)))) \o Filter(Whole(message)) \in W
      /\ HeadOut(message, -1) \o By("tool", Whole(message)) \in W
  BY <1>2, <1>3, <1>4, <1>6, Zenon DEF Laws
<1> QED
  BY <1>1, <1>3, <1>4, <1>5, <1>7

LEMMA OutsType ==
  ASSUME NEW messages \in Seq(Messages)
  PROVE  /\ [i \in DOMAIN messages |-> Out(messages[i])] \in Seq(W)
         /\ Outs(messages) \in W
<1>1. \A i \in 1 .. Len(messages) : Out(messages[i]) \in W
  BY OutType
<1> HIDE DEF W
<1>2. [i \in DOMAIN messages |-> Out(messages[i])] \in Seq(W)
  BY <1>1
<1> QED
  BY <1>2, FlattenType DEF Outs, W

\* What a sequence of messages prints is what its first prints and then the
\* others.
LEMMA OutsCons ==
  ASSUME NEW messages \in Seq(Messages), NEW x \in Messages
  PROVE  Outs(<<x>> \o messages) = Out(x) \o Outs(messages)
<1> DEFINE more == <<x>> \o messages
           p == [i \in DOMAIN messages |-> Out(messages[i])]
           q == [i \in DOMAIN more |-> Out(more[i])]
<1>1. /\ more \in Seq(Messages)
      /\ Len(more) = Len(messages) + 1 /\ more[1] = x
      /\ \A i \in 1 .. Len(messages) : more[i + 1] = messages[i]
      /\ Len(messages) \in Nat /\ DOMAIN messages = 1 .. Len(messages)
      /\ DOMAIN more = 1 .. Len(messages) + 1
  BY ConsIs
<1> HIDE DEF more
<1>2. p \in Seq(W) /\ q \in Seq(W)
  BY <1>1, OutsType
<1>3. /\ Len(p) = Len(messages) /\ Len(q) = Len(messages) + 1
      /\ q[1] = Out(x) /\ q[1] \in W
      /\ \A i \in 1 .. Len(messages) : q[i + 1] = p[i]
  BY <1>1, OutType
<1> HIDE DEF p, q
<1>4. q = <<q[1]>> \o p
  <2> DEFINE T == Seq(W)
  <2>1. HasConses(T)
    BY Conses, Zenon
  <2>2. p \in T /\ q \in T
    BY <1>2
  <2> HIDE DEF T
  <2> QED
    BY <1>3, <2>1, <2>2 DEF HasConses
<1>5. FlattenSeq(q) = q[1] \o FlattenSeq(p)
  BY <1>2, <1>3, <1>4, FlattenCons DEF W
<1> QED
  BY <1>3, <1>5 DEF Outs, p, q, more

\* What is still due, message by message.
LEMMA DueFrom ==
  ASSUME input.messages \in Seq(Messages)
  PROVE  /\ \A m \in 0 .. Len(input.messages) : Outs(Rest(input.messages, m)) \in W
         /\ \A m \in 0 .. Len(input.messages) - 1 :
              Outs(Rest(input.messages, m)) =
                Out(Current(m)) \o Outs(Rest(input.messages, m + 1))
         /\ Outs(Rest(input.messages, 0)) = Expected
         /\ Outs(Rest(input.messages, Len(input.messages))) = <<>>
         /\ Expected \in W
<1> DEFINE messages == input.messages
<1>1. HasRests(Messages, Seq(Messages))
  BY Rests, Zenon
<1>2. Rest(messages, 0) = messages /\ Rest(messages, Len(messages)) = <<>>
  BY <1>1, Zenon DEF HasRests
<1>3. ASSUME NEW m \in 0 .. Len(messages)
      PROVE  Outs(Rest(messages, m)) \in W
  <2>1. Rest(messages, m) \in Seq(Messages)
    BY <1>1, Zenon DEF HasRests
  <2> QED
    BY <2>1, OutsType
<1>4. ASSUME NEW m \in 0 .. Len(messages) - 1
      PROVE  Outs(Rest(messages, m)) = Out(Current(m)) \o Outs(Rest(messages, m + 1))
  <2>1. m + 1 \in 0 .. Len(messages)
    BY MessageParts
  <2>2. /\ messages[m + 1] \in Messages
        /\ Rest(messages, m) = <<messages[m + 1]>> \o Rest(messages, m + 1)
        /\ Rest(messages, m + 1) \in Seq(Messages)
    BY <1>1, <2>1, Zenon DEF HasRests
  <2> QED
    BY <2>2, OutsCons DEF Current
<1>5. Outs(Rest(messages, 0)) = Expected /\ Expected \in W
  BY <1>2, OutsType DEF Expected
<1>6. Outs(Rest(messages, Len(messages))) = <<>>
  BY <1>2, NothingDue
<1> QED
  BY <1>3, <1>4, <1>5, <1>6
-----------------------------------------------------------------------------
\* A head that grows, and the position of the length in it.
LEMMA PartsOfConcat ==
  ASSUME NEW text \in Text, NEW more \in Text, NEW k \in 0 .. Len(text)
  PROVE  /\ SubSeq(text \o more, 1, k) = SubSeq(text, 1, k)
         /\ From(text \o more, k + 1) = From(text, k + 1) \o more
         /\ From(text, k + 1) \in Text /\ SubSeq(text, 1, k) \in Text
         /\ k <= Len(text \o more) /\ k \in Nat /\ Len(text \o more) \in Nat
<1> USE DEF Text
<1> DEFINE c == text \o more
<1>1. /\ c \in Text /\ Len(c) = Len(text) + Len(more)
      /\ Len(text) \in Nat /\ Len(more) \in Nat /\ k \in Nat
      /\ \A i \in 1 .. Len(text) : c[i] = text[i]
      /\ \A i \in 1 .. Len(more) : c[Len(text) + i] = more[i]
  OBVIOUS
<1> HIDE DEF c
<1>2. SubSeq(c, 1, k) = SubSeq(text, 1, k) /\ SubSeq(text, 1, k) \in Text
  <2> DEFINE a == SubSeq(c, 1, k)
             b == SubSeq(text, 1, k)
  <2>1. /\ a \in Text /\ Len(a) = k /\ \A i \in 1 .. k : a[i] = c[i]
        /\ b \in Text /\ Len(b) = k /\ \A i \in 1 .. k : b[i] = text[i]
    BY <1>1
  <2> HIDE DEF a, b
  <2>2. ASSUME NEW i \in 1 .. k PROVE a[i] = b[i]
    <3>1. i \in 1 .. Len(text)
      BY <1>1
    <3>2. a[i] = c[i] /\ b[i] = text[i]
      BY <2>1, Zenon
    <3>3. c[i] = text[i]
      BY <1>1, <3>1, Zenon
    <3> QED
      BY <3>2, <3>3, Zenon
  <2>3. a = b
    BY <2>1, <2>2, SeqEqual
  <2> QED
    BY <2>1, <2>3 DEF a, b
<1>3. From(c, k + 1) = From(text, k + 1) \o more /\ From(text, k + 1) \in Text
  <2> DEFINE a == From(text, k + 1)
             b == From(c, k + 1)
  <2>1. /\ a \in Text /\ Len(a) = Len(text) - k
        /\ \A i \in 1 .. Len(text) - k : a[i] = text[k + i]
    BY <1>1 DEF From
  <2>2. /\ b \in Text /\ Len(b) = Len(c) - k
        /\ \A i \in 1 .. Len(c) - k : b[i] = c[k + i]
    BY <1>1 DEF From
  <2> HIDE DEF a, b
  <2>3. Len(b) = Len(a) + Len(more)
    BY <1>1, <2>1, <2>2
  <2>4. ASSUME NEW i \in 1 .. Len(a) PROVE b[i] = a[i]
    <3>1. k + i \in 1 .. Len(text) /\ i \in 1 .. Len(c) - k /\ i \in 1 .. Len(text) - k
      BY <1>1, <2>1
    <3> QED
      BY <1>1, <2>1, <2>2, <3>1
  <2>5. ASSUME NEW i \in 1 .. Len(more) PROVE b[Len(a) + i] = more[i]
    <3>1. Len(a) + i \in 1 .. Len(c) - k /\ k + (Len(a) + i) = Len(text) + i
      BY <1>1, <2>1
    <3> QED
      BY <1>1, <2>1, <2>2, <3>1
  <2>6. b = a \o more
    BY <2>1, <2>2, <2>3, <2>4, <2>5, SameAsConcat
  <2> QED
    BY <2>1, <2>6 DEF a, b
<1> QED
  BY <1>1, <1>2, <1>3 DEF c

\* The two parts of a marked head.
Before(text, at) == By("tool", SubSeq(text, 1, at) \o ContentLength \o Colon)
Behind(text, at) == By("tool", Crlf \o Original \o From(text, at + 1))

LEMMA MarkedIs ==
  ASSUME NEW text \in Text, NEW position \in Int, NEW length \in Lengths
  PROVE  /\ position = -1 \/ length = -1 => Marked(text, position, length) = By("tool", text)
         /\ position \in 0 .. Len(text) /\ length # -1 =>
              /\ length \in Nat
              /\ Marked(text, position, length) =
                   Before(text, position) \o <<<<"length", length>>>> \o Behind(text, position)
<1>1. length \in Nat \/ length = -1
  BY DEF Lengths
<1>2. ASSUME position = -1 \/ length = -1
      PROVE  Marked(text, position, length) = By("tool", text)
  <2>1. ~(position >= 0 /\ length >= 0)
    BY <1>1, <1>2
  <2> QED
    BY <2>1 DEF Marked
<1>3. ASSUME position \in 0 .. Len(text), length # -1
      PROVE  /\ length \in Nat
             /\ Marked(text, position, length) =
                  Before(text, position) \o <<<<"length", length>>>> \o Behind(text, position)
  <2>1. length \in Nat /\ position >= 0 /\ length >= 0 /\ Len(text) \in Nat
    BY <1>1, <1>3 DEF Text
  <2>2. AtMost(position, Len(text)) = position
    BY <1>3, <2>1 DEF AtMost
  <2>3. Marked(text, position, length) =
          LET at == AtMost(position, Len(text)) IN
            By("tool", SubSeq(text, 1, at) \o ContentLength \o Colon)
              \o <<<<"length", length>>>>
              \o By("tool", Crlf \o Original \o From(text, at + 1))
    BY <2>1, Zenon DEF Marked
  <2> QED
    BY <2>1, <2>2, <2>3, Zenon DEF Before, Behind
<1> QED
  BY <1>2, <1>3

LEMMA MarkedParts ==
  ASSUME NEW text \in Text, NEW at \in 0 .. Len(text)
  PROVE  Before(text, at) \in W /\ Behind(text, at) \in W
<1>1. SubSeq(text, 1, at) \in Text /\ From(text, at + 1) \in Text
  BY TextParts DEF Text
<1>2. SubSeq(text, 1, at) \o ContentLength \o Colon \in Text
      /\ Crlf \o Original \o From(text, at + 1) \in Text
  BY <1>1, TextConcat, ConstantTexts
<1>3. ByLaws(W) /\ "tool" \in Sources
  BY WrittenLaws DEF Sources
<1> QED
  BY <1>2, <1>3 DEF Before, Behind, ByLaws

\* A marked head is written, whatever the length.
LEMMA MarkedType ==
  ASSUME NEW text \in Text, NEW position \in 0 .. Len(text) \union {-1},
         NEW length \in Lengths
  PROVE  Marked(text, position, length) \in W
<1>1. position \in Int
  OBVIOUS
<1>2. CASE position = -1 \/ length = -1
  <2>1. By("tool", text) \in W
    BY ByType, WrittenAtoms DEF W, Sources
  <2> QED
    BY <1>1, <1>2, <2>1, MarkedIs
<1>3. CASE ~(position = -1 \/ length = -1)
  <2> DEFINE x == Before(text, position)
             y == <<<<"length", length>>>>
             z == Behind(text, position)
  <2>1. position \in 0 .. Len(text)
    BY <1>3
  <2>2. length \in Nat /\ Marked(text, position, length) = x \o y \o z
    BY <1>1, <1>3, <2>1, MarkedIs
  <2>3. x \in W /\ z \in W /\ y \in W
    BY <2>1, <2>2, MarkedParts, LengthAtom
  <2> HIDE DEF x, y, z
  <2>4. x \o y \in W
    BY <2>3, Joined
  <2>5. x \o y \o z \in W
    BY <2>3, <2>4, Joined
  <2> QED
    BY <2>2, <2>5
<1> QED
  BY <1>2, <1>3

\* What is appended behind the position is printed behind the rest.
LEMMA MarkedGrows ==
  ASSUME NEW text \in Text, NEW more \in Text,
         NEW position \in 0 .. Len(text) \union {-1}, NEW length \in Lengths
  PROVE  Marked(text \o more, position, length) =
           Marked(text, position, length) \o By("tool", more)
<1>1. position \in Int /\ text \o more \in Text
  BY TextConcat
<1>2. Laws(W) /\ Laws(Text) /\ ByLaws(W) /\ "tool" \in Sources
  BY WrittenLaws DEF Sources
<1>3. CASE position = -1 \/ length = -1
  <2>1. /\ Marked(text \o more, position, length) = By("tool", text \o more)
        /\ Marked(text, position, length) = By("tool", text)
    BY <1>1, <1>3, MarkedIs
  <2> QED
    BY <1>2, <2>1, Zenon DEF ByLaws
<1>4. CASE ~(position = -1 \/ length = -1)
  <2> DEFINE x == Before(text, position)
             y == <<<<"length", length>>>>
             z == Behind(text, position)
             b == By("tool", more)
             f == From(text, position + 1)
             c == Crlf \o Original
  <2>1. position \in 0 .. Len(text)
    BY <1>4
  <2>2. /\ SubSeq(text \o more, 1, position) = SubSeq(text, 1, position)
        /\ From(text \o more, position + 1) = f \o more
        /\ f \in Text
        /\ position \in 0 .. Len(text \o more)
    <3> DEFINE k == position
    <3>1. k \in 0 .. Len(text)
      BY <2>1
    <3> HIDE DEF k, f
    <3>2. /\ SubSeq(text \o more, 1, k) = SubSeq(text, 1, k)
          /\ From(text \o more, k + 1) = From(text, k + 1) \o more
          /\ From(text, k + 1) \in Text
          /\ k \in 0 .. Len(text \o more)
      <4>1. /\ SubSeq(text \o more, 1, k) = SubSeq(text, 1, k)
            /\ From(text \o more, k + 1) = From(text, k + 1) \o more
            /\ From(text, k + 1) \in Text
            /\ k <= Len(text \o more) /\ k \in Nat /\ Len(text \o more) \in Nat
        BY <3>1, PartsOfConcat, Zenon
      <4>2. k \in 0 .. Len(text \o more)
        BY <4>1
      <4> QED
        BY <4>1, <4>2
    <3> QED
      BY <3>2 DEF k, f
  <2>3. /\ length \in Nat
        /\ Marked(text, position, length) = x \o y \o z
    BY <1>1, <1>4, <2>1, MarkedIs
  <2>4. Marked(text \o more, position, length) =
          Before(text \o more, position) \o y \o Behind(text \o more, position)
    BY <1>1, <1>4, <2>2, MarkedIs
  <2>5. Before(text \o more, position) = x
    BY <2>2 DEF Before
  <2>6. Behind(text \o more, position) = z \o b
    <3>1. c \in Text
      BY TextConcat, ConstantTexts
    <3>2. c \o f \in Text
      BY <2>2, <3>1, TextConcat
    <3>3. c \o (f \o more) = (c \o f) \o more
      <4>1. f \in Text /\ more \in Text
        BY <2>2
      <4> HIDE DEF c, f
      <4> QED
        BY <3>1, <4>1, WordsRegrouped
    <3>4. By("tool", (c \o f) \o more) = By("tool", c \o f) \o b
      BY <1>2, <3>2, Zenon DEF ByLaws
    <3> QED
      BY <2>2, <3>3, <3>4 DEF Behind
  <2>7. x \in W /\ y \in W /\ z \in W /\ b \in W
    <3>1. x \in W /\ z \in W /\ y \in W
      BY <2>1, <2>3, MarkedParts, LengthAtom
    <3> QED
      BY <1>2, <3>1, Zenon DEF ByLaws
  <2> HIDE DEF x, y, z, b
  <2>8. x \o y \o (z \o b) = (x \o y \o z) \o b
    <3>1. Laws(W)
      BY <1>2
    <3> DEFINE xy == x \o y
    <3>2. xy \in W
      BY <2>7, <3>1, Zenon DEF Laws
    <3> HIDE DEF xy
    <3>3. z \in W /\ b \in W
      BY <2>7
    <3>4. (xy \o z) \o b = xy \o (z \o b)
      BY <3>2, <3>3, Regrouped
    <3> QED
      BY <3>4 DEF xy
  <2> QED
    BY <2>3, <2>4, <2>5, <2>6, <2>8 DEF b
<1> QED
  BY <1>3, <1>4

\* What is appended at the position.
LEMMA MarkedFirst ==
  ASSUME NEW text \in Text, NEW more \in Text, NEW length \in Nat
  PROVE  Marked(text \o more, Len(text), length) =
           By("tool", text) \o (By("tool", ContentLength \o Colon)
             \o <<<<"length", length>>>> \o By("tool", Crlf \o Original \o more))
<1> DEFINE k == Len(text)
           c == ContentLength \o Colon
           t == By("tool", text)
           x == By("tool", c)
           y == <<<<"length", length>>>>
           z == By("tool", Crlf \o Original \o more)
<1>1. k \in 0 .. Len(text) /\ k \in Int
  BY DEF Text
<1>2. Laws(W) /\ Laws(Text) /\ ByLaws(W) /\ "tool" \in Sources
  BY WrittenLaws DEF Sources
<1>3. text \o more \in Text /\ c \in Text /\ Crlf \o Original \o more \in Text
  BY TextConcat, ConstantTexts
<1>4. SubSeq(text, 1, k) = text /\ From(text, k + 1) = <<>>
  BY <1>1, NothingAdded, TextParts DEF Text
<1> HIDE DEF k
<1>5. /\ SubSeq(text \o more, 1, k) = text
      /\ From(text \o more, k + 1) = more
      /\ k \in 0 .. Len(text \o more)
  <2>1. /\ SubSeq(text \o more, 1, k) = SubSeq(text, 1, k)
        /\ From(text \o more, k + 1) = From(text, k + 1) \o more
        /\ k <= Len(text \o more) /\ k \in Nat /\ Len(text \o more) \in Nat
    BY <1>1, PartsOfConcat DEF Text
  <2>2. <<>> \o more = more
    BY <1>2, Zenon DEF Laws
  <2>3. k \in 0 .. Len(text \o more)
    BY <2>1
  <2> QED
    BY <1>4, <2>1, <2>2, <2>3
<1>6. Marked(text \o more, k, length) =
        Before(text \o more, k) \o y \o Behind(text \o more, k)
  <2>1. length \in Lengths /\ length # -1
    BY DEF Lengths
  <2> QED
    BY <1>1, <1>3, <1>5, <2>1, MarkedIs
<1>7. Before(text \o more, k) = t \o x /\ Behind(text \o more, k) = z
  <2>1. text \o ContentLength \o Colon = text \o c
    <3>1. ContentLength \in Text /\ Colon \in Text
      BY ConstantTexts
    <3>2. Laws(Text)
      BY <1>2
    <3> QED
      BY <3>1, <3>2, Zenon DEF Laws, c
  <2>2. By("tool", text \o c) = t \o x
    BY <1>2, <1>3, Zenon DEF ByLaws
  <2> QED
    BY <1>5, <2>1, <2>2 DEF Before, Behind
<1>8. t \in W /\ x \in W /\ y \in W /\ z \in W
  BY <1>2, <1>3, LengthAtom DEF ByLaws
<1> HIDE DEF t, x, y, z
<1>9. (t \o x \o y) \o z = t \o (x \o y \o z)
  <2> DEFINE xy == x \o y
  <2>0. Associative(W) /\ Laws(W)
    BY <1>2, ConcatIsAssociative, Zenon DEF W
  <2>1. xy \in W
    BY <1>8, <2>0, Zenon DEF Laws
  <2>2. (t \o x) \o y = t \o xy
    BY <1>8, <2>0, Zenon DEF Associative
  <2> HIDE DEF xy
  <2>3. t \in W /\ z \in W
    BY <1>8
  <2>4. (t \o xy) \o z = t \o (xy \o z)
    BY <2>0, <2>1, <2>3, Zenon DEF Associative
  <2> QED
    BY <2>2, <2>4 DEF xy
<1> QED
  BY <1>6, <1>7, <1>9 DEF k, t, x, y, z, c

\* What a name and then its value do to the head, marked or not, is what is
\* due of the field.
LEMMA FieldStep ==
  ASSUME NEW text \in Text, NEW field \in Line, NEW length \in Lengths,
         NEW at \in 0 .. Len(text) \union {-1}, NEW at2 \in Int,
         IF field.name = ContentLength THEN at = -1 /\ at2 = Len(text) ELSE at2 = at
  PROVE  Marked(text \o field.name \o Colon, at2, length)
             \o By("tool", field.value \o Crlf) =
           Marked(text, at, length) \o FieldOut(field, length)
<1> DEFINE n == field.name
           v == field.value
           nc == n \o Colon
           ve == v \o Crlf
           b == By("tool", nc)
           e == By("tool", ve)
           marked == Marked(text, at, length)
           grown == Marked(text \o nc, at2, length)
<1>1. n \in Text /\ v \in Text /\ Colon \in Text /\ Crlf \in Text /\ Original \in Text
  BY ConstantTexts DEF Line
<1> HIDE DEF n, v
<1>2. /\ Laws(W) /\ ByLaws(W) /\ "tool" \in Sources /\ Associative(W)
  BY WrittenLaws, ConcatIsAssociative, Zenon DEF Sources, W
<1>3. nc \in Text /\ ve \in Text /\ n \o Colon \o v \o Crlf = nc \o ve
  <2>1. nc \in Text /\ ve \in Text
    BY <1>1, TextConcat
  <2> HIDE DEF nc
  <2>2. (nc \o v) \o Crlf = nc \o (v \o Crlf)
    <3>1. nc \in Text /\ v \in Text /\ Crlf \in Text
      BY <1>1, <2>1
    <3> QED
      BY <3>1, WordsRegrouped, Zenon
  <2> QED
    BY <2>1, <2>2 DEF nc
<1>4. text \o n \o Colon = text \o nc
  BY <1>1, WordsRegrouped
<1> HIDE DEF nc, ve
<1>5. b \in W /\ e \in W /\ By("tool", nc \o ve) = b \o e
  <2>1. nc \in Text /\ ve \in Text
    BY <1>3
  <2> QED
    BY <1>2, <2>1 DEF ByLaws
<1>6. marked \in W
  BY MarkedType, Zenon
<1>7. CASE ~(n = ContentLength /\ length >= 0)
  <2>1. FieldOut(field, length) = b \o e
    BY <1>3, <1>5, <1>7 DEF FieldOut, n, v
  <2>2. grown = marked \o b
    <3>1. CASE n = ContentLength
      <4>1. length = -1 /\ at \in Int
        BY <1>7, <3>1 DEF Lengths
      <4>2. text \o nc \in Text
        BY <1>3, TextConcat
      <4>3. grown = By("tool", text \o nc) /\ marked = By("tool", text)
        BY <4>1, <4>2, MarkedIs
      <4> QED
        BY <1>2, <1>3, <4>3, Zenon DEF ByLaws
    <3>2. CASE n # ContentLength
      <4>1. at2 = at
        BY <3>2 DEF n
      <4> QED
        BY <1>3, <4>1, MarkedGrows
    <3> QED
      BY <3>1, <3>2
  <2> HIDE DEF b, e, marked
  <2>3. (marked \o b) \o e = marked \o (b \o e)
    BY <1>2, <1>5, <1>6, Zenon DEF Associative
  <2> QED
    BY <1>4, <2>1, <2>2, <2>3 DEF e, ve, n, v, marked
<1>8. CASE n = ContentLength /\ length >= 0
  <2> DEFINE y == <<<<"length", length>>>>
             h == Crlf \o Original
             z == By("tool", h \o nc)
             z2 == By("tool", h \o n \o Colon \o v \o Crlf)
             t == By("tool", text)
             m == b \o y
  <2>1. length \in Nat /\ at = -1 /\ at \in Int /\ at2 = Len(text)
    BY <1>8 DEF Lengths, n
  <2>2. FieldOut(field, length) = b \o y \o z2
    BY <1>8 DEF FieldOut, n, v, nc
  <2>3. grown = t \o (b \o y \o z)
    <3>1. Marked(text \o nc, Len(text), length) =
            t \o (By("tool", ContentLength \o Colon) \o y \o z)
      BY <1>3, <2>1, MarkedFirst
    <3> QED
      BY <1>8, <2>1, <3>1 DEF nc
  <2>4. marked = t
    BY <2>1, MarkedIs
  <2>5. h \in Text /\ y \in W
    BY <1>1, <2>1, TextConcat, LengthAtom
  <2> HIDE DEF h, y
  <2>6. h \o nc \in Text /\ h \o n \o Colon \o v \o Crlf = (h \o nc) \o ve
    <3>1. h \o nc \in Text
      BY <1>3, <2>5, TextConcat
    <3>2. h \o n \o Colon = h \o (n \o Colon)
      <4>1. h \in Text /\ n \in Text /\ Colon \in Text
        BY <1>1, <2>5
      <4> QED
        BY <4>1, WordsRegrouped, Zenon
    <3> DEFINE hnc == h \o nc
    <3> HIDE DEF hnc
    <3>3. (hnc \o v) \o Crlf = hnc \o (v \o Crlf)
      <4>1. hnc \in Text /\ v \in Text /\ Crlf \in Text
        BY <1>1, <3>1 DEF hnc
      <4> QED
        BY <4>1, WordsRegrouped, Zenon
    <3> QED
      BY <3>1, <3>2, <3>3 DEF nc, ve, hnc
  <2>7. z \in W /\ t \in W /\ z2 = z \o e
    <3> DEFINE hnc == h \o nc
    <3>1. hnc \in Text /\ ve \in Text
      BY <1>3, <2>6
    <3>2. h \o n \o Colon \o v \o Crlf = hnc \o ve
      BY <2>6
    <3> HIDE DEF hnc
    <3>3. By("tool", hnc \o ve) = By("tool", hnc) \o e
      BY <1>2, <3>1 DEF ByLaws
    <3>4. By("tool", hnc) \in W /\ t \in W
      BY <1>2, <3>1 DEF ByLaws
    <3> QED
      BY <3>2, <3>3, <3>4 DEF hnc
  <2>8. m \in W
    BY <1>2, <1>5, <2>5, Zenon DEF Laws
  <2> HIDE DEF z, z2, t, m, b, e
  <2>9. (m \o z) \o e = m \o (z \o e)
    <3>1. z \in W /\ e \in W
      BY <1>5, <2>7
    <3> QED
      BY <1>2, <2>8, <3>1, Zenon DEF Associative
  <2>10. m \o z \in W
    BY <1>2, <2>7, <2>8, Zenon DEF Laws
  <2> DEFINE mz == m \o z
  <2> HIDE DEF mz
  <2>11. (t \o mz) \o e = t \o (mz \o e)
    <3>1. mz \in W /\ t \in W /\ e \in W
      BY <1>5, <2>7, <2>10 DEF mz
    <3> QED
      BY <1>2, <3>1, Zenon DEF Associative
  <2>12. grown \o e = t \o (m \o z2)
    BY <2>3, <2>7, <2>9, <2>11 DEF mz, m
  <2> HIDE DEF grown, marked
  <2>13. grown \o e = marked \o FieldOut(field, length)
    BY <2>2, <2>4, <2>12 DEF m
  <2> QED
    BY <1>4, <2>13 DEF grown, e, ve, n, v, marked
<1> QED
  BY <1>7, <1>8

-----------------------------------------------------------------------------
\* What depends on the input alone.
LEMMA SameInput ==
  ASSUME UNCHANGED input
  PROVE  /\ \A m : MessageCalls(input.messages, m)' = MessageCalls(input.messages, m)
         /\ \A m, j : /\ BodyCalls(input.messages, m, j)' = BodyCalls(input.messages, m, j)
                      /\ HeadCalls(input.messages, m, j)' = HeadCalls(input.messages, m, j)
                      /\ ValueCalls(input.messages, m, j)' = ValueCalls(input.messages, m, j)
         /\ \A m : Current(m)' = Current(m) /\ Fields(m)' = Fields(m)
         /\ \A m : Piped(Current(m))' = Piped(Current(m))
         /\ HasPattern' = HasPattern
         /\ AllRegular' = AllRegular
<1>1. HasPattern' = HasPattern
  BY DEF HasPattern
<1>2. \A m : Current(m)' = Current(m) /\ Fields(m)' = Fields(m)
  BY DEF Current, Fields
<1>3. \A m : Piped(Current(m))' = Piped(Current(m))
  BY <1>1, <1>2 DEF Piped
<1>4. AllRegular' = AllRegular
  BY <1>1 DEF AllRegular, Regular, Piped, PlainMessages
<1>5. \A m : MessageCalls(input.messages, m)' = MessageCalls(input.messages, m)
  BY DEF MessageCalls
<1>6. \A m, j : /\ BodyCalls(input.messages, m, j)' = BodyCalls(input.messages, m, j)
                /\ HeadCalls(input.messages, m, j)' = HeadCalls(input.messages, m, j)
                /\ ValueCalls(input.messages, m, j)' = ValueCalls(input.messages, m, j)
  BY DEF MessageCalls, BodyCalls, HeadCalls, ValueCalls
<1> QED
  BY <1>1, <1>2, <1>3, <1>4, <1>5, <1>6

LEMMA SameDue ==
  ASSUME UNCHANGED input
  PROVE  /\ \A m : Outs(Rest(input.messages, m))' = Outs(Rest(input.messages, m))
         /\ Expected' = Expected
<1>1. \A message : Piped(message)' = Piped(message)
  BY DEF Piped, HasPattern
<1>2. \A message : Out(message)' = Out(message)
  BY <1>1 DEF Out
<1>3. \A messages : Outs(messages)' = Outs(messages)
  BY <1>2 DEF Outs
<1> QED
  BY <1>3 DEF Expected
-----------------------------------------------------------------------------
\* A command that runs has the end of the pipe back for its output.
OutputHeld ==
  proc_state \in {"running", "blocked"} => cfds[1] = Ph!End("out", proc, "w")
NothingLeft == proc_state \in {"none", "zombie"} => in_pipe = <<>> /\ taken = <<>>
AllWritten == pc \notin {"write", "killed"} => unwritten = <<>>

LEMMA SetUpHoldsOutput ==
  ASSUME Ph!IInv, state \notin {"PIPES_OPEN_UNI"}, Ph!ChildSetUp
  PROVE  cfds'[1] = Ph!End("out", proc', "w") /\ proc_state = "in_open2"
<1>1. /\ proc_state = "in_open2" /\ UNCHANGED proc
      /\ cfds' = Ph!Exec(Ph!ChildDups2(Ph!ChildCloses2(cfds)))
  BY DEF Ph!ChildSetUp, Ph!IInv, Ph!ChildOK
<1>2. /\ cfds \in [Ph!Fd -> Ph!Entries] /\ 1 \in Ph!Fd
      /\ pipe_fds[1] \in Ph!Fd /\ bipipe_fds[0] \in Ph!Fd /\ bipipe_fds[1] \in Ph!Fd
      /\ pipe_fds[1] \in Int /\ bipipe_fds[0] \in Int /\ bipipe_fds[1] \in Int
  BY FdAssumption DEF Ph!IInv, Ph!TypeOK, Ph!Fd
<1>3. /\ cfds[bipipe_fds[1]] = Ph!End("out", proc, "w")
      /\ pipe_fds[1] < bipipe_fds[0] /\ bipipe_fds[0] < bipipe_fds[1]
  BY <1>1 DEF Ph!IInv, Ph!ChildOK, Ph!NumbersOK
<1> DEFINE closed == Ph!ChildCloses2(cfds)
           dupped == Ph!ChildDups2(closed)
<1>4. closed \in [Ph!Fd -> Ph!Entries \union {Ph!Free}] /\ closed[bipipe_fds[1]] = Ph!End("out", proc, "w")
  BY <1>2, <1>3 DEF Ph!ChildCloses2
<1> HIDE DEF closed
<1>5. 1 \in DOMAIN dupped /\ dupped[1] = Ph!End("out", proc, "w")
  BY <1>2, <1>4 DEF Ph!ChildDups2
<1> HIDE DEF dupped
<1>6. Ph!End("out", proc, "w") # Ph!Log
  BY DEF Ph!End, Ph!Log, Ph!Entry
<1>7. cfds'[1] = Ph!End("out", proc, "w")
  BY <1>1, <1>2, <1>5, <1>6 DEF Ph!Exec, dupped, closed
<1> QED
  BY <1>1, <1>7

\* What the handle's steps do to the command.
LEMMA ProcessFacts ==
  /\ Ph!PipeOpen2 => UNCHANGED <<proc, proc_state, cfds>> \/ proc_state' = "in_open2"
  /\ Ph!Waitpid => proc_state' = "none" \/ UNCHANGED <<proc, proc_state, cfds>>
  /\ Ph!Waitpid => UNCHANGED cfds /\ proc_state' \in {"none", proc_state}
                     /\ (proc_state' # proc_state => proc_state = "zombie")
  /\ \/ Ph!PipeSendEof \/ Ph!ReadEof \/ Ph!PipeReset \/ Ph!PipeHandleDelete
     \/ Ph!LogConnect \/ Logs
     => UNCHANGED <<proc, proc_state, cfds>>
  /\ Ph!ReadData \/ Ph!ChildBlocks =>
       /\ UNCHANGED <<proc, cfds>>
       /\ proc_state \in {"running", "blocked"} /\ proc_state' \in {"running", "blocked"}
  /\ \/ Ph!ChildAborts \/ Ph!ChildExitsOnEof \/ Ph!ChildExitsEarly \/ Ph!ChildKilled
     => proc_state' = "zombie"
BY DEF Ph!PipeOpen2, Ph!OpenFails, Ph!ForkFails, Ph!Forks, Ph!Waitpid,
   Ph!PipeSendEof, Ph!ReadEof, Ph!ReadData, Ph!PipeReset, Ph!BeginClose,
   Ph!PipeHandleDelete, Ph!LogConnect, Logs, pipes, Ph!ChildBlocks, Ph!ChildAborts,
   Ph!ChildExitsOnEof, Ph!ChildExitsEarly, Ph!ChildKilled, Ph!Exits, Ph!process

\* A command that can read what the tool writes is not reaped before it has
\* read it.
LEMMA ReaderLives ==
  ASSUME Ph!IInv, state = "PIPES_OPEN_BI", CommandReads
  PROVE  proc_state \notin {"none", "zombie"}
<1>1. proc = opens /\ opens \in 0 .. MaxOpens /\ proc # 0
      /\ fds \in [Ph!Fd -> Ph!Entries]
      /\ proc_state # "none"
  BY DEF Ph!IInv, Ph!TypeOK, Ph!ProcOK, Ph!Opened, Ph!CallOK
<1>2. \A d \in Ph!Fd : fds[d] # Ph!End("in", proc, "r")
  <2> SUFFICES ASSUME NEW d \in Ph!Fd, fds[d] = Ph!End("in", proc, "r")
               PROVE  FALSE
    OBVIOUS
  <2>1. Ph!IsEnd(fds[d]) /\ fds[d].open = opens
    BY <1>1 DEF Ph!IsEnd, Ph!End, Ph!Entry
  <2>2. fds[d] = Ph!End("in", opens, "w") \/ fds[d] = Ph!End("out", opens, "r")
    BY <2>1 DEF Ph!IInv, Ph!EndsOK, Ph!Opened
  <2> QED
    BY <2>2, <1>1 DEF Ph!End, Ph!Entry
<1>3. PICK d \in Ph!Fd : cfds[d] = Ph!End("in", proc, "r")
  BY <1>2 DEF CommandReads, Ph!Held, Ph!Holds
<1>4. cfds # Ph!NoFds
  BY <1>3 DEF Ph!NoFds, Ph!End, Ph!Entry, Ph!Free
<1> QED
  BY <1>1, <1>4 DEF Ph!IInv, Ph!ChildOK

LEMMA QuietProcess ==
  ASSUME Logs \/ UNCHANGED pipes
  PROVE  UNCHANGED <<proc, proc_state, cfds>>
BY ProcessFacts DEF pipes

\* A command that runs keeps the write end of its output.
LEMMA OutputHeldKept ==
  ASSUME Ph!IInv, Control, OutputHeld, [Next]_vars
  PROVE  OutputHeld'
<1> USE DEF OutputHeld
<1>1. ASSUME UNCHANGED <<proc, proc_state, cfds>> PROVE OutputHeld'
  BY <1>1
<1>2. CASE \/ UlogInit \/ Open \/ CbHeadersComplete \/ WriteAll
           \/ CbMessageCompleteCopied \/ CbMessageCompletePiped
           \/ DrainRead \/ DrainEnd \/ DrainFails
  BY <1>2, ProcessFacts DEF UlogInit, Open, CbHeadersComplete, WriteAll,
     CbMessageCompleteCopied, CbMessageCompletePiped, DrainRead, DrainEnd, DrainFails,
     pipes
<1>3. ASSUME NEW at \in Texts,
             \/ CbUrl(at) \/ CbStatusComplete(at) \/ CbHeaderField(at)
             \/ CbHeaderValue(at) \/ CbBodyPiped(at) \/ CbBodyCopied(at)
      PROVE  OutputHeld'
  BY <1>1, <1>3, CallbackFacts, QuietProcess
<1>4. CASE Flush \/ ResetReturns \/ Eof \/ InputFails \/ Delete
  BY <1>4, ProcessFacts DEF Flush, ResetReturns, Eof, InputFails, Delete, pipes
<1>5. CASE WaitsOrReopens
  BY <1>5, ProcessFacts DEF WaitsOrReopens
<1>6. CASE CommandSetUp
  <2>1. state # "PIPES_OPEN_UNI" /\ Ph!ChildSetUp
    BY <1>6 DEF CommandSetUp, Control
  <2> QED
    BY <2>1, SetUpHoldsOutput
<1>7. CASE \/ CommandTakes \/ CommandPrints \/ CommandBlocks \/ CommandEnds
           \/ CommandKilled \/ CommandQuits
  BY <1>7, ProcessFacts DEF CommandTakes, CommandPrints, CommandBlocks, CommandEnds,
     CommandKilled, CommandQuits, pipes
<1>8. CASE Breaks \/ UNCHANGED vars
  BY <1>1, <1>8 DEF Breaks, vars, pipes
<1> QED
  BY <1>2, <1>3, <1>4, <1>5, <1>6, <1>7, <1>8 DEF Next, Tool, Command, Done

\* A command that is gone leaves nothing unread or unprinted.
LEMMA NothingLeftKept ==
  ASSUME Ph!IInv, Control, NothingLeft, [Next]_vars
  PROVE  NothingLeft'
<1> USE DEF NothingLeft
<1>1. ASSUME UNCHANGED <<proc_state, in_pipe, taken>> PROVE NothingLeft'
  BY <1>1
<1>2. CASE \/ UlogInit \/ Open \/ CbHeadersComplete
           \/ CbMessageCompleteCopied \/ CbMessageCompletePiped
           \/ DrainRead \/ DrainEnd \/ DrainFails
  BY <1>2, ProcessFacts DEF UlogInit, Open, CbHeadersComplete,
     CbMessageCompleteCopied, CbMessageCompletePiped, DrainRead, DrainEnd, DrainFails,
     pipes, bytes
<1>3. ASSUME NEW at \in Texts,
             \/ CbUrl(at) \/ CbStatusComplete(at) \/ CbHeaderField(at)
             \/ CbHeaderValue(at) \/ CbBodyPiped(at) \/ CbBodyCopied(at)
      PROVE  NothingLeft'
  <2>1. UNCHANGED bytes
    BY <1>3 DEF CbUrl, CbStatusComplete, CbHeaderField, CbHeaderValue,
       CbBodyPiped, CbBodyCopied
  <2> QED
    BY <1>1, <1>3, <2>1, CallbackFacts, QuietProcess DEF bytes
<1>4. CASE Flush \/ ResetReturns \/ Eof \/ InputFails \/ Delete
  BY <1>4, ProcessFacts DEF Flush, ResetReturns, Eof, InputFails, Delete, pipes, bytes
<1>5. CASE WaitsOrReopens
  BY <1>5, ProcessFacts DEF WaitsOrReopens
<1>6. CASE WriteAll
  <2>1. state = "PIPES_OPEN_BI" /\ UNCHANGED <<proc_state, taken>>
    BY <1>6 DEF WriteAll, Control, pipes
  <2>2. CASE CommandReads
    <3>1. proc_state \notin {"none", "zombie"}
      BY <2>1, <2>2, ReaderLives
    <3> QED
      BY <2>1, <3>1
  <2>3. CASE ~CommandReads
    BY <1>6, <2>1, <2>3 DEF WriteAll
  <2> QED
    BY <2>2, <2>3
<1>7. CASE CommandSetUp \/ CommandTakes \/ CommandPrints \/ CommandBlocks
  <2>1. Ph!ChildSetUp => proc_state' = "running"
    BY DEF Ph!ChildSetUp
  <2> QED
    BY <1>7, <2>1, ProcessFacts DEF CommandSetUp, CommandTakes, CommandPrints,
       CommandBlocks, pipes, bytes
<1>8. CASE CommandEnds \/ CommandKilled \/ CommandQuits
  BY <1>8 DEF CommandEnds, CommandKilled, CommandQuits, bytes
<1>9. CASE Breaks \/ UNCHANGED vars
  BY <1>1, <1>9 DEF Breaks, vars, pipes, bytes
<1> QED
  BY <1>2, <1>3, <1>4, <1>5, <1>6, <1>7, <1>8, <1>9 DEF Next, Tool, Command, Done

\* write_all returns when all is written.
LEMMA AllWrittenKept ==
  ASSUME AllWritten, [Next]_vars
  PROVE  AllWritten'
<1> USE DEF AllWritten
<1>1. CASE \/ UlogInit \/ Open \/ CbHeadersComplete
           \/ CbMessageCompleteCopied \/ CbMessageCompletePiped
           \/ DrainRead \/ DrainEnd \/ DrainFails
  BY <1>1 DEF UlogInit, Open, CbHeadersComplete, Calls,
     CbMessageCompleteCopied, CbMessageCompletePiped, DrainRead, DrainEnd, DrainFails
<1>2. ASSUME NEW at \in Texts,
             \/ CbUrl(at) \/ CbStatusComplete(at) \/ CbHeaderField(at)
             \/ CbHeaderValue(at) \/ CbBodyPiped(at) \/ CbBodyCopied(at)
      PROVE  AllWritten'
  BY <1>2 DEF CbUrl, CbStatusComplete, CbHeaderField, CbHeaderValue,
     CbBodyPiped, CbBodyCopied, Calls
<1>3. CASE Flush \/ ResetReturns \/ Eof \/ InputFails \/ Delete \/ WaitsOrReopens \/ WriteAll
  BY <1>3 DEF Flush, ResetReturns, Eof, InputFails, Delete, WaitsOrReopens, WriteAll
<1>4. CASE Command \/ CommandQuits
  BY <1>4 DEF Command, CommandSetUp, CommandTakes, CommandPrints, CommandBlocks,
     CommandEnds, CommandKilled, CommandQuits, rest
<1>5. CASE Breaks \/ UNCHANGED vars
  BY <1>5 DEF Breaks, vars
<1> QED
  BY <1>1, <1>2, <1>3, <1>4, <1>5 DEF Next, Tool, Done

\* So every step keeps the invariant of the command.
LEMMA CommandInvKept ==
  ASSUME Ph!IInv, Control, CommandInv, [Next]_vars
  PROVE  CommandInv'
<1>1. OutputHeld /\ NothingLeft /\ AllWritten
  BY DEF CommandInv, OutputHeld, NothingLeft, AllWritten
<1>2. OutputHeld' /\ NothingLeft' /\ AllWritten'
  BY <1>1, OutputHeldKept, NothingLeftKept, AllWrittenKept
<1> QED
  BY <1>2 DEF CommandInv, OutputHeld, NothingLeft, AllWritten

-----------------------------------------------------------------------------
\* A message of the input and its parts.
LEMMA MessageAt ==
  ASSUME TypeOK, NEW m \in 0 .. Len(input.messages) - 1
  PROVE  /\ input.messages \in Seq(Messages)
         /\ Current(m) \in Messages /\ Current(m).url \in Text
         /\ Fields(m) \in Seq(Line) /\ Len(Fields(m)) \in Nat
         /\ Current(m).body \in Seq(Text) /\ Len(Current(m).body) \in Nat
         /\ m \in Nat /\ m \in 0 .. Len(input.messages) /\ m + 1 \in 0 .. Len(input.messages)
         /\ AllRegular => Regular(Current(m)) /\ PlainMessages(input.messages)
<1>1. input.messages \in Seq(Messages)
  BY InputAssumption DEF TypeOK
<1>2. IsMessage(Current(m)) /\ m + 1 \in 0 .. Len(input.messages)
      /\ m \in 0 .. Len(input.messages) /\ m \in Nat
  BY <1>1, MessageParts DEF Current
<1>3. Current(m) \in Messages /\ m + 1 \in DOMAIN input.messages
  BY <1>1 DEF Current
<1> QED
  BY <1>1, <1>2, <1>3 DEF IsMessage, AllRegular, Current, Fields, FieldLines, Line

LEMMA FieldAt ==
  ASSUME TypeOK, NEW m \in 0 .. Len(input.messages) - 1, NEW j \in 0 .. Len(Fields(m)) - 1
  PROVE  /\ Fields(m)[j + 1] \in Line
         /\ Fields(m)[j + 1].name \in Text /\ Fields(m)[j + 1].value \in Text
         /\ j \in 0 .. Len(Fields(m)) /\ j + 1 \in 0 .. Len(Fields(m))
         /\ j \in Nat /\ j + 1 \in 1 .. Len(Fields(m))
         /\ \A i \in 1 .. j : i \in 1 .. Len(Fields(m)) /\ i # j + 1
         /\ \A i \in 1 .. j + 1 : i \in 1 .. j \/ i = j + 1
<1>1. Fields(m) \in Seq(Line) /\ Len(Fields(m)) \in Nat
  BY MessageAt
<1>2. Fields(m)[j + 1] \in Line
  BY <1>1
<1>3. /\ j \in 0 .. Len(Fields(m)) /\ j + 1 \in 0 .. Len(Fields(m))
      /\ j \in Nat /\ j + 1 \in 1 .. Len(Fields(m))
      /\ \A i \in 1 .. j : i \in 1 .. Len(Fields(m)) /\ i # j + 1
      /\ \A i \in 1 .. j + 1 : i \in 1 .. j \/ i = j + 1
  BY <1>1
<1> QED
  BY <1>2, <1>3 DEF Line

\* What regular names are for the callbacks, which compare only their
\* beginnings.
LEMMA RegularNames ==
  ASSUME NEW message \in Messages, Regular(message), NEW i \in 1 .. Len(message.fields),
         NEW known \in {ContentLength, ContentType}
  PROVE  /\ Resembles(known, message.fields[i].name) <=> message.fields[i].name = known
         /\ message.fields[i].name = known =>
              \A k \in 1 .. Len(message.fields) : message.fields[k].name = known => k = i
<1>1. message.fields \in Seq([name : Text, value : Text])
  BY DEF Messages, FieldLines
<1>2. DOMAIN message.fields = 1 .. Len(message.fields)
  BY <1>1
<1>3. /\ Resembles(known, message.fields[i].name) => message.fields[i].name = known
      /\ message.fields[i].name = known =>
           \A k \in 1 .. Len(message.fields) : message.fields[k].name = known => k = i
  BY <1>2 DEF Regular
<1>4. Resembles(known, known)
  <2>1. known \in Seq(STRING)
    BY ConstantTexts DEF Text
  <2> QED
    BY <2>1 DEF Resembles, IsPrefix
<1> QED
  BY <1>3, <1>4

LEMMA FieldsOutNext ==
  ASSUME NEW fields \in Seq(Line), NEW j \in 0 .. Len(fields) - 1, NEW length \in Lengths
  PROVE  FieldsOut(Upto(fields, j + 1), length) =
           FieldsOut(Upto(fields, j), length) \o FieldOut(fields[j + 1], length)
<1>1. HasUptos(Line, Seq(Line))
  BY Uptos, Zenon
<1>2. fields[j + 1] \in Line /\ Upto(fields, j + 1) = Append(Upto(fields, j), fields[j + 1])
  BY <1>1, Zenon DEF HasUptos
<1>3. j \in 0 .. Len(fields)
  OBVIOUS
<1>4. Upto(fields, j) \in Seq(Line)
  BY <1>1, <1>3, Zenon DEF HasUptos
<1> QED
  BY <1>2, <1>4, FieldsOutMore

\* The position is one in what is held.
LEMMA PositionIn ==
  ASSUME TypeOK, NEW m, NEW j, PositionHere(m, j)
  PROVE  content_length_at \in 0 .. Len(headers) \union {-1} /\ headers \in Text
         /\ content_length_at \in Int /\ Len(headers) \in Nat
<1>1. headers \in Text /\ content_length_at \in Nat \union {-1}
  BY DEF TypeOK
<1>2. content_length_at # -1 => content_length_at \in 0 .. Len(headers)
  BY DEF PositionHere
<1> QED
  BY <1>1, <1>2 DEF Text

-----------------------------------------------------------------------------
\* Where the tool is, by the callback that is due there.
AtStart(m) ==
  /\ AtMessage(m)
  /\ First(todo, IF Current(m).type = "request" THEN "url" ELSE "status",
           Current(m).url, HeadCalls(input.messages, m, 0))
AtName(m, j) ==
  /\ InHead(m, j)
  /\ First(todo, "header_field", Fields(m)[j + 1].name, ValueCalls(input.messages, m, j))
AtItsValue(m, j) ==
  /\ AtValue(m, j)
  /\ First(todo, "header_value", Fields(m)[j + 1].value, HeadCalls(input.messages, m, j + 1))
AtEndOfHead(m) ==
  /\ InHead(m, Len(Fields(m)))
  /\ First(todo, "headers_complete", <<>>, BodyCalls(input.messages, m, 0))
AtPiece(m, j) ==
  /\ InPipedBody(m, j) \/ InCopiedBody(m, j)
  /\ First(todo, "body", Current(m).body[j + 1], BodyCalls(input.messages, m, j + 1))
AtEnd(m) ==
  /\ InPipedBody(m, Len(Current(m).body)) \/ InCopiedBody(m, Len(Current(m).body))
  /\ First(todo, "message_complete", <<>>, MessageCalls(input.messages, m + 1))

\* When a callback is due the tool is at the place in the input this callback
\* is for.
LEMMA WhereItIs ==
  ASSUME TypeOK, PlainMessages(input.messages), Between \/ Copying \/ Piping
  PROVE  \/ todo = <<>> /\ AtMessage(Len(input.messages))
         \/ \E m \in 0 .. Len(input.messages) - 1 :
              \/ AtStart(m) \/ AtEndOfHead(m) \/ AtEnd(m)
              \/ \E j \in 0 .. Len(Fields(m)) - 1 : AtName(m, j) \/ AtItsValue(m, j)
              \/ \E j \in 0 .. Len(Current(m).body) - 1 : AtPiece(m, j)
<1> DEFINE messages == input.messages
<1>1. messages \in Seq(Messages) /\ Len(messages) \in Nat
  <2>1. messages \in Seq(Messages)
    BY InputAssumption DEF TypeOK
  <2> QED
    BY <2>1
<1>2. HasRests(Messages, Seq(Messages))
  BY Rests, Zenon
<1>3. CASE Between
  <2>1. PICK m \in 0 .. Len(messages) : AtMessage(m)
    BY <1>3 DEF Between
  <2>2. CASE m = Len(messages)
    <3>1. Rest(messages, Len(messages)) = <<>>
      BY <1>1, <1>2, Zenon DEF HasRests
    <3>2. MessageCalls(messages, m) = <<>>
      BY <2>2, <3>1, NothingCalls DEF MessageCalls
    <3> QED
      BY <2>1, <2>2, <3>2 DEF AtMessage
  <2>3. CASE m # Len(messages)
    <3>1. m \in 0 .. Len(messages) - 1
      BY <1>1, <2>3
    <3>2. AtStart(m)
      BY <1>1, <2>1, <3>1, MessageFirst DEF AtMessage, AtStart, Current
    <3> QED
      BY <3>1, <3>2
  <2> QED
    BY <2>2, <2>3
<1>4. ASSUME NEW m \in 0 .. Len(messages) - 1, NEW j \in 0 .. Len(Fields(m)), InHead(m, j)
      PROVE  IF j < Len(Fields(m)) THEN j \in 0 .. Len(Fields(m)) - 1 /\ AtName(m, j)
                                   ELSE AtEndOfHead(m)
  <2>1. Len(Fields(m)) \in Nat
    BY MessageAt
  <2>2. IF j < Len(Fields(m))
        THEN First(todo, "header_field", Fields(m)[j + 1].name, ValueCalls(messages, m, j))
        ELSE First(todo, "headers_complete", <<>>, BodyCalls(messages, m, 0))
    BY <1>1, <1>4, HeadFirst DEF InHead, Fields, Current
  <2>3. ~(j < Len(Fields(m))) => j = Len(Fields(m))
    BY <2>1
  <2>4. j < Len(Fields(m)) => j \in 0 .. Len(Fields(m)) - 1
    BY <2>1
  <2> QED
    BY <1>4, <2>2, <2>3, <2>4 DEF AtName, AtEndOfHead
<1>5. ASSUME NEW m \in 0 .. Len(messages) - 1, NEW j \in 0 .. Len(Fields(m)) - 1,
             AtValue(m, j)
      PROVE  AtItsValue(m, j)
  BY <1>1, <1>5, ValueFirst DEF AtValue, AtItsValue, Fields, Current
<1>6. ASSUME NEW m \in 0 .. Len(messages) - 1, NEW j \in 0 .. Len(Current(m).body),
             InPipedBody(m, j) \/ InCopiedBody(m, j)
      PROVE  IF j < Len(Current(m).body)
             THEN j \in 0 .. Len(Current(m).body) - 1 /\ AtPiece(m, j)
             ELSE AtEnd(m)
  <2>1. Len(Current(m).body) \in Nat
    BY MessageAt
  <2>2. todo = BodyCalls(messages, m, j)
    BY <1>6 DEF InPipedBody, InCopiedBody
  <2>3. IF j < Len(Current(m).body)
        THEN First(todo, "body", Current(m).body[j + 1], BodyCalls(messages, m, j + 1))
        ELSE First(todo, "message_complete", <<>>, MessageCalls(messages, m + 1))
    BY <1>1, <2>2, BodyFirst DEF Current
  <2>4. ~(j < Len(Current(m).body)) => j = Len(Current(m).body)
    BY <2>1
  <2>5. j < Len(Current(m).body) => j \in 0 .. Len(Current(m).body) - 1
    BY <2>1
  <2> QED
    BY <1>6, <2>3, <2>4, <2>5 DEF AtPiece, AtEnd
<1>7. CASE Copying
  <2>1. PICK m \in 0 .. Len(messages) - 1 :
             \/ \E j \in 0 .. Len(Fields(m)) : InHead(m, j)
             \/ \E j \in 0 .. Len(Fields(m)) - 1 : AtValue(m, j)
             \/ \E j \in 0 .. Len(Current(m).body) : InCopiedBody(m, j)
    BY <1>7 DEF Copying
  <2> QED
    BY <2>1, <1>4, <1>5, <1>6
<1>8. CASE Piping
  <2>1. PICK m \in 0 .. Len(messages) - 1 :
             \E j \in 0 .. Len(Current(m).body) : InPipedBody(m, j)
    BY <1>8 DEF Piping
  <2> QED
    BY <2>1, <1>6
<1> QED
  BY <1>3, <1>7, <1>8

\* With whole texts a callback takes the first one that is due.
LEMMA WholePiece ==
  ASSUME TypeOK, WholeTexts, NEW cb, NEW at, Calls(cb, at),
         NEW cb1, NEW at1, NEW calls, First(todo, cb1, at1, calls)
  PROVE  cb = cb1 /\ at = at1 /\ todo' = calls /\ pc = "parse" /\ UNCHANGED input
<1>1. /\ Head(todo).cb = cb /\ at \in Pieces(todo, TRUE)
      /\ todo' \in Remaining(todo, at, TRUE) /\ UNCHANGED input
      /\ pc = "parse" /\ todo \in Seq(CallbacksWithText)
  BY DEF Calls, TypeOK
<1> QED
  BY <1>1, WholeText

-----------------------------------------------------------------------------
\* The head of a message, callback by callback.
LEMMA StartKept ==
  ASSUME TypeOK, AllRegular, NEW m \in 0 .. Len(input.messages) - 1, AtStart(m),
         UNCHANGED <<input, stdout, body, unwritten, bytes, do_pipe_this_message>>,
         headers' = <<>>, content_length_at' = -1, url' = Current(m).url,
         todo' = HeadCalls(input.messages, m, 0)
  PROVE  InHead(m, 0)'
<1>1. PrintedTo(m) /\ NothingComes /\ (~HasPattern => do_pipe_this_message)
  BY DEF AtStart, AtMessage
<1>2. PrintedTo(m)' /\ NothingComes'
  BY <1>1, SameDue DEF PrintedTo, NothingComes, bytes
<1>3. Decided(m, 0)'
  BY <1>1, SameInput DEF Decided
<1>4. PositionHere(m, 0)'
  BY DEF PositionHere
<1>5. ASSUME NEW length \in Lengths
      PROVE  Marked(headers', content_length_at', length) = FieldsOut(Upto(Fields(m)', 0), length)
  <2> DEFINE nothing == <<>>
             none == -1
  <2>1. nothing \in Text /\ none \in Int /\ none = -1
    <3>1. nothing \in Text
      BY ConstantTexts, Zenon
    <3> QED
      BY <3>1
  <2> HIDE DEF nothing, none
  <2>2. Marked(nothing, none, length) = By("tool", nothing)
    BY <2>1, MarkedIs
  <2>3. Fields(m)' \in Seq(Line)
    BY MessageAt, SameInput
  <2>4. HasUptos(Line, Seq(Line))
    BY Uptos, Zenon
  <2>5. Upto(Fields(m)', 0) = <<>>
    BY <2>3, <2>4, Zenon DEF HasUptos
  <2> QED
    BY <2>2, <2>5, ByEmpty, NothingDue DEF nothing, none
<1>6. (todo = HeadCalls(input.messages, m, 0))' /\ (url = Current(m).url)'
  BY SameInput
<1> QED
  BY <1>2, <1>3, <1>4, <1>5, <1>6 DEF InHead

\* A name moves the tool from before a field to between its name and its
\* value.
LEMMA NameKept ==
  ASSUME TypeOK, AllRegular, NEW m \in 0 .. Len(input.messages) - 1,
         NEW j \in 0 .. Len(Fields(m)) - 1, AtName(m, j),
         UNCHANGED <<input, stdout, body, unwritten, bytes, do_pipe_this_message, url>>,
         NEW name, name = Fields(m)[j + 1].name,
         IF Resembles(ContentLength, name)
         THEN content_length_at' = Position(name) /\ last_field_was_content_type' = FALSE
         ELSE /\ last_field_was_content_type' = Resembles(ContentType, name)
              /\ UNCHANGED content_length_at,
         headers' = headers \o name \o Colon,
         todo' = ValueCalls(input.messages, m, j)
  PROVE  AtValue(m, j)'
<1> DEFINE field == Fields(m)[j + 1]
<1>1. /\ PrintedTo(m) /\ NothingComes /\ url = Current(m).url
      /\ PositionHere(m, j) /\ Decided(m, j)
      /\ \A length \in Lengths :
           Marked(headers, content_length_at, length) = FieldsOut(Upto(Fields(m), j), length)
  BY DEF AtName, InHead
<1>2. PrintedTo(m)' /\ NothingComes'
  BY <1>1, SameDue DEF PrintedTo, NothingComes, bytes
<1>3. Decided(m, j)'
  BY <1>1, SameInput DEF Decided
<1>4. /\ Current(m) \in Messages /\ Regular(Current(m)) /\ Fields(m) = Current(m).fields
      /\ Fields(m) \in Seq(Line)
  BY MessageAt DEF Fields
<1>5. /\ field \in Line /\ name \in Text /\ j + 1 \in 1 .. Len(Fields(m))
      /\ j \in Nat /\ j \in 0 .. Len(Fields(m))
      /\ \A i \in 1 .. j : i \in 1 .. Len(Fields(m)) /\ i # j + 1 /\ i \in 1 .. j + 1
      /\ j + 1 \in 1 .. j + 1
  BY FieldAt
<1>6. /\ Resembles(ContentLength, name) <=> name = ContentLength
      /\ Resembles(ContentType, name) <=> name = ContentType
      /\ name = ContentLength => \A k \in 1 .. j : Fields(m)[k].name # ContentLength
      /\ ContentLength # ContentType
  <2> DEFINE i == j + 1
             message == Current(m)
  <2>1. i \in 1 .. Len(message.fields) /\ message \in Messages /\ Regular(message)
        /\ message.fields[i].name = name
    BY <1>4, <1>5
  <2>2. ContentLength # ContentType
    BY DEF ContentLength, ContentType
  <2> HIDE DEF i, message
  <2>3. /\ Resembles(ContentLength, name) <=> name = ContentLength
        /\ name = ContentLength =>
             \A k \in 1 .. Len(message.fields) : message.fields[k].name = ContentLength => k = i
    BY <2>1, RegularNames
  <2>4. Resembles(ContentType, name) <=> name = ContentType
    BY <2>1, RegularNames
  <2>5. name = ContentLength => \A k \in 1 .. j : Fields(m)[k].name # ContentLength
    BY <1>4, <1>5, <2>3 DEF i, message
  <2> QED
    BY <2>2, <2>3, <2>4, <2>5
<1>7. /\ content_length_at \in 0 .. Len(headers) \union {-1} /\ headers \in Text
      /\ content_length_at \in Int /\ Len(headers) \in Nat
  BY <1>1, PositionIn
<1>8. name = ContentLength => content_length_at = -1 /\ content_length_at' = Len(headers)
  BY <1>1, <1>6 DEF PositionHere, Position
<1>9. name # ContentLength => content_length_at' = content_length_at
  BY <1>6
<1>10. last_field_was_content_type' = (name = ContentType)
  <2>1. (Resembles(ContentType, name) = TRUE) \/ (Resembles(ContentType, name) = FALSE)
    BY DEF Resembles
  <2>2. CASE name = ContentLength
    BY <1>6, <2>2
  <2>3. CASE name # ContentLength
    <3>1. last_field_was_content_type' = Resembles(ContentType, name)
      BY <1>6, <2>3
    <3>2. CASE name = ContentType
      BY <1>6, <2>1, <3>1, <3>2
    <3>3. CASE name # ContentType
      BY <1>6, <2>1, <3>1, <3>3
    <3> QED
      BY <3>2, <3>3
  <2> QED
    BY <2>2, <2>3
<1>11. headers' \in Text /\ Len(headers') \in Nat /\ Len(headers) <= Len(headers')
  <2> DEFINE a == headers \o name
  <2>1. a \in Text /\ Len(a) = Len(headers) + Len(name) /\ Len(name) \in Nat
    BY <1>5, <1>7 DEF Text
  <2>2. Colon \in Text
    BY ConstantTexts
  <2> HIDE DEF a
  <2>3. a \o Colon \in Text /\ Len(a \o Colon) = Len(a) + Len(Colon) /\ Len(Colon) \in Nat
    <3>1. LengthsAdd(Text)
      BY ConcatLengths, Zenon DEF Text
    <3>2. a \in Text /\ Colon \in Text
      BY <2>1, <2>2
    <3>3. Len(Colon) \in Nat
      BY <3>2, LengthIsNat, Zenon DEF Text
    <3> QED
      BY <3>1, <3>2, <3>3, Zenon DEF LengthsAdd
  <2>4. Len(headers) <= Len(a) + Len(Colon) /\ Len(a) + Len(Colon) \in Nat
    BY <1>7, <2>1, <2>3
  <2>5. headers' = a \o Colon
    BY DEF a
  <2> DEFINE all == a \o Colon
  <2>6. all \in Text /\ Len(all) \in Nat /\ Len(headers) <= Len(all)
    BY <2>3, <2>4
  <2> HIDE DEF all
  <2> QED
    BY <2>5, <2>6 DEF all
<1>12. PositionHere(m, j + 1)'
  <2>1. content_length_at' # -1 =>
          /\ content_length_at' \in 0 .. Len(headers')
          /\ \E i \in 1 .. j + 1 : Fields(m)[i].name = ContentLength
    <3>1. CASE name = ContentLength
      <4>1. content_length_at' \in 0 .. Len(headers')
        BY <1>7, <1>8, <1>11, <3>1
      <4>2. j + 1 \in 1 .. j + 1 /\ Fields(m)[j + 1].name = ContentLength
        BY <1>5, <3>1
      <4> QED
        BY <4>1, <4>2
    <3>2. CASE name # ContentLength
      BY SMTT(20), <1>1, <1>5, <1>7, <1>9, <1>11, <3>2 DEF PositionHere
    <3> QED
      BY <3>1, <3>2
  <2> QED
    BY <2>1, SameInput DEF PositionHere
<1>13. ASSUME NEW length \in Lengths
       PROVE  Marked(headers', content_length_at', length) \o By("tool", field.value \o Crlf) =
                FieldsOut(Upto(Fields(m), j + 1), length)
  <2>1. FieldsOut(Upto(Fields(m), j + 1), length) =
          FieldsOut(Upto(Fields(m), j), length) \o FieldOut(field, length)
    BY <1>4, FieldsOutNext
  <2>2. FieldsOut(Upto(Fields(m), j), length) = Marked(headers, content_length_at, length)
    BY <1>1
  <2>3. Marked(headers \o field.name \o Colon, content_length_at', length)
            \o By("tool", field.value \o Crlf) =
          Marked(headers, content_length_at, length) \o FieldOut(field, length)
    <3> DEFINE f == field
               at == content_length_at
               at2 == content_length_at'
    <3>1. /\ f \in Line /\ headers \in Text /\ at \in 0 .. Len(headers) \union {-1}
          /\ at2 \in Int
          /\ IF f.name = ContentLength THEN at = -1 /\ at2 = Len(headers) ELSE at2 = at
      BY <1>5, <1>7, <1>8, <1>9
    <3> HIDE DEF f, at, at2
    <3>2. Marked(headers \o f.name \o Colon, at2, length) \o By("tool", f.value \o Crlf) =
            Marked(headers, at, length) \o FieldOut(f, length)
      BY <3>1, FieldStep
    <3> QED
      BY <3>2 DEF f, at, at2
  <2> QED
    BY <2>1, <2>2, <2>3
<1>14. (todo = ValueCalls(input.messages, m, j))' /\ (url = Current(m).url)'
       /\ Fields(m)' = Fields(m)
  BY <1>1, SameInput
<1> QED
  BY <1>2, <1>3, <1>10, <1>12, <1>13, <1>14 DEF AtValue

\* A value moves it to before the next field, and decides when it is that of
\* the type.
LEMMA ValueKept ==
  ASSUME TypeOK, AllRegular, NEW m \in 0 .. Len(input.messages) - 1,
         NEW j \in 0 .. Len(Fields(m)) - 1, AtItsValue(m, j),
         UNCHANGED <<input, stdout, body, unwritten, bytes, content_length_at, url>>,
         NEW value, value = Fields(m)[j + 1].value,
         headers' = headers \o value \o Crlf,
         do_pipe_this_message' =
           IF last_field_was_content_type /\ HasPattern THEN value \in Matching
                                                        ELSE do_pipe_this_message,
         todo' = HeadCalls(input.messages, m, j + 1)
  PROVE  InHead(m, j + 1)'
<1> DEFINE field == Fields(m)[j + 1]
<1>1. /\ PrintedTo(m) /\ NothingComes /\ url = Current(m).url
      /\ PositionHere(m, j + 1) /\ Decided(m, j)
      /\ last_field_was_content_type = (field.name = ContentType)
      /\ \A length \in Lengths :
           Marked(headers, content_length_at, length) \o By("tool", field.value \o Crlf) =
             FieldsOut(Upto(Fields(m), j + 1), length)
  BY DEF AtItsValue, AtValue
<1>2. PrintedTo(m)' /\ NothingComes'
  BY <1>1, SameDue DEF PrintedTo, NothingComes, bytes
<1>3. /\ Current(m) \in Messages /\ Regular(Current(m)) /\ Fields(m) = Current(m).fields
      /\ Fields(m) \in Seq(Line)
  BY MessageAt DEF Fields
<1>4. /\ value \in Text /\ j + 1 \in 1 .. Len(Fields(m))
      /\ \A i \in 1 .. j + 1 : i \in 1 .. j \/ i = j + 1
  BY FieldAt
<1>5. content_length_at \in 0 .. Len(headers) \union {-1} /\ headers \in Text
      /\ content_length_at \in Int /\ Len(headers) \in Nat
  BY <1>1, PositionIn
<1>6. headers' = headers \o (value \o Crlf) /\ value \o Crlf \in Text
  <2>1. headers \in Text /\ value \in Text /\ Crlf \in Text
    BY <1>4, <1>5, ConstantTexts
  <2>2. value \o Crlf \in Text
    BY <2>1, TextConcat
  <2>3. (headers \o value) \o Crlf = headers \o (value \o Crlf)
    BY <2>1, WordsRegrouped
  <2> QED
    BY <2>2, <2>3
<1>7. field.name = ContentType => Piped(Current(m)) = (HasPattern => value \in Matching)
  <2> SUFFICES ASSUME field.name = ContentType
               PROVE  Piped(Current(m)) <=> (HasPattern => value \in Matching)
    BY DEF Piped
  <2> DEFINE i == j + 1
             message == Current(m)
  <2>1. i \in 1 .. Len(message.fields) /\ message \in Messages /\ Regular(message)
        /\ message.fields[i].name = ContentType /\ message.fields[i].value = value
        /\ DOMAIN message.fields = 1 .. Len(message.fields)
    BY <1>3, <1>4
  <2> HIDE DEF i, message
  <2>2. \A k \in 1 .. Len(message.fields) : message.fields[k].name = ContentType => k = i
    BY <2>1, RegularNames
  <2>3. Piped(message) <=> (HasPattern => value \in Matching)
    BY <2>1, <2>2 DEF Piped
  <2> QED
    BY <2>3 DEF message
<1>8. Decided(m, j + 1)'
  <2> SUFFICES IF HasPattern
               THEN (\E i \in 1 .. j + 1 : Fields(m)[i].name = ContentType) =>
                      do_pipe_this_message' = Piped(Current(m))
               ELSE do_pipe_this_message'
    BY SameInput DEF Decided
  <2>1. CASE ~HasPattern
    BY <1>1, <2>1 DEF Decided
  <2>2. CASE HasPattern /\ field.name = ContentType
    <3>1. last_field_was_content_type
      BY <1>1, <2>2
    <3>2. do_pipe_this_message' = (value \in Matching)
      BY <2>2, <3>1
    <3>3. (value \in Matching) = Piped(Current(m))
      BY <1>7, <2>2 DEF Piped
    <3> QED
      BY <2>2, <3>2, <3>3
  <2>3. CASE HasPattern /\ field.name # ContentType
    <3>1. ~last_field_was_content_type
      BY <1>1, <2>3
    <3>2. do_pipe_this_message' = do_pipe_this_message
      BY <3>1
    <3> QED
      BY <1>1, <1>4, <2>3, <3>2 DEF Decided
  <2> QED
    BY <2>1, <2>2, <2>3
<1>9. PositionHere(m, j + 1)'
  <2>1. Len(headers') \in Nat /\ Len(headers) <= Len(headers')
    <3> DEFINE more == value \o Crlf
    <3>1. headers \in Text /\ more \in Text
      BY <1>5, <1>6
    <3> HIDE DEF more
    <3>2. Len(headers \o more) = Len(headers) + Len(more) /\ Len(more) \in Nat
      BY <3>1 DEF Text
    <3> QED
      BY <1>5, <1>6, <3>2 DEF more
  <2>2. content_length_at # -1 => content_length_at \in 0 .. Len(headers')
    BY <1>5, <2>1
  <2> QED
    BY <1>1, <2>2, SameInput DEF PositionHere
<1>10. ASSUME NEW length \in Lengths
       PROVE  Marked(headers', content_length_at', length) =
                FieldsOut(Upto(Fields(m), j + 1), length)
  <2> DEFINE more == value \o Crlf
             at == content_length_at
  <2>1. headers \in Text /\ more \in Text /\ at \in 0 .. Len(headers) \union {-1}
    BY <1>5, <1>6
  <2>2. headers' = headers \o more /\ content_length_at' = at
    BY <1>6
  <2>3. Marked(headers, at, length) \o By("tool", more) =
          FieldsOut(Upto(Fields(m), j + 1), length)
    BY <1>1
  <2> HIDE DEF more, at
  <2>4. Marked(headers \o more, at, length) = Marked(headers, at, length) \o By("tool", more)
    BY <2>1, MarkedGrows
  <2> QED
    BY <2>2, <2>3, <2>4
<1>11. (todo = HeadCalls(input.messages, m, j + 1))' /\ (url = Current(m).url)'
       /\ Fields(m)' = Fields(m)
  BY <1>1, SameInput
<1> QED
  BY <1>2, <1>8, <1>9, <1>10, <1>11 DEF InHead

-----------------------------------------------------------------------------
LEMMA ConcatNothing == <<>> \o <<>> = <<>>
<1>1. <<>> \in Seq(Text)
  OBVIOUS
<1> QED
  BY <1>1, NothingAdded

LEMMA NothingIsComing ==
  ASSUME NothingComes
  PROVE  Coming = <<>>
BY FilterNothing, ConcatNothing DEF NothingComes, Coming

\* A text that fits is kept, and printed, as it is.
LEMMA FitsItsBlocks ==
  ASSUME NEW message \in Messages, Regular(message)
  PROVE  /\ Len(message.url) < URL_MAX /\ KeptOfUrl(message.url) = message.url
         /\ StartLine(message.url) = StartLineUncut(message.url)
<1>1. message.url \in Text
  BY DEF Messages
<1>2. /\ Len(message.url) < URL_MAX
      /\ Len(StartLineUncut(message.url)) < AtMost(LINE_MAX, BUFFER_MAX)
  BY DEF Regular, Fits
<1>3. LINE_MAX \in Nat /\ BUFFER_MAX \in Nat
  BY SizeAssumption
<1>4. Len(StartLineUncut(message.url)) \in Nat
  BY <1>1, StartLineType DEF Text
<1>5. Len(StartLineUncut(message.url)) < BUFFER_MAX
  BY <1>2, <1>3, <1>4 DEF AtMost
<1> QED
  BY <1>1, <1>2, <1>5, KeptType, StartLineType

\* The head is complete.
LEMMA HeadThenHeld ==
  ASSUME TypeOK, AllRegular, NEW m \in 0 .. Len(input.messages) - 1, AtEndOfHead(m),
         UNCHANGED <<input, flags>>,
         status_line' = StartLine(url), headers' = headers \o Blank
  PROVE  HeadIsHeld(m)'
<1> DEFINE n == Len(Fields(m))
<1>1. /\ url = Current(m).url /\ PositionHere(m, n) /\ Decided(m, n)
      /\ \A length \in Lengths :
           Marked(headers, content_length_at, length) = FieldsOut(Upto(Fields(m), n), length)
  BY DEF AtEndOfHead, InHead
<1>2. /\ Current(m) \in Messages /\ Regular(Current(m)) /\ Fields(m) = Current(m).fields
      /\ Fields(m) \in Seq(Line)
  BY MessageAt DEF Fields
<1>3. content_length_at \in 0 .. Len(headers) \union {-1} /\ headers \in Text
      /\ content_length_at \in Int /\ Len(headers) \in Nat
  BY <1>1, PositionIn
<1>4. (do_pipe_this_message = Piped(Current(m)))'
  <2>1. DOMAIN Fields(m) = 1 .. n
    BY <1>2
  <2>2. HasPattern => \E i \in 1 .. n : Fields(m)[i].name = ContentType
    BY <1>2, <2>1 DEF Regular
  <2>3. do_pipe_this_message = Piped(Current(m))
    <3>1. CASE HasPattern
      BY <1>1, <2>2, <3>1 DEF Decided
    <3>2. CASE ~HasPattern
      <4>1. do_pipe_this_message /\ Piped(Current(m))
        BY <1>1, <3>2 DEF Decided, Piped
      <4>2. Piped(Current(m)) \in BOOLEAN /\ do_pipe_this_message \in BOOLEAN
        BY DEF Piped, TypeOK
      <4> QED
        BY <4>1, <4>2
    <3> QED
      BY <3>1, <3>2
  <2> QED
    BY <2>3, SameInput DEF flags
<1>5. headers' # <<>>
  <2>1. Blank \in Text /\ Len(Blank) = 1
    BY ConstantTexts DEF Blank
  <2>2. Len(headers \o Blank) = Len(headers) + Len(Blank)
    <3>1. LengthsAdd(Text)
      BY ConcatLengths, Zenon DEF Text
    <3> QED
      BY <1>3, <2>1, <3>1, Zenon DEF LengthsAdd
  <2>3. Len(headers \o Blank) # 0
    BY <1>3, <2>1, <2>2
  <2> QED
    BY <2>3
<1>6. ASSUME NEW length \in Lengths
      PROVE  By("tool", status_line') \o Marked(headers', content_length_at', length) =
               HeadOut(Current(m), length)
  <2> DEFINE at == content_length_at
             blank == Blank
             s == By("tool", StartLineUncut(url))
             f == FieldsOut(Fields(m), length)
             b == By("tool", blank)
  <2>1. blank \in Text /\ headers \in Text /\ at \in 0 .. Len(headers) \union {-1}
    BY <1>3, ConstantTexts
  <2>2. Marked(headers, at, length) = f
    <3>1. HasUptos(Line, Seq(Line))
      BY Uptos, Zenon
    <3>2. Upto(Fields(m), n) = Fields(m)
      BY <1>2, <3>1, Zenon DEF HasUptos
    <3> QED
      BY <1>1, <3>2
  <2>3. headers' = headers \o blank /\ content_length_at' = at /\ By("tool", status_line') = s
    BY <1>1, <1>2, FitsItsBlocks DEF flags
  <2>4. s \in W /\ f \in W /\ b \in W
    BY <1>1, <1>2, HeadOutType
  <2>5. HeadOut(Current(m), length) = s \o f \o b
    BY <1>1, <1>2 DEF HeadOut
  <2> HIDE DEF at, blank, s, f
  <2>6. Marked(headers \o blank, at, length) = Marked(headers, at, length) \o b
    BY <2>1, MarkedGrows
  <2> HIDE DEF b
  <2>7. s \o f \o b = s \o (f \o b)
    BY <2>4, Regrouped
  <2> QED
    BY <2>2, <2>3, <2>5, <2>6, <2>7
<1> QED
  BY <1>4, <1>5, <1>6, SameInput DEF HeadIsHeld

\* The end of a head moves it to the body, piped or copied as decided.
LEMMA HeadKept ==
  ASSUME TypeOK, AllRegular, NEW m \in 0 .. Len(input.messages) - 1, AtEndOfHead(m),
         UNCHANGED <<input, flags, stdout, body, unwritten, bytes>>,
         status_line' = StartLine(url), headers' = headers \o Blank,
         todo' = BodyCalls(input.messages, m, 0)
  PROVE  InPipedBody(m, 0)' \/ InCopiedBody(m, 0)'
<1>1. HeadIsHeld(m)'
  BY HeadThenHeld
<1>2. PrintedTo(m) /\ NothingComes
  BY DEF AtEndOfHead, InHead
<1>3. PrintedTo(m)' /\ NothingComes' /\ Coming = <<>> /\ Coming' = <<>>
  BY <1>2, SameDue, NothingIsComing DEF PrintedTo, NothingComes, bytes, Coming, Filter
<1>4. (todo = BodyCalls(input.messages, m, 0))' /\ Current(m)' = Current(m)
      /\ Piped(Current(m))' = Piped(Current(m))
  BY SameInput
<1>5. CASE Piped(Current(m))
  <2> DEFINE all == Filter(FlattenSeq(Current(m).body))
  <2>1. Rest(Current(m).body, 0) = Current(m).body
    <3>1. HasRests(Text, Seq(Text))
      BY Rests, Zenon
    <3>2. Current(m).body \in Seq(Text)
      BY MessageAt
    <3> QED
      BY <3>1, <3>2, Zenon DEF HasRests
  <2>2. <<>> \o all = all
    <3>1. all \in W
      BY MessageAt, OutType DEF Whole
    <3> QED
      BY <3>1, WrittenLaws, Zenon DEF Laws
  <2>3. (Coming \o Filter(FlattenSeq(Rest(Current(m).body, 0))) =
           Filter(FlattenSeq(Current(m).body)))'
    BY <1>3, <1>4, <2>1, <2>2 DEF Filter
  <2> QED
    BY <1>1, <1>3, <1>4, <1>5, <2>3 DEF InPipedBody
<1>6. CASE ~Piped(Current(m))
  BY <1>1, <1>3, <1>4, <1>6 DEF InCopiedBody
<1> QED
  BY <1>5, <1>6

-----------------------------------------------------------------------------
\* The command's output that is still to come: what it was given so far in
\* the shape of its output, and what it will make of the rest.
Made == body \o out_pipe \o taken

LEMMA ComingParts ==
  ASSUME TypeOK
  PROVE  /\ Made \in W /\ Coming \in W /\ Coming = Made \o Filter(in_pipe \o unwritten)
         /\ body \in W /\ out_pipe \in W /\ taken \in W
         /\ in_pipe \in Text /\ unwritten \in Text
<1>1. /\ body \in W /\ out_pipe \in W /\ taken \in W
      /\ in_pipe \in Text /\ unwritten \in Text
  BY WrittenAtoms DEF TypeOK, W, Atoms
<1>2. Made \in W
  BY <1>1, Joined DEF Made
<1>3. in_pipe \o unwritten \in Text
  BY <1>1, TextConcat
<1>4. Filter(in_pipe \o unwritten) \in W
  BY <1>3, CommandLaws DEF FilterLaws
<1>5. Coming = Made \o Filter(in_pipe \o unwritten)
  BY DEF Coming, Made
<1>6. Made \o Filter(in_pipe \o unwritten) \in W
  BY <1>2, <1>4, WrittenLaws, Zenon DEF Laws
<1> QED
  BY <1>1, <1>2, <1>5, <1>6

\* The pieces of a body.
LEMMA NextPiece ==
  ASSUME NEW pieces \in Seq(Text), NEW j \in 0 .. Len(pieces) - 1
  PROVE  LET whole == FlattenSeq(Rest(pieces, j))
             more == FlattenSeq(Rest(pieces, j + 1))
         IN  /\ pieces[j + 1] \in Text /\ whole \in Text /\ more \in Text
             /\ whole = pieces[j + 1] \o more
             /\ Filter(whole) = Filter(pieces[j + 1]) \o Filter(more)
             /\ By("tool", whole) = By("tool", pieces[j + 1]) \o By("tool", more)
             /\ Filter(pieces[j + 1]) \in W /\ Filter(more) \in W
             /\ By("tool", pieces[j + 1]) \in W /\ By("tool", more) \in W
<1> DEFINE at == pieces[j + 1]
           left == Rest(pieces, j + 1)
           more == FlattenSeq(left)
<1>1. /\ Rest(pieces, j) = <<at>> \o left /\ left \in Seq(Text) /\ at \in Text
  <2>1. HasRests(Text, Seq(Text))
    BY Rests, Zenon
  <2>2. j + 1 \in 0 .. Len(pieces)
    <3>1. Len(pieces) \in Nat
      OBVIOUS
    <3> QED
      BY <3>1
  <2> QED
    BY <2>1, <2>2, Zenon DEF HasRests
<1> HIDE DEF at, left
<1>2. FlattenSeq(Rest(pieces, j)) = at \o more /\ more \in Text
  BY <1>1, FlattenCons, FlattenType DEF Text
<1> HIDE DEF more
<1>3. at \o more \in Text
  BY <1>1, <1>2, TextConcat
<1>4. Filter(at \o more) = Filter(at) \o Filter(more)
  BY <1>1, <1>2, FilterParts
<1>5. By("tool", at \o more) = By("tool", at) \o By("tool", more)
  BY <1>1, <1>2, ByParts DEF Sources
<1>6. Filter(at) \in W /\ Filter(more) \in W
  BY <1>1, <1>2, CommandLaws DEF FilterLaws
<1>7. By("tool", at) \in W /\ By("tool", more) \in W
  BY <1>1, <1>2, WrittenLaws DEF ByLaws, Sources
<1> QED
  BY <1>1, <1>2, <1>3, <1>4, <1>5, <1>6, <1>7 DEF at, more, left

LEMMA NoMorePieces ==
  ASSUME NEW pieces \in Seq(Text)
  PROVE  /\ FlattenSeq(Rest(pieces, Len(pieces))) = <<>>
         /\ Filter(FlattenSeq(Rest(pieces, Len(pieces)))) = <<>>
         /\ By("tool", FlattenSeq(Rest(pieces, Len(pieces)))) = <<>>
<1>1. Rest(pieces, Len(pieces)) = <<>>
  <2>1. HasRests(Text, Seq(Text))
    BY Rests, Zenon
  <2> QED
    BY <2>1, Zenon DEF HasRests
<1> QED
  BY <1>1, FlattenEmpty, FilterNothing, ByEmpty

\* A piece of a piped body is before the command from now on.
LEMMA PipedPieceKept ==
  ASSUME TypeOK, unwritten = <<>>, NEW m \in 0 .. Len(input.messages) - 1,
         NEW j \in 0 .. Len(Current(m).body) - 1, AtPiece(m, j), do_pipe_this_message,
         UNCHANGED <<input, parsed, stdout, body, bytes>>,
         unwritten' = Current(m).body[j + 1],
         todo' = BodyCalls(input.messages, m, j + 1)
  PROVE  InPipedBody(m, j + 1)'
<1>1. InPipedBody(m, j)
  BY DEF AtPiece, InCopiedBody, HeadIsHeld
<1>2. PrintedTo(m)' /\ HeadIsHeld(m)' /\ Piped(Current(m))'
  BY <1>1, SameDue, SameInput DEF InPipedBody, PrintedTo, HeadIsHeld, parsed, flags
<1>3. (todo = BodyCalls(input.messages, m, j + 1))' /\ Current(m)' = Current(m)
  BY SameInput
<1> DEFINE at == Current(m).body[j + 1]
           more == FlattenSeq(Rest(Current(m).body, j + 1))
           whole == Filter(FlattenSeq(Current(m).body))
           a == Filter(at)
           r == Filter(more)
<1>4. /\ at \in Text /\ a \in W /\ r \in W
      /\ Filter(FlattenSeq(Rest(Current(m).body, j))) = a \o r
  BY MessageAt, NextPiece
<1>5. Coming \o (a \o r) = whole
  BY <1>1, <1>4 DEF InPipedBody
<1>6. Coming' = Coming \o a
  <2> HIDE DEF at
  <2> DEFINE f == Filter(in_pipe)
  <2>1. Made \in W /\ Coming = Made \o f /\ in_pipe \in Text
    <3>1. in_pipe \o <<>> = in_pipe
      BY ComingParts, NothingAdded DEF Text
    <3> QED
      BY <3>1, ComingParts
  <2>2. f \in W
    BY <2>1, CommandLaws DEF FilterLaws
  <2>3. Filter(in_pipe \o at) = f \o a
    BY <1>4, <2>1, FilterParts
  <2>4. Coming' = Made \o Filter(in_pipe \o at)
    BY DEF Coming, Made, bytes, Filter, at
  <2>5. Made \in W /\ f \in W /\ a \in W
    BY <1>4, <2>1, <2>2
  <2> HIDE DEF f, a
  <2>6. Made \o (f \o a) = (Made \o f) \o a
    BY <2>5, Regrouped
  <2> QED
    BY <2>1, <2>3, <2>4, <2>6
<1>7. (Coming \o a) \o r = whole
  <2>1. Coming \in W /\ a \in W /\ r \in W
    BY <1>4, ComingParts
  <2> HIDE DEF a, r
  <2> QED
    BY <1>5, <2>1, Regrouped
<1>8. (Coming \o Filter(FlattenSeq(Rest(Current(m).body, j + 1))) =
         Filter(FlattenSeq(Current(m).body)))'
  BY <1>3, <1>6, <1>7 DEF Filter
<1> QED
  BY <1>2, <1>3, <1>8 DEF InPipedBody

\* Behind the last piece the tool drains the command.
LEMMA PipedEndKept ==
  ASSUME TypeOK, NEW m \in 0 .. Len(input.messages) - 1, AtEnd(m), do_pipe_this_message,
         UNCHANGED <<input, parsed, stdout, body, unwritten, bytes>>,
         todo' = MessageCalls(input.messages, m + 1)
  PROVE  Draining(m)'
<1>1. InPipedBody(m, Len(Current(m).body))
  BY DEF AtEnd, InCopiedBody, HeadIsHeld
<1>2. PrintedTo(m)' /\ HeadIsHeld(m)' /\ Piped(Current(m))'
  BY <1>1, SameDue, SameInput DEF InPipedBody, PrintedTo, HeadIsHeld, parsed, flags
<1>3. (todo = MessageCalls(input.messages, m + 1))' /\ Current(m)' = Current(m)
  BY SameInput
<1>4. Coming \o <<>> = Filter(FlattenSeq(Current(m).body))
  BY <1>1, MessageAt, NoMorePieces DEF InPipedBody
<1>5. Coming \o <<>> = Coming
  BY ComingParts, WrittenLaws, Zenon DEF Laws
<1>6. Coming' = Coming
  BY DEF Coming, bytes, Filter
<1>7. (Coming = Filter(FlattenSeq(Current(m).body)))'
  BY <1>3, <1>4, <1>5, <1>6 DEF Filter
<1> QED
  BY <1>2, <1>3, <1>7 DEF Draining

\* The first piece of a copied body is printed behind its head.
LEMMA FirstPieceKept ==
  ASSUME TypeOK, NEW m \in 0 .. Len(input.messages) - 1,
         0 \in 0 .. Len(Current(m).body) - 1, AtPiece(m, 0), ~do_pipe_this_message,
         UNCHANGED <<input, flags, body, unwritten, bytes>>,
         NEW at, at = Current(m).body[1],
         stdout' = stdout \o By("tool", (IF headers = <<>> THEN <<>>
                                         ELSE status_line \o headers) \o at),
         headers' = <<>>,
         todo' = BodyCalls(input.messages, m, 1)
  PROVE  InCopiedBody(m, 1)'
<1>1. InCopiedBody(m, 0)
  BY DEF AtPiece, InPipedBody, HeadIsHeld
<1>2. /\ NothingComes /\ ~Piped(Current(m)) /\ PrintedTo(m) /\ HeadIsHeld(m)
  BY <1>1 DEF InCopiedBody
<1>3. /\ NothingComes' /\ ~Piped(Current(m))' /\ Current(m)' = Current(m)
      /\ (todo = BodyCalls(input.messages, m, 1))'
      /\ headers' = <<>> /\ ~do_pipe_this_message'
  BY <1>2, SameInput DEF NothingComes, flags, bytes
<1> DEFINE more == FlattenSeq(Rest(Current(m).body, 1))
           h == HeadOut(Current(m), -1)
           a == By("tool", at)
           r == By("tool", more)
           due == Outs(Rest(input.messages, m + 1))
           s == stdout
<1>4. /\ at \in Text /\ a \in W /\ r \in W
      /\ By("tool", FlattenSeq(Rest(Current(m).body, 0))) = a \o r
  <2>1. 0 + 1 = 1
    OBVIOUS
  <2> QED
    BY <2>1, MessageAt, NextPiece
<1>5. h \in W /\ Out(Current(m)) = h \o (a \o r)
  <2>1. Rest(Current(m).body, 0) = Current(m).body
    <3>1. HasRests(Text, Seq(Text))
      BY Rests, Zenon
    <3> QED
      BY <3>1, MessageAt, Zenon DEF HasRests
  <2>2. -1 \in Lengths /\ Current(m) \in Messages
    BY MessageAt DEF Lengths
  <2>3. h \in W
    BY <2>2, HeadOutType
  <2>4. Out(Current(m)) = h \o By("tool", FlattenSeq(Current(m).body))
    BY <1>2, <2>2, OutType DEF Whole
  <2> QED
    BY <1>4, <2>1, <2>3, <2>4
<1>6. due \in W /\ s \in W /\ s \o ((h \o (a \o r)) \o due) = Expected
  <2>1. input.messages \in Seq(Messages)
    BY MessageAt
  <2>2. /\ due \in W /\ Outs(Rest(input.messages, m)) = Out(Current(m)) \o due
    BY <2>1, DueFrom, MessageAt
  <2>3. s \in W
    BY DEF TypeOK, W
  <2> QED
    BY <1>2, <1>5, <2>2, <2>3 DEF PrintedTo
<1>7. stdout' = s \o (h \o a)
  <2> DEFINE l == status_line
             t == headers
  <2>1. l \in Text /\ t \in Text /\ t # <<>> /\ l \o t \in Text
    <3>1. l \in Text /\ t \in Text /\ t # <<>>
      BY <1>2 DEF TypeOK, HeadIsHeld
    <3> QED
      BY <3>1, TextConcat
  <2>2. h = By("tool", l) \o By("tool", t)
    <3> DEFINE none == -1
               where == content_length_at
    <3>1. none \in Lengths /\ none = -1 /\ where \in Int
      <4>1. content_length_at \in Nat \union {-1}
        BY DEF TypeOK
      <4>2. content_length_at \in Int
        BY <4>1
      <4>3. none \in Lengths
        BY DEF Lengths
      <4> QED
        BY <4>2, <4>3
    <3>2. h = By("tool", l) \o Marked(t, where, none)
      BY <1>2, <3>1 DEF HeadIsHeld
    <3> HIDE DEF none, where, h
    <3>3. Marked(t, where, none) = By("tool", t)
      BY <2>1, <3>1, MarkedIs
    <3> QED
      BY <3>2, <3>3
  <2>3. stdout' = s \o By("tool", (l \o t) \o at)
    BY <2>1
  <2> HIDE DEF l, t, h
  <2>4. By("tool", l \o t) = By("tool", l) \o By("tool", t)
    BY <2>1, ByParts DEF Sources
  <2>5. By("tool", (l \o t) \o at) = By("tool", l \o t) \o a
    BY <1>4, <2>1, ByParts DEF Sources
  <2> QED
    BY <2>2, <2>3, <2>4, <2>5
<1>8. ((s \o (h \o a)) \o r) \o due = s \o ((h \o (a \o r)) \o due)
  <2>1. s \in W /\ h \in W /\ a \in W /\ r \in W /\ due \in W
    BY <1>4, <1>5, <1>6
  <2> HIDE DEF s, h, a, r, due
  <2> DEFINE ha == h \o a
             har == h \o (a \o r)
  <2>2. ha \in W
    BY <2>1, WrittenLaws, Zenon DEF Laws
  <2>3. ha \o r = har
    <3>1. h \in W /\ a \in W /\ r \in W
      BY <2>1
    <3> QED
      BY <3>1, Regrouped
  <2>4. har \in W
    <3>1. ha \in W /\ r \in W
      BY <2>1, <2>2
    <3>2. ha \o r \in W
      BY <3>1, WrittenLaws, Zenon DEF Laws
    <3> QED
      BY <2>3, <3>2
  <2> HIDE DEF ha, har
  <2>5. (s \o ha) \o r = s \o har
    <3>1. s \in W /\ ha \in W /\ r \in W
      BY <2>1, <2>2
    <3>2. (s \o ha) \o r = s \o (ha \o r)
      BY <3>1, Regrouped
    <3> QED
      BY <2>3, <3>2
  <2>6. (s \o har) \o due = s \o (har \o due)
    <3>1. s \in W /\ har \in W /\ due \in W
      BY <2>1, <2>4
    <3> QED
      BY <3>1, Regrouped
  <2> QED
    BY <2>5, <2>6 DEF ha, har
<1>9. stdout' \o By("tool", FlattenSeq(Rest(Current(m).body, 1)))
        \o Outs(Rest(input.messages, m + 1)) = Expected
  BY <1>6, <1>7, <1>8
<1>10. (stdout \o By("tool", FlattenSeq(Rest(Current(m).body, 1)))
          \o Outs(Rest(input.messages, m + 1)) = Expected)'
  BY <1>3, <1>9, SameDue DEF By
<1> QED
  BY <1>3, <1>10 DEF InCopiedBody

\* A later piece is printed behind the one before.
LEMMA LaterPieceKept ==
  ASSUME TypeOK, NEW m \in 0 .. Len(input.messages) - 1,
         NEW j \in 0 .. Len(Current(m).body) - 1, j # 0, AtPiece(m, j),
         ~do_pipe_this_message,
         UNCHANGED <<input, flags, body, unwritten, bytes>>,
         NEW at, at = Current(m).body[j + 1],
         stdout' = stdout \o By("tool", (IF headers = <<>> THEN <<>>
                                         ELSE status_line \o headers) \o at),
         headers' = <<>>,
         todo' = BodyCalls(input.messages, m, j + 1)
  PROVE  InCopiedBody(m, j + 1)'
<1>1. InCopiedBody(m, j)
  BY DEF AtPiece, InPipedBody, HeadIsHeld
<1> DEFINE more == FlattenSeq(Rest(Current(m).body, j + 1))
           a == By("tool", at)
           r == By("tool", more)
           due == Outs(Rest(input.messages, m + 1))
<1>2. /\ NothingComes /\ ~Piped(Current(m)) /\ headers = <<>>
      /\ stdout \o By("tool", FlattenSeq(Rest(Current(m).body, j))) \o due = Expected
  BY <1>1 DEF InCopiedBody
<1>3. /\ NothingComes' /\ ~Piped(Current(m))' /\ Current(m)' = Current(m)
      /\ (todo = BodyCalls(input.messages, m, j + 1))'
      /\ headers' = <<>> /\ ~do_pipe_this_message'
  BY <1>2, SameInput DEF NothingComes, flags, bytes
<1>4. /\ at \in Text /\ a \in W /\ r \in W /\ stdout \in W
      /\ By("tool", FlattenSeq(Rest(Current(m).body, j))) = a \o r
  BY MessageAt, NextPiece DEF TypeOK, W
<1>5. stdout' = stdout \o a
  <2>1. <<>> \o at = at
    BY <1>4, WrittenLaws, Zenon DEF Laws
  <2> QED
    BY <1>2, <2>1
<1>6. (stdout \o a) \o r = stdout \o (a \o r)
  <2>1. stdout \in W /\ a \in W /\ r \in W
    BY <1>4
  <2> HIDE DEF a, r
  <2> QED
    BY <2>1, Regrouped
<1>7. stdout' \o By("tool", FlattenSeq(Rest(Current(m).body, j + 1))) \o due = Expected
  BY <1>2, <1>4, <1>5, <1>6
<1>8. (stdout \o By("tool", FlattenSeq(Rest(Current(m).body, j + 1)))
          \o Outs(Rest(input.messages, m + 1)) = Expected)'
  BY <1>3, <1>7, SameDue DEF By
<1>9. j + 1 # 0
  BY MessageAt
<1> QED
  BY <1>3, <1>8, <1>9 DEF InCopiedBody

\* Behind the last piece the tool is before the next message.
LEMMA CopiedEndKept ==
  ASSUME TypeOK, AllRegular, NEW m \in 0 .. Len(input.messages) - 1, AtEnd(m),
         ~do_pipe_this_message,
         UNCHANGED <<input, stdout, headers, body, unwritten, bytes>>,
         content_length_at' = -1,
         todo' = MessageCalls(input.messages, m + 1)
  PROVE  AtMessage(m + 1)'
<1> DEFINE j == Len(Current(m).body)
           due == Outs(Rest(input.messages, m + 1))
<1>1. InCopiedBody(m, j)
  BY DEF AtEnd, InPipedBody, HeadIsHeld
<1>2. NothingComes /\ ~Piped(Current(m))
  BY <1>1 DEF InCopiedBody
<1>3. j # 0
  <2>1. Regular(Current(m)) /\ Current(m).body \in Seq(Text)
    BY MessageAt
  <2>2. Current(m).body # <<>>
    BY <1>2, <2>1 DEF Regular
  <2> QED
    BY <2>1, <2>2
<1>4. headers = <<>> /\ stdout \o <<>> \o due = Expected
  BY <1>1, <1>3, MessageAt, NoMorePieces DEF InCopiedBody
<1>5. stdout \o <<>> = stdout
  <2>1. stdout \in W
    BY DEF TypeOK, W
  <2> QED
    BY <2>1, WrittenLaws, Zenon DEF Laws
<1>6. PrintedTo(m + 1)
  BY <1>4, <1>5 DEF PrintedTo
<1>7. HasPattern
  BY <1>2 DEF Piped
<1>8. /\ PrintedTo(m + 1)' /\ NothingComes' /\ HasPattern'
      /\ (todo = MessageCalls(input.messages, m + 1))'
  BY <1>2, <1>6, <1>7, SameDue, SameInput DEF PrintedTo, NothingComes, bytes
<1> QED
  BY <1>4, <1>8 DEF AtMessage

-----------------------------------------------------------------------------
\* The two pipes, the command and the tool pass on what is coming.
LEMMA WriteAllPasses ==
  ASSUME TypeOK, WriteAll, pc' # "killed"
  PROVE  Coming' = Coming
<1> DEFINE n == AtMost(Len(unwritten), IN_CAPACITY - Len(in_pipe))
           done == SubSeq(unwritten, 1, n)
           left == From(unwritten, n + 1)
<1>1. /\ Len(in_pipe) < IN_CAPACITY
      /\ in_pipe' = in_pipe \o done /\ unwritten' = left
      /\ UNCHANGED <<body, out_pipe, taken>>
  BY DEF WriteAll
<1>2. in_pipe \in Text /\ unwritten \in Text
  BY ComingParts
<1>3. n \in 0 .. Len(unwritten)
  <2>1. Len(in_pipe) \in Nat /\ Len(unwritten) \in Nat /\ IN_CAPACITY \in Nat
    BY <1>2, CommandAssumption DEF Text
  <2> QED
    BY <1>1, <2>1 DEF AtMost
<1> HIDE DEF n
<1>4. done \in Text /\ left \in Text /\ done \o left = unwritten
  BY <1>2, <1>3, InTwoParts, PartSeq, TextParts DEF Text, From
<1>5. in_pipe' \o unwritten' = in_pipe \o unwritten
  <2>1. in_pipe \in Text /\ done \in Text /\ left \in Text
    BY <1>2, <1>4
  <2> HIDE DEF done, left
  <2>2. (in_pipe \o done) \o left = in_pipe \o (done \o left)
    BY <2>1, WordsRegrouped
  <2> QED
    BY <1>1, <1>4, <2>2
<1> QED
  BY <1>1, <1>5 DEF Coming, Filter

\* What the command takes goes from before it into it.
LEMMA CommandTakesPasses ==
  ASSUME TypeOK, CommandTakes
  PROVE  Coming' = Coming
<1> DEFINE b == body \o out_pipe
           i == Filter(in_pipe)
           u == Filter(unwritten)
<1>1. /\ taken' = taken \o i /\ in_pipe' = <<>>
      /\ UNCHANGED <<body, out_pipe, unwritten>>
  BY DEF CommandTakes, rest
<1>2. /\ body \in W /\ out_pipe \in W /\ taken \in W
      /\ in_pipe \in Text /\ unwritten \in Text
  BY ComingParts
<1>3. b \in W /\ i \in W /\ u \in W
  <2>1. b \in W
    BY <1>2, WrittenLaws, Zenon DEF Laws
  <2>2. i \in W /\ u \in W
    BY <1>2, CommandLaws DEF FilterLaws
  <2> QED
    BY <2>1, <2>2
<1>4. Coming = (b \o taken) \o (i \o u)
  BY <1>2, FilterParts DEF Coming
<1>5. Coming' = (b \o (taken \o i)) \o u
  <2>1. <<>> \o unwritten = unwritten
    BY <1>2, WrittenLaws, Zenon DEF Laws
  <2> QED
    BY <1>1, <2>1 DEF Coming, Filter
<1>6. (b \o taken) \o (i \o u) = (b \o (taken \o i)) \o u
  <2> DEFINE t == taken
             bt == b \o t
  <2>1. b \in W /\ i \in W /\ u \in W /\ t \in W
    BY <1>2, <1>3
  <2> HIDE DEF b, i, u, t
  <2>2. bt \in W /\ b \o (t \o i) = bt \o i
    <3>1. b \in W /\ t \in W /\ i \in W
      BY <2>1
    <3>2. b \o t \in W
      BY <3>1, Joined
    <3>3. (b \o t) \o i = b \o (t \o i)
      BY <3>1, Regrouped
    <3> QED
      BY <3>2, <3>3
  <2> HIDE DEF bt
  <2>3. (bt \o i) \o u = bt \o (i \o u)
    BY <2>1, <2>2, Regrouped
  <2> QED
    BY <2>2, <2>3 DEF bt, t
<1> QED
  BY <1>4, <1>5, <1>6

\* What it prints goes into the pipe back.
LEMMA CommandPrintsPasses ==
  ASSUME TypeOK, CommandPrints
  PROVE  Coming' = Coming /\ taken # <<>>
<1>1. PICK n \in 1 .. AtMost(Len(taken), OUT_CAPACITY - Len(out_pipe)) :
        /\ out_pipe' = out_pipe \o SubSeq(taken, 1, n)
        /\ taken' = From(taken, n + 1)
  BY DEF CommandPrints
<1>2. UNCHANGED <<body, in_pipe, unwritten>>
  BY DEF CommandPrints, rest
<1>3. body \in W /\ out_pipe \in W /\ taken \in W
  BY ComingParts
<1>4. n \in 0 .. Len(taken) /\ Len(taken) # 0
  <2>1. Len(out_pipe) \in Nat /\ Len(taken) \in Nat /\ OUT_CAPACITY \in Nat
    BY <1>3, CommandAssumption DEF W
  <2> QED
    BY <1>1, <2>1 DEF AtMost
<1> DEFINE done == SubSeq(taken, 1, n)
           left == From(taken, n + 1)
<1>5. done \in W /\ left \in W /\ done \o left = taken
  BY <1>3, <1>4, InTwoParts, TextParts DEF W, From
<1>6. (body \o (out_pipe \o done)) \o left = (body \o out_pipe) \o taken
  <2> DEFINE b == body
             o == out_pipe
             bo == b \o o
  <2>1. b \in W /\ o \in W /\ done \in W /\ left \in W
    BY <1>3, <1>5
  <2> HIDE DEF b, o, done, left
  <2>2. bo \in W /\ b \o (o \o done) = bo \o done
    <3>1. b \in W /\ o \in W /\ done \in W
      BY <2>1
    <3>2. b \o o \in W
      BY <3>1, Joined
    <3>3. (b \o o) \o done = b \o (o \o done)
      BY <3>1, Regrouped
    <3> QED
      BY <3>2, <3>3
  <2> HIDE DEF bo
  <2>3. (bo \o done) \o left = bo \o (done \o left)
    BY <2>1, <2>2, Regrouped
  <2> QED
    BY <1>5, <2>2, <2>3 DEF bo, b, o
<1>7. Coming' = Coming
  BY <1>1, <1>2, <1>6 DEF Coming, Filter
<1>8. taken # <<>>
  BY <1>4
<1> QED
  BY <1>7, <1>8

\* What the drain loop reads goes from the pipe back to the body.
LEMMA DrainReadPasses ==
  ASSUME TypeOK, DrainRead
  PROVE  Coming' = Coming
<1> DEFINE all == body \o out_pipe
<1>1. /\ body' = all /\ out_pipe' = <<>>
      /\ UNCHANGED <<in_pipe, unwritten, taken>>
  BY DEF DrainRead
<1>2. body \in W /\ out_pipe \in W
  BY ComingParts
<1>3. all \in W
  BY <1>2, WrittenLaws, Zenon DEF Laws
<1> HIDE DEF all
<1>4. all \o <<>> = all
  BY <1>3, WrittenLaws, Zenon DEF Laws
<1>5. Coming = all \o taken \o Filter(in_pipe \o unwritten)
  BY DEF Coming, all
<1>6. Coming' = all \o taken \o Filter(in_pipe \o unwritten)
  BY <1>1, <1>4 DEF Coming, Filter
<1> QED
  BY <1>5, <1>6

\* At the end of file the command is gone, and with it all it was to print.
LEMMA EndOfOutput ==
  ASSUME Ph!IInv, CommandInv, state = "PIPES_WIDOWED", Ph!ReadEof
  PROVE  in_pipe = <<>> /\ taken = <<>>
<1>1. ~Ph!Held(Ph!End("out", opens, "w")) /\ proc = opens
  BY DEF Ph!ReadEof, Ph!IInv, Ph!ProcOK, Ph!Opened
<1>2. \A d \in Ph!Fd : cfds[d] # Ph!End("out", proc, "w")
  BY <1>1 DEF Ph!Held, Ph!Holds
<1>3. 1 \in Ph!Fd /\ bipipe_fds[1] \in Ph!Fd
  BY FdAssumption DEF Ph!IInv, Ph!TypeOK, Ph!Fd
<1>4. proc_state \notin {"running", "blocked"}
  BY <1>2, <1>3 DEF CommandInv
<1>5. proc_state \notin {"in_open", "in_open2"}
  BY <1>2, <1>3 DEF Ph!IInv, Ph!ChildOK
<1>6. proc_state \in {"none", "zombie"}
  BY <1>4, <1>5 DEF Ph!IInv, Ph!TypeOK
<1> QED
  BY <1>6 DEF CommandInv

\* A command is killed for what it prints only when the tool has closed the
\* pipe back.
LEMMA KilledBehindClose ==
  ASSUME Ph!IInv, CommandInv, Control, CommandKilled
  PROVE  call # "none"
<1> SUFFICES ASSUME call = "none" PROVE FALSE
  OBVIOUS
<1>1. taken # <<>> /\ ~ToolReads /\ proc_state \in {"running", "blocked"}
  BY DEF CommandKilled, Ph!ChildKilled, Ph!ChildExitsEarly
<1>2. proc # 0 /\ Ph!Opened
  BY <1>1 DEF Ph!IInv, Ph!ProcOK
<1>3. state \in {"PIPES_OPEN_BI", "PIPES_WIDOWED"}
  BY <1>2 DEF Control, Ph!Opened
<1>4. proc = opens /\ fds[bipipe_fds[0]] = Ph!End("out", opens, "r")
  BY <1>2, <1>3 DEF Ph!IInv, Ph!ProcOK, Ph!HeldOK, Ph!Bi
<1>5. bipipe_fds[0] \in Ph!Fd
  BY DEF Ph!IInv, Ph!TypeOK
<1>6. ToolReads
  BY <1>4, <1>5 DEF ToolReads, Ph!Held, Ph!Holds
<1> QED
  BY <1>1, <1>6

-----------------------------------------------------------------------------
\* The message is printed with the length of what the command made of it.
LEMMA FlushKept ==
  ASSUME TypeOK, CommandInv, NEW m \in 0 .. Len(input.messages) - 1, Draining(m), Flush,
         out_pipe = <<>>, taken = <<>>, in_pipe = <<>>
  PROVE  AtMessage(m + 1)'
<1> DEFINE whole == Filter(Whole(Current(m)))
           length == Len(body)
           s == stdout
           l == By("tool", status_line)
           h == HeadOut(Current(m), length)
           due == Outs(Rest(input.messages, m + 1))
<1>1. /\ todo = MessageCalls(input.messages, m + 1)
      /\ PrintedTo(m) /\ HeadIsHeld(m) /\ Piped(Current(m)) /\ Coming = whole
  BY DEF Draining, Whole
<1>2. /\ pc = "flush" /\ pc' = "reset"
      /\ stdout' = s \o l \o NewHeaders \o body
      /\ headers' = <<>> /\ body' = <<>>
      /\ UNCHANGED <<input, todo, do_pipe_this_message, unwritten, in_pipe, taken, out_pipe>>
  BY DEF Flush, history, flags, bytes
<1>3. unwritten = <<>>
  BY <1>2 DEF CommandInv
<1>4. /\ body \in W /\ s \in W /\ headers \in Text /\ status_line \in Text
      /\ content_length_at \in Nat \union {-1}
  BY ComingParts DEF TypeOK, W
<1>5. body = whole
  <2>1. body \o <<>> = body
    BY <1>4, WrittenLaws, Zenon DEF Laws
  <2>2. Coming = body
    BY <1>3, <2>1, ConcatNothing, FilterNothing DEF Coming
  <2> QED
    BY <1>1, <2>2
<1>6. length \in Nat /\ length \in Lengths
  <2>1. length \in Nat
    BY <1>4 DEF W
  <2> QED
    BY <2>1 DEF Lengths
<1>7. NewHeaders = Marked(headers, content_length_at, length)
  <2>1. length >= 0
    BY <1>6
  <2>2. content_length_at >= 0 <=> content_length_at >= 0 /\ length >= 0
    BY <2>1
  <2> QED
    BY <2>2 DEF NewHeaders, NewLength, Marked
<1>8. h = l \o NewHeaders
  BY <1>1, <1>6, <1>7 DEF HeadIsHeld
<1>9. l \in W /\ NewHeaders \in W
  <2>1. l \in W
    BY <1>4, WrittenLaws DEF ByLaws, Sources
  <2>2. NewHeaders \in Seq(Written)
    BY <1>4, NewHeadersType DEF TypeOK, Atoms
  <2> QED
    BY <2>1, <2>2 DEF W
<1>10. /\ input.messages \in Seq(Messages) /\ Current(m) \in Messages
       /\ m + 1 \in 0 .. Len(input.messages)
  BY MessageAt
<1>11. h \in W /\ due \in W /\ s \o ((h \o body) \o due) = Expected
  <2>1. h \in W
    BY <1>6, <1>10, HeadOutType
  <2>2. Out(Current(m)) = h \o body
    BY <1>1, <1>5, <1>10, OutType
  <2>3. /\ due \in W /\ Outs(Rest(input.messages, m)) = Out(Current(m)) \o due
    BY <1>10, DueFrom
  <2> QED
    BY <1>1, <2>1, <2>2, <2>3 DEF PrintedTo
<1>12. stdout' \o due = Expected
  <2> DEFINE n == NewHeaders
             b == body
             hb == h \o b
  <2>1. s \in W /\ l \in W /\ n \in W /\ b \in W /\ h \in W /\ due \in W
    BY <1>4, <1>9, <1>11
  <2>2. h = l \o n /\ s \o (hb \o due) = Expected /\ stdout' = s \o l \o n \o b
    BY <1>2, <1>8, <1>11
  <2> HIDE DEF s, l, n, b, h, due
  <2>3. hb \in W
    BY <2>1, WrittenLaws, Zenon DEF Laws
  <2>4. (s \o l) \o n = s \o h
    <3>1. s \in W /\ l \in W /\ n \in W
      BY <2>1
    <3>2. (s \o l) \o n = s \o (l \o n)
      BY <3>1, Regrouped
    <3> QED
      BY <2>2, <3>2
  <2>5. (s \o h) \o b = s \o hb
    <3>1. s \in W /\ h \in W /\ b \in W
      BY <2>1
    <3> QED
      BY <3>1, Regrouped
  <2> HIDE DEF hb
  <2>6. (s \o hb) \o due = s \o (hb \o due)
    <3>1. s \in W /\ hb \in W /\ due \in W
      BY <2>1, <2>3
    <3> QED
      BY <3>1, Regrouped
  <2> QED
    BY <2>2, <2>4, <2>5, <2>6
<1>13. PrintedTo(m + 1)'
  BY <1>2, <1>12, SameDue DEF PrintedTo
<1>14. do_pipe_this_message
  BY <1>1 DEF HeadIsHeld
<1>15. (todo = MessageCalls(input.messages, m + 1))'
  BY <1>1, <1>2, SameInput
<1> QED
  BY <1>2, <1>3, <1>13, <1>14, <1>15 DEF AtMessage, NothingComes

-----------------------------------------------------------------------------
Drains == \E m \in 0 .. Len(input.messages) - 1 : Draining(m)

\* What was printed is a beginning of what is due, wherever the tool is.
LEMMA PlaceIsPrefix ==
  ASSUME TypeOK, Between \/ Copying \/ Piping \/ Drains
  PROVE  IsPrefix(stdout, Expected)
<1>1. input.messages \in Seq(Messages) /\ stdout \in W
  BY InputAssumption DEF TypeOK, W
<1>2. ASSUME NEW x \in W, stdout \o x = Expected
      PROVE  IsPrefix(stdout, Expected)
  BY <1>1, <1>2, IsPrefixConcat DEF W
<1>3. ASSUME NEW m \in 0 .. Len(input.messages), PrintedTo(m)
      PROVE  IsPrefix(stdout, Expected)
  BY <1>1, <1>2, <1>3, DueFrom DEF PrintedTo
<1>4. \A m \in 0 .. Len(input.messages) - 1 : m \in 0 .. Len(input.messages)
  BY MessageAt
<1>5. ASSUME NEW m \in 0 .. Len(input.messages) - 1, NEW j \in 0 .. Len(Current(m).body),
             InCopiedBody(m, j)
      PROVE  IsPrefix(stdout, Expected)
  <2>1. CASE j = 0
    BY <1>3, <1>4, <1>5, <2>1 DEF InCopiedBody
  <2>2. CASE j # 0
    <3> DEFINE b == By("tool", FlattenSeq(Rest(Current(m).body, j)))
               due == Outs(Rest(input.messages, m + 1))
    <3>1. stdout \o b \o due = Expected
      BY <1>5, <2>2 DEF InCopiedBody
    <3>2. b \in W
      <4>1. HasRests(Text, Seq(Text))
        BY Rests, Zenon
      <4>2. Rest(Current(m).body, j) \in Seq(Text)
        BY <4>1, MessageAt, Zenon DEF HasRests
      <4>3. FlattenSeq(Rest(Current(m).body, j)) \in Text
        BY <4>2, FlattenType DEF Text
      <4> QED
        BY <4>3, WrittenLaws DEF ByLaws, Sources
    <3>3. due \in W
      BY <1>1, MessageAt, DueFrom
    <3> HIDE DEF b, due
    <3>4. b \o due \in W
      BY <3>2, <3>3, Joined
    <3>5. (stdout \o b) \o due = stdout \o (b \o due)
      BY <1>1, <3>2, <3>3, Regrouped
    <3> QED
      BY <1>2, <3>1, <3>4, <3>5
  <2> QED
    BY <2>1, <2>2
<1>6. CASE Between
  <2>1. PICK m \in 0 .. Len(input.messages) : AtMessage(m)
    BY <1>6 DEF Between
  <2> QED
    BY <1>3, <2>1 DEF AtMessage
<1>7. CASE Piping \/ Drains
  <2>1. PICK m \in 0 .. Len(input.messages) - 1 : PrintedTo(m)
    BY <1>7 DEF Piping, InPipedBody, Drains, Draining
  <2> QED
    BY <1>3, <1>4, <2>1
<1>8. CASE Copying
  <2>1. PICK m \in 0 .. Len(input.messages) - 1 :
             PrintedTo(m) \/ \E j \in 0 .. Len(Current(m).body) : InCopiedBody(m, j)
    BY <1>8 DEF Copying, InHead, AtValue
  <2> QED
    BY <1>3, <1>4, <1>5, <2>1
<1> QED
  BY <1>6, <1>7, <1>8

\* Steps that leave the tool where it is.
LEMMA BetweenStays ==
  ASSUME UNCHANGED <<input, todo, stdout, headers, body, unwritten, bytes,
                     do_pipe_this_message>>,
         pc' # "reset" => content_length_at' = -1,
         Between
  PROVE  Between'
<1>1. PICK m \in 0 .. Len(input.messages) : AtMessage(m)
  BY DEF Between
<1>2. AtMessage(m)'
  BY <1>1, SameDue, SameInput DEF AtMessage, PrintedTo, NothingComes, bytes
<1> QED
  BY <1>2 DEF Between

LEMMA HeldStays ==
  ASSUME UNCHANGED <<input, parsed>>, NEW m, HeadIsHeld(m)
  PROVE  HeadIsHeld(m)'
BY SameInput DEF HeadIsHeld, parsed, flags

LEMMA CopyingStays ==
  ASSUME UNCHANGED <<input, todo, stdout, parsed, body, unwritten, bytes>>, Copying
  PROVE  Copying'
<1>1. ASSUME NEW m, PrintedTo(m) PROVE PrintedTo(m)'
  BY <1>1, SameDue DEF PrintedTo
<1>2. NothingComes => NothingComes'
  BY DEF NothingComes, bytes
<1>3. ASSUME NEW m, NEW j, PositionHere(m, j) PROVE PositionHere(m, j)'
  BY <1>3, SameInput DEF PositionHere, parsed, flags
<1>4. ASSUME NEW m, NEW j, Decided(m, j) PROVE Decided(m, j)'
  BY <1>4, SameInput DEF Decided, parsed, flags
<1>5. ASSUME NEW m, NEW j, InHead(m, j) PROVE InHead(m, j)'
  BY <1>1, <1>2, <1>3, <1>4, <1>5, SameInput DEF InHead, parsed, flags
<1>6. ASSUME NEW m, NEW j, AtValue(m, j) PROVE AtValue(m, j)'
  <2>1. /\ (todo = ValueCalls(input.messages, m, j))' /\ PrintedTo(m)' /\ NothingComes'
        /\ (url = Current(m).url)' /\ PositionHere(m, j + 1)' /\ Decided(m, j)'
    BY <1>1, <1>2, <1>3, <1>4, <1>6, SameInput DEF AtValue, parsed
  <2>2. (last_field_was_content_type = (Fields(m)[j + 1].name = ContentType))'
    BY <1>6, SameInput DEF AtValue, parsed, flags
  <2>3. ASSUME NEW length \in Lengths
        PROVE  (Marked(headers, content_length_at, length)
                  \o By("tool", Fields(m)[j + 1].value \o Crlf) =
                    FieldsOut(Upto(Fields(m), j + 1), length))'
    BY <1>6, <2>3, SameInput DEF AtValue, parsed, flags
  <2> QED
    BY <2>1, <2>2, <2>3 DEF AtValue
<1>7. ASSUME NEW m, NEW j, InCopiedBody(m, j) PROVE InCopiedBody(m, j)'
  <2>1. /\ (todo = BodyCalls(input.messages, m, j))' /\ NothingComes' /\ ~Piped(Current(m))'
        /\ Current(m)' = Current(m)
    BY <1>1, <1>2, <1>3, <1>4, <1>7, SameInput DEF InCopiedBody
  <2>2. CASE j = 0
    BY <1>1, <1>2, <1>3, <1>4, <1>7, <2>1, <2>2, HeldStays DEF InCopiedBody
  <2>3. CASE j # 0
    BY <1>7, <2>1, <2>3, SameDue DEF InCopiedBody, By, parsed, flags
  <2> QED
    BY <2>2, <2>3
<1>8. PICK m \in 0 .. Len(input.messages) - 1 :
        \/ \E j \in 0 .. Len(Fields(m)) : InHead(m, j)
        \/ \E j \in 0 .. Len(Fields(m)) - 1 : AtValue(m, j)
        \/ \E j \in 0 .. Len(Current(m).body) : InCopiedBody(m, j)
  BY DEF Copying
<1> QED
  BY <1>5, <1>6, <1>7, <1>8, SameInput DEF Copying

\* The same within a piped body.
LEMMA PipingStays ==
  ASSUME UNCHANGED <<input, todo, stdout, parsed>>, Coming' = Coming, Piping
  PROVE  Piping'
<1>1. PICK m \in 0 .. Len(input.messages) - 1 :
        \E j \in 0 .. Len(Current(m).body) : InPipedBody(m, j)
  BY DEF Piping
<1>2. PICK j \in 0 .. Len(Current(m).body) : InPipedBody(m, j)
  BY <1>1
<1>3. /\ (todo = BodyCalls(input.messages, m, j))' /\ PrintedTo(m)' /\ HeadIsHeld(m)'
      /\ Piped(Current(m))' /\ Current(m)' = Current(m)
  BY <1>2, SameInput, SameDue, HeldStays DEF InPipedBody, PrintedTo
<1>4. (Coming \o Filter(FlattenSeq(Rest(Current(m).body, j))) =
         Filter(FlattenSeq(Current(m).body)))'
  BY <1>2, <1>3 DEF InPipedBody, Filter
<1> QED
  BY <1>3, <1>4 DEF InPipedBody, Piping

\* What leaves the callbacks, the head and what is coming alone leaves the
\* tool behind the body.
LEMMA DrainingStays ==
  ASSUME UNCHANGED <<input, todo, stdout, parsed>>, Coming' = Coming,
         NEW m \in 0 .. Len(input.messages) - 1, Draining(m)
  PROVE  Draining(m)'
<1>1. /\ (todo = MessageCalls(input.messages, m + 1))' /\ PrintedTo(m)' /\ HeadIsHeld(m)'
      /\ Piped(Current(m))' /\ Current(m)' = Current(m)
  BY SameInput, SameDue, HeldStays DEF Draining, PrintedTo
<1>2. (Coming = Filter(FlattenSeq(Current(m).body)))'
  BY <1>1 DEF Draining, Filter
<1> QED
  BY <1>1, <1>2 DEF Draining

-----------------------------------------------------------------------------
\* A callback moves the tool on to the next place in the input.
LEMMA CallbackMovesOn ==
  ASSUME WholeTexts, TypeOK, CommandInv, AllRegular, Between \/ Copying \/ Piping,
         \/ \E at \in Texts : \/ CbUrl(at) \/ CbStatusComplete(at)
                              \/ CbHeaderField(at) \/ CbHeaderValue(at)
                              \/ CbBodyPiped(at) \/ CbBodyCopied(at)
         \/ CbHeadersComplete \/ CbMessageCompleteCopied \/ CbMessageCompletePiped
  PROVE  \/ pc' = "aborted" /\ UNCHANGED stdout
         \/ pc' = "parse" /\ (Between' \/ Copying' \/ Piping')
         \/ pc' = "write" /\ Piping'
         \/ pc' = "drain" /\ Drains'
<1>1. PICK at : \/ CbUrl(at) \/ CbStatusComplete(at) \/ CbHeaderField(at)
                \/ CbHeaderValue(at) \/ CbBodyPiped(at) \/ CbBodyCopied(at)
                \/ /\ CbHeadersComplete \/ CbMessageCompleteCopied \/ CbMessageCompletePiped
                   /\ at = <<>>
  OBVIOUS
<1>2. PICK cb : Calls(cb, at)
  BY <1>1 DEF CbUrl, CbStatusComplete, CbHeaderField, CbHeaderValue, CbBodyPiped,
     CbBodyCopied, CbHeadersComplete, CbMessageCompleteCopied, CbMessageCompletePiped
<1>3. todo # <<>> /\ Head(todo).cb = cb /\ pc = "parse" /\ UNCHANGED input
  BY <1>2 DEF Calls
<1>4. /\ CbUrl(at) => cb = "url"
      /\ CbStatusComplete(at) => cb = "status"
      /\ CbHeaderField(at) => cb = "header_field"
      /\ CbHeaderValue(at) => cb = "header_value"
      /\ CbBodyPiped(at) => cb = "body"
      /\ CbBodyCopied(at) => cb = "body"
      /\ CbHeadersComplete => cb = "headers_complete"
      /\ CbMessageCompleteCopied => cb = "message_complete"
      /\ CbMessageCompletePiped => cb = "message_complete"
  BY <1>3 DEF CbUrl, CbStatusComplete, CbHeaderField, CbHeaderValue, CbBodyPiped,
     CbBodyCopied, CbHeadersComplete, CbMessageCompleteCopied, CbMessageCompletePiped,
     Calls
<1>5. ASSUME NEW cb1, NEW at1, NEW calls, First(todo, cb1, at1, calls)
      PROVE  cb = cb1 /\ at = at1 /\ todo' = calls
  BY <1>2, <1>5, WholePiece
<1>6. unwritten = <<>>
  BY <1>3 DEF CommandInv
<1>7. input.messages \in Seq(Messages) /\ PlainMessages(input.messages)
  BY InputAssumption DEF TypeOK, AllRegular
<1>8. CASE \E m \in 0 .. Len(input.messages) - 1 : AtStart(m)
  <2>1. PICK m \in 0 .. Len(input.messages) - 1 : AtStart(m)
    BY <1>8
  <2>2. /\ cb \in {"url", "status"} /\ at = Current(m).url
        /\ todo' = HeadCalls(input.messages, m, 0)
    BY <1>5, <2>1 DEF AtStart
  <2>3. headers = <<>> /\ content_length_at = -1
    BY <1>3, <2>1 DEF AtStart, AtMessage
  <2>4. CbUrl(at) \/ CbStatusComplete(at)
    BY <1>1, <1>4, <2>2
  <2>5. /\ UNCHANGED <<pc, stdout, body, unwritten, bytes, do_pipe_this_message>>
        /\ headers' = <<>> /\ content_length_at' = -1 /\ url' = at
    <3>1. Current(m) \in Messages /\ Regular(Current(m))
      BY MessageAt
    <3>2. KeptOfUrl(at) = at
      BY <2>2, <3>1, FitsItsBlocks
    <3> QED
      BY <2>3, <2>4, <3>2 DEF CbUrl, CbStatusComplete, flags
  <2>6. InHead(m, 0)'
    BY <1>3, <2>1, <2>2, <2>5, StartKept
  <2>7. 0 \in 0 .. Len(Fields(m)')
    BY <1>3, MessageAt, SameInput
  <2> QED
    BY <1>3, <2>5, <2>6, <2>7 DEF Copying
<1>9. CASE \E m \in 0 .. Len(input.messages) - 1 :
             \E j \in 0 .. Len(Fields(m)) - 1 : AtName(m, j)
  <2> PICK m \in 0 .. Len(input.messages) - 1 : \E j \in 0 .. Len(Fields(m)) - 1 : AtName(m, j)
    BY <1>9
  <2>1. PICK j \in 0 .. Len(Fields(m)) - 1 : AtName(m, j)
    OBVIOUS
  <2>2. /\ cb = "header_field" /\ at = Fields(m)[j + 1].name
        /\ todo' = ValueCalls(input.messages, m, j)
    BY <1>5, <2>1 DEF AtName
  <2>3. CbHeaderField(at)
    BY <1>1, <1>4, <2>2
  <2>4. /\ UNCHANGED <<pc, stdout, body, unwritten, bytes, do_pipe_this_message, url>>
        /\ IF Resembles(ContentLength, at)
           THEN content_length_at' = Position(at) /\ last_field_was_content_type' = FALSE
           ELSE /\ last_field_was_content_type' = Resembles(ContentType, at)
                /\ UNCHANGED content_length_at
        /\ headers' = headers \o at \o Colon
    BY <2>3 DEF CbHeaderField
  <2>5. AtValue(m, j)'
    BY <1>3, <2>1, <2>2, <2>4, NameKept
  <2>6. j \in 0 .. Len(Fields(m)') - 1
    BY <1>3, SameInput
  <2> QED
    BY <1>3, <2>4, <2>5, <2>6 DEF Copying
<1>10. CASE \E m \in 0 .. Len(input.messages) - 1 :
              \E j \in 0 .. Len(Fields(m)) - 1 : AtItsValue(m, j)
  <2> PICK m \in 0 .. Len(input.messages) - 1 :
        \E j \in 0 .. Len(Fields(m)) - 1 : AtItsValue(m, j)
    BY <1>10
  <2>1. PICK j \in 0 .. Len(Fields(m)) - 1 : AtItsValue(m, j)
    OBVIOUS
  <2>2. /\ cb = "header_value" /\ at = Fields(m)[j + 1].value
        /\ todo' = HeadCalls(input.messages, m, j + 1)
    BY <1>5, <2>1 DEF AtItsValue
  <2>3. CbHeaderValue(at)
    BY <1>1, <1>4, <2>2
  <2>4. /\ UNCHANGED <<pc, stdout, body, unwritten, bytes, content_length_at, url>>
        /\ headers' = headers \o at \o Crlf
        /\ do_pipe_this_message' =
             IF last_field_was_content_type /\ HasPattern THEN at \in Matching
                                                          ELSE do_pipe_this_message
    BY <2>3 DEF CbHeaderValue
  <2>5. InHead(m, j + 1)'
    BY <1>3, <2>1, <2>2, <2>4, ValueKept
  <2>6. j + 1 \in 0 .. Len(Fields(m)')
    BY <1>3, FieldAt, SameInput
  <2> QED
    BY <1>3, <2>4, <2>5, <2>6 DEF Copying
<1>11. CASE \E m \in 0 .. Len(input.messages) - 1 : AtEndOfHead(m)
  <2>1. PICK m \in 0 .. Len(input.messages) - 1 : AtEndOfHead(m)
    BY <1>11
  <2>2. cb = "headers_complete" /\ todo' = BodyCalls(input.messages, m, 0)
    BY <1>5, <2>1 DEF AtEndOfHead
  <2>3. CbHeadersComplete
    BY <1>1, <1>4, <2>2
  <2>4. /\ UNCHANGED <<pc, stdout, body, unwritten, bytes, flags>>
        /\ status_line' = StartLine(url) /\ headers' = headers \o Blank
    BY <2>3 DEF CbHeadersComplete
  <2>5. InPipedBody(m, 0)' \/ InCopiedBody(m, 0)'
    BY <1>3, <2>1, <2>2, <2>4, HeadKept
  <2>6. 0 \in 0 .. Len(Current(m)'.body)
    BY <1>3, MessageAt, SameInput
  <2> QED
    BY <1>3, <2>4, <2>5, <2>6 DEF Copying, Piping
<1>12. CASE \E m \in 0 .. Len(input.messages) - 1 :
              \E j \in 0 .. Len(Current(m).body) - 1 : AtPiece(m, j)
  <2> PICK m \in 0 .. Len(input.messages) - 1 :
        \E j \in 0 .. Len(Current(m).body) - 1 : AtPiece(m, j)
    BY <1>12
  <2>1. PICK j \in 0 .. Len(Current(m).body) - 1 : AtPiece(m, j)
    OBVIOUS
  <2>2. /\ cb = "body" /\ at = Current(m).body[j + 1]
        /\ todo' = BodyCalls(input.messages, m, j + 1)
    BY <1>5, <2>1 DEF AtPiece
  <2>3. j + 1 \in 0 .. Len(Current(m)'.body)
    <3>1. Len(Current(m).body) \in Nat /\ Current(m)' = Current(m)
      BY <1>3, MessageAt, SameInput
    <3> QED
      BY <3>1
  <2>4. CASE CbBodyPiped(at)
    <3>1. do_pipe_this_message /\ UNCHANGED <<parsed, stdout, body, bytes>>
      BY <2>4 DEF CbBodyPiped
    <3>2. pc' = "aborted" \/ (pc' = "write" /\ unwritten' = at)
      BY <2>4 DEF CbBodyPiped
    <3>3. SUFFICES ASSUME pc' = "write", unwritten' = at PROVE Piping'
      BY <3>1, <3>2
    <3>4. InPipedBody(m, j + 1)'
      BY <1>3, <1>6, <2>1, <2>2, <3>1, <3>3, PipedPieceKept
    <3> QED
      BY <1>3, <2>3, <3>4 DEF Piping
  <2>5. CASE CbBodyCopied(at)
    <3>1. /\ ~do_pipe_this_message
          /\ UNCHANGED <<pc, flags, body, unwritten, bytes>>
          /\ headers' = <<>>
          /\ stdout' = stdout \o By("tool", (IF headers = <<>> THEN <<>>
                                             ELSE status_line \o headers) \o at)
      BY <2>5 DEF CbBodyCopied
    <3>2. CASE j = 0
      <4>0. j + 1 = 1
        BY <3>2
      <4>1. /\ 0 \in 0 .. Len(Current(m).body) - 1 /\ AtPiece(m, 0)
            /\ at = Current(m).body[1] /\ todo' = BodyCalls(input.messages, m, 1)
            /\ 1 \in 0 .. Len(Current(m)'.body)
        <5>1. at = Current(m).body[1] /\ todo' = BodyCalls(input.messages, m, 1)
          BY <2>2, <4>0
        <5>2. 1 \in 0 .. Len(Current(m)'.body)
          BY <2>3, <4>0
        <5>3. 0 \in 0 .. Len(Current(m).body) - 1 /\ AtPiece(m, 0)
          BY <2>1, <3>2
        <5> QED
          BY <5>1, <5>2, <5>3
      <4>2. InCopiedBody(m, 1)'
        BY <1>3, <3>1, <4>1, FirstPieceKept
      <4> QED
        BY <1>3, <3>1, <4>1, <4>2 DEF Copying
    <3>3. CASE j # 0
      <4>1. InCopiedBody(m, j + 1)'
        BY <1>3, <2>1, <2>2, <3>1, <3>3, LaterPieceKept
      <4> QED
        BY <1>3, <2>3, <3>1, <4>1 DEF Copying
    <3> QED
      BY <3>2, <3>3
  <2> QED
    BY <1>1, <1>4, <2>2, <2>4, <2>5
<1>13. CASE \E m \in 0 .. Len(input.messages) - 1 : AtEnd(m)
  <2>1. PICK m \in 0 .. Len(input.messages) - 1 : AtEnd(m)
    BY <1>13
  <2>2. cb = "message_complete" /\ todo' = MessageCalls(input.messages, m + 1)
    BY <1>5, <2>1 DEF AtEnd
  <2>3. CASE CbMessageCompleteCopied
    <3>1. /\ ~do_pipe_this_message /\ content_length_at' = -1
          /\ UNCHANGED <<pc, stdout, headers, body, unwritten, bytes>>
      BY <2>3 DEF CbMessageCompleteCopied
    <3>2. AtMessage(m + 1)'
      BY <1>3, <2>1, <2>2, <3>1, CopiedEndKept
    <3>3. m + 1 \in 0 .. Len(input'.messages)
      BY <1>3, MessageAt
    <3> QED
      BY <1>3, <3>1, <3>2, <3>3 DEF Between
  <2>4. CASE CbMessageCompletePiped
    <3>1. do_pipe_this_message /\ UNCHANGED <<parsed, stdout, body, unwritten, bytes>>
      BY <2>4 DEF CbMessageCompletePiped
    <3>2. pc' \in {"aborted", "drain"}
      BY <2>4 DEF CbMessageCompletePiped
    <3>3. Draining(m)'
      BY <1>3, <2>1, <2>2, <3>1, PipedEndKept
    <3> QED
      BY <1>3, <3>1, <3>2, <3>3 DEF Drains
  <2> QED
    BY <1>1, <1>4, <2>2, <2>3, <2>4
<1> QED
  BY <1>3, <1>7, <1>8, <1>9, <1>10, <1>11, <1>12, <1>13, WhereItIs

-----------------------------------------------------------------------------
LEMMA CommandStarts == Init => CommandInv
BY DEF Init, Ph!Init, CommandInv

\* A command leaves nothing behind that the tool does not read.
THEOREM CommandInvariant == Spec => []CommandInv
<1>1. Ph!IInv /\ Control /\ CommandInv /\ [Next]_vars => CommandInv'
  BY CommandInvKept
<1> QED
  BY <1>1, CommandStarts, HandleInvariant, ControlInvariant, PTL DEF Spec

\* At the start the tool is before the first message.
LEMMA OrderStarts == Init => OrderInv
<1> SUFFICES ASSUME Init PROVE OrderInv
  OBVIOUS
<1>1. TypeOK
  BY TypesStart
<1>2. /\ todo = Stream(input.messages) /\ headers = <<>> /\ stdout = <<>>
      /\ body = <<>> /\ unwritten = <<>> /\ in_pipe = <<>> /\ taken = <<>>
      /\ out_pipe = <<>> /\ content_length_at = -1 /\ do_pipe_this_message
      /\ pc = "start"
  BY DEF Init
<1>3. input.messages \in Seq(Messages) /\ Len(input.messages) \in Nat
  <2>1. input.messages \in Seq(Messages)
    BY <1>1, InputAssumption DEF TypeOK
  <2> QED
    BY <2>1
<1>4. Rest(input.messages, 0) = input.messages
  <2>1. HasRests(Messages, Seq(Messages))
    BY Rests, Zenon
  <2> QED
    BY <1>3, <2>1, Zenon DEF HasRests
<1>5. <<>> \o Expected = Expected
  <2>1. Expected \in W
    BY <1>3, DueFrom
  <2> QED
    BY <2>1, WrittenLaws, Zenon DEF Laws
<1>6. PrintedTo(0)
  BY <1>2, <1>4, <1>5 DEF PrintedTo, Expected
<1>7. AtMessage(0)
  BY <1>2, <1>4, <1>6 DEF AtMessage, NothingComes, MessageCalls
<1>8. Between
  <2>1. 0 \in 0 .. Len(input.messages)
    BY <1>3
  <2> QED
    BY <1>7, <2>1 DEF Between
<1> QED
  BY <1>1, <1>2, <1>8, PlaceIsPrefix DEF OrderInv

\* An input that was read to its end has been printed.
LEMMA AllPrinted ==
  ASSUME TypeOK, AllRegular, Between \/ Copying \/ Piping, todo = <<>>
  PROVE  stdout = Expected
<1>1. input.messages \in Seq(Messages) /\ stdout \in W /\ PlainMessages(input.messages)
  BY InputAssumption DEF TypeOK, W, AllRegular
<1>2. AtMessage(Len(input.messages))
  <2>1. ~\E m \in 0 .. Len(input.messages) - 1 :
          \/ AtStart(m) \/ AtEndOfHead(m) \/ AtEnd(m)
          \/ \E j \in 0 .. Len(Fields(m)) - 1 : AtName(m, j) \/ AtItsValue(m, j)
          \/ \E j \in 0 .. Len(Current(m).body) - 1 : AtPiece(m, j)
    BY DEF AtStart, AtEndOfHead, AtEnd, AtName, AtItsValue, AtPiece, First
  <2> QED
    BY <1>1, <2>1, WhereItIs
<1>3. stdout \o <<>> = Expected
  BY <1>1, <1>2, DueFrom DEF AtMessage, PrintedTo
<1> QED
  BY <1>1, <1>3, WrittenLaws, Zenon DEF Laws

LEMMA NothingToTake ==
  ASSUME Between \/ Copying
  PROVE  NothingComes
BY DEF Between, Copying, AtMessage, InHead, AtValue, InCopiedBody

\* The invariant by what the tool is at.
LEMMA OrderKeptAt ==
  ASSUME TypeOK', UNCHANGED input,
         /\ pc' \in {"start", "open"} => Between'
         /\ pc' = "parse" => Between' \/ Copying' \/ Piping'
         /\ pc' = "write" => Piping'
         /\ pc' \in {"drain", "flush"} => Drains'
         /\ pc' = "flush" => out_pipe' = <<>> /\ taken' = <<>> /\ in_pipe' = <<>>
         /\ pc' = "reset" => Between'
         /\ pc' \in {"delete", "exit"} /\ todo' = <<>> => stdout' = Expected,
         \/ IsPrefix(stdout, Expected) /\ UNCHANGED stdout
         \/ Between' \/ Copying' \/ Piping' \/ Drains'
  PROVE  OrderInv'
<1>1. Expected' = Expected
  BY SameDue
<1>2. IsPrefix(stdout', Expected')
  <2>1. (TypeOK /\ (Between \/ Copying \/ Piping \/ Drains) => IsPrefix(stdout, Expected))'
    BY PlaceIsPrefix, PTL
  <2> QED
    BY <1>1, <2>1
<1> QED
  BY <1>1, <1>2 DEF OrderInv, Drains

\* Every step keeps the order: a callback moves the tool on, a step between
\* two callbacks leaves it where it is.
LEMMA OrderKept ==
  ASSUME WholeTexts, Ph!IInv, Control, CommandInv, TypeOK, TypeOK', OrderInv, [Next]_vars
  PROVE  OrderInv'
<1>1. UNCHANGED input /\ mishaps \subseteq mishaps'
  BY HistoryKept
<1>2. AllRegular' = AllRegular
  BY <1>1, SameInput
<1> SUFFICES ASSUME AllRegular, mishaps' = {} PROVE OrderInv'
  BY <1>2 DEF OrderInv
<1>3. /\ pc \in {"start", "open"} => Between
      /\ pc = "parse" => Between \/ Copying \/ Piping
      /\ pc = "write" => Piping
      /\ pc \in {"drain", "flush"} => Drains
      /\ pc = "flush" => out_pipe = <<>> /\ taken = <<>> /\ in_pipe = <<>>
      /\ pc = "reset" => Between
      /\ pc \in {"delete", "exit"} /\ todo = <<>> => stdout = Expected
      /\ IsPrefix(stdout, Expected)
  BY <1>1 DEF OrderInv, Drains
<1>4. Drains => \E m \in 0 .. Len(input.messages) - 1 : Draining(m)
  BY DEF Drains
<1>5. ASSUME UNCHANGED <<pc, todo, stdout, parsed, body, unwritten, bytes>>
      PROVE  OrderInv'
  <2>1. Between => Between'
    <3>1. ASSUME Between, pc' # "reset" PROVE content_length_at' = -1
      BY <1>5, <3>1 DEF Between, AtMessage, parsed, flags
    <3> QED
      BY <1>1, <1>5, <3>1, BetweenStays DEF parsed, flags
  <2>2. Copying => Copying'
    BY <1>1, <1>5, CopyingStays
  <2>3. Coming' = Coming
    BY <1>5 DEF Coming, Filter, bytes
  <2>4. Piping => Piping'
    BY <1>1, <1>5, <2>3, PipingStays
  <2>5. Drains => Drains'
    BY <1>1, <1>4, <1>5, <2>3, DrainingStays DEF Drains
  <2> QED
    BY <1>1, <1>3, <1>5, <2>1, <2>2, <2>4, <2>5, OrderKeptAt DEF bytes
\* What passes the command's bytes on happens only while there are some.
<1>6. ASSUME UNCHANGED <<todo, stdout, parsed>>, Coming' = Coming, ~NothingComes,
             \/ UNCHANGED pc /\ pc # "flush"
             \/ pc = "write" /\ pc' = "parse"
      PROVE  OrderInv'
  <2>1. ~Between /\ ~Copying
    BY <1>6, NothingToTake
  <2>2. Piping => Piping'
    BY <1>1, <1>6, PipingStays
  <2>3. Drains => Drains'
    BY <1>1, <1>4, <1>6, DrainingStays DEF Drains
  <2> QED
    BY <1>1, <1>3, <1>6, <2>1, <2>2, <2>3, OrderKeptAt
<1>7. CASE UlogInit
  <2>1. pc = "start" /\ pc' = "open"
        /\ UNCHANGED <<todo, stdout, parsed, body, unwritten, bytes>>
    BY <1>7 DEF UlogInit
  <2>2. Between'
    <3>1. Between => content_length_at = -1
      BY <2>1 DEF Between, AtMessage
    <3> QED
      BY <1>1, <1>3, <2>1, <3>1, BetweenStays DEF parsed, flags
  <2> QED
    BY <1>1, <2>1, <2>2, OrderKeptAt
<1>8. CASE Open
  <2>1. /\ pc = "open" /\ pc' \in {"parse", "exit"}
        /\ UNCHANGED <<todo, stdout, parsed, body, unwritten, bytes>>
    BY <1>8 DEF Open
  <2>2. Between'
    <3>1. Between => content_length_at = -1
      BY <2>1 DEF Between, AtMessage
    <3> QED
      BY <1>1, <1>3, <2>1, <3>1, BetweenStays DEF parsed, flags
  <2>3. todo = <<>> => stdout = Expected
    BY <1>3, <2>1, AllPrinted
  <2> QED
    BY <1>1, <2>1, <2>2, <2>3, OrderKeptAt
<1>9. CASE \/ \E at \in Texts : \/ CbUrl(at) \/ CbStatusComplete(at)
                                \/ CbHeaderField(at) \/ CbHeaderValue(at)
                                \/ CbBodyPiped(at) \/ CbBodyCopied(at)
           \/ CbHeadersComplete \/ CbMessageCompleteCopied \/ CbMessageCompletePiped
  <2>1. pc = "parse"
    BY <1>9 DEF CbUrl, CbStatusComplete, CbHeaderField, CbHeaderValue, CbBodyPiped,
       CbBodyCopied, CbHeadersComplete, CbMessageCompleteCopied, CbMessageCompletePiped,
       Calls
  <2>2. \/ pc' = "aborted" /\ UNCHANGED stdout
        \/ pc' = "parse" /\ (Between' \/ Copying' \/ Piping')
        \/ pc' = "write" /\ Piping'
        \/ pc' = "drain" /\ Drains'
    BY <1>3, <1>9, <2>1, CallbackMovesOn
  <2> QED
    BY <1>1, <1>3, <2>2, OrderKeptAt
<1>10. CASE WriteAll
  <2>1. pc = "write" /\ pc' \in {"write", "parse", "killed"}
        /\ UNCHANGED <<todo, parsed, stdout>>
    BY <1>10 DEF WriteAll
  <2>2. CASE pc' = "killed"
    BY <1>1, <1>3, <2>1, <2>2, OrderKeptAt
  <2>3. CASE pc' # "killed"
    <3>1. Piping'
      BY <1>1, <1>3, <1>10, <2>1, <2>3, WriteAllPasses, PipingStays
    <3> QED
      BY <1>1, <2>1, <2>3, <3>1, OrderKeptAt
  <2> QED
    BY <2>2, <2>3
<1>11. CASE DrainRead
  <2>1. pc = "drain" /\ UNCHANGED <<pc, todo, parsed, stdout>> /\ out_pipe # <<>>
    BY <1>11 DEF DrainRead
  <2>2. ~NothingComes
    BY <2>1 DEF NothingComes
  <2> QED
    BY <1>6, <1>11, <2>1, <2>2, DrainReadPasses
<1>12. CASE DrainEnd
  <2>1. /\ pc = "drain" /\ pc' = "flush" /\ out_pipe = <<>> /\ Ph!ReadEof
        /\ UNCHANGED <<todo, stdout, parsed, body, unwritten, bytes>>
    BY <1>12 DEF DrainEnd
  <2>2. state = "PIPES_WIDOWED"
    BY <2>1 DEF Control
  <2>3. in_pipe = <<>> /\ taken = <<>>
    BY <2>1, <2>2, EndOfOutput
  <2>4. Coming' = Coming
    BY <2>1 DEF Coming, Filter, bytes
  <2>5. Drains'
    BY <1>1, <1>3, <1>4, <2>1, <2>4, DrainingStays DEF Drains
  <2> QED
    BY <1>1, <2>1, <2>3, <2>5, OrderKeptAt DEF bytes
<1>13. CASE DrainFails \/ Breaks \/ CommandQuits
  BY <1>1, <1>13 DEF DrainFails, Breaks, CommandQuits
<1>14. CASE Flush
  <2>1. pc = "flush" /\ pc' = "reset"
    BY <1>14 DEF Flush
  <2>2. PICK m \in 0 .. Len(input.messages) - 1 : Draining(m)
    BY <1>3, <1>4, <2>1
  <2>3. AtMessage(m + 1)'
    BY <1>3, <1>14, <2>1, <2>2, FlushKept
  <2>4. Between'
    <3>1. m + 1 \in 0 .. Len(input'.messages)
      BY <1>1, MessageAt
    <3> QED
      BY <2>3, <3>1 DEF Between
  <2> QED
    BY <1>1, <2>1, <2>4, OrderKeptAt
<1>15. CASE ResetReturns
  <2>1. /\ pc = "reset" /\ pc' = "parse" /\ content_length_at' = -1
        /\ UNCHANGED <<todo, do_pipe_this_message, headers, body, unwritten, bytes, stdout>>
    BY <1>15 DEF ResetReturns
  <2>2. Between'
    BY <1>1, <1>3, <2>1, BetweenStays
  <2> QED
    BY <1>1, <2>1, <2>2, OrderKeptAt
<1>16. CASE Eof \/ InputFails
  <2>1. /\ pc = "parse" /\ pc' = "delete"
        /\ UNCHANGED <<todo, parsed, body, unwritten, bytes, stdout>>
    BY <1>16 DEF Eof, InputFails
  <2>2. todo = <<>> => stdout = Expected
    BY <1>3, <2>1, AllPrinted
  <2> QED
    BY <1>1, <1>3, <2>1, <2>2, OrderKeptAt
<1>17. CASE Delete
  <2>1. /\ pc = "delete" /\ pc' \in {"delete", "exit"} /\ UNCHANGED <<todo, stdout>>
    BY <1>17 DEF Delete
  <2> QED
    BY <1>1, <1>3, <2>1, OrderKeptAt
<1>18. CASE WaitsOrReopens
  <2>1. /\ UNCHANGED <<pc, todo, parsed, body, unwritten, in_pipe, taken, stdout>>
        /\ out_pipe' = <<>>
    BY <1>18 DEF WaitsOrReopens
  <2>2. call \notin {"none", "freed"}
    BY <1>18 DEF WaitsOrReopens, Ph!Waitpid, Ph!Waiting
  <2>3. pc \in {"reset", "delete"}
    BY <2>2 DEF Control, TypeOK
  <2>4. CASE pc = "reset"
    <3>1. Between /\ NothingComes
      BY <1>3, <2>4, NothingToTake
    <3>2. UNCHANGED <<pc, todo, stdout, parsed, body, unwritten, bytes>>
      BY <2>1, <3>1 DEF NothingComes, bytes
    <3> QED
      BY <1>5, <3>2
  <2>5. CASE pc = "delete"
    BY <1>1, <1>3, <2>1, <2>5, OrderKeptAt
  <2> QED
    BY <2>3, <2>4, <2>5
<1>19. CASE CommandSetUp \/ CommandBlocks \/ CommandEnds
  BY <1>5, <1>19 DEF CommandSetUp, CommandBlocks, CommandEnds, rest
<1>20. CASE CommandTakes
  <2>1. /\ in_pipe # <<>> /\ UNCHANGED <<pc, todo, parsed, stdout>>
    BY <1>20 DEF CommandTakes, rest
  <2>2. ~NothingComes /\ pc # "flush"
    BY <1>3, <2>1 DEF NothingComes
  <2> QED
    BY <1>6, <1>20, <2>1, <2>2, CommandTakesPasses
<1>21. CASE CommandPrints
  <2>1. UNCHANGED <<pc, todo, parsed, stdout>>
    BY <1>21 DEF CommandPrints, rest
  <2>2. Coming' = Coming /\ taken # <<>>
    BY <1>21, CommandPrintsPasses
  <2>3. ~NothingComes /\ pc # "flush"
    BY <1>3, <2>2 DEF NothingComes
  <2> QED
    BY <1>6, <2>1, <2>2, <2>3
<1>22. CASE CommandKilled
  <2>1. /\ taken # <<>> /\ UNCHANGED <<pc, todo, stdout>>
    BY <1>22 DEF CommandKilled, rest
  <2>2. call # "none"
    BY <1>22, KilledBehindClose
  <2>3. pc \in {"reset", "delete", "exit"}
    BY <2>2 DEF Control, TypeOK
  <2>4. pc # "reset"
    BY <1>3, <2>1, NothingToTake DEF NothingComes
  <2> QED
    BY <1>1, <1>3, <2>1, <2>3, <2>4, OrderKeptAt
<1>23. CASE UNCHANGED vars
  BY <1>5, <1>23 DEF vars
<1> QED
  BY <1>7, <1>8, <1>9, <1>10, <1>11, <1>12, <1>13, <1>14, <1>15, <1>16, <1>17, <1>18,
     <1>19, <1>20, <1>21, <1>22, <1>23 DEF Next, Tool, Command, Done

\* As long as texts are whole, messages regular and nothing mishaps: the tool
\* is at a place in the input at which what it has printed, holds, has given
\* to the command and is still to be given make what is expected.
THEOREM OrderInvariant == WholeTexts => (Spec => []OrderInv)
<1> SUFFICES ASSUME WholeTexts PROVE Spec => []OrderInv
  OBVIOUS
<1>1. /\ Ph!IInv /\ Control /\ CommandInv /\ TypeOK /\ TypeOK' /\ OrderInv /\ [Next]_vars
      => OrderInv'
  BY OrderKept
<1> QED
  BY <1>1, OrderStarts, HandleInvariant, ControlInvariant, CommandInvariant, TypeCorrect,
     PTL DEF Spec

\* As long as texts are whole, messages regular and commands read to the end
\* of their input: stdout has the messages in order, piped ones with what the
\* command made of their body and with its length.
THEOREM InOrder == WholeTexts => (Spec => []OutputInOrder)
<1> SUFFICES ASSUME WholeTexts PROVE Spec => []OutputInOrder
  OBVIOUS
<1>1. OrderInv => OutputInOrder
  BY DEF OrderInv, OutputInOrder
<1> QED
  BY <1>1, OrderInvariant, PTL

\* Under the same conditions an input that was read to its end has been
\* printed completely when the tool exits.
THEOREM ExitIsPrinted == WholeTexts => (Spec => []ExitMeansPrinted)
<1> SUFFICES ASSUME WholeTexts PROVE Spec => []ExitMeansPrinted
  OBVIOUS
<1>1. OrderInv => ExitMeansPrinted
  BY DEF OrderInv, ExitMeansPrinted
<1> QED
  BY <1>1, OrderInvariant, PTL
-----------------------------------------------------------------------------
(***************************************************************************)
(* The lengths.  Fed is about what the command makes, Measured about what  *)
(* is to be read, what is held and what is printed.                        *)
(***************************************************************************)
\* Callbacks: what goes on does so wherever the same callbacks are.
Calling == Seq(CallbacksWithText)

Alike(s, i, t, d) ==
  \A j \in i .. Len(s) :
    /\ j + d \in 1 .. Len(t)
    /\ t[j + d].cb = s[j].cb
    /\ Plain(s[j]) => Plain(t[j + d])

LEMMA GoesOnElsewhere ==
  ASSUME NEW s \in Calling, NEW t \in Calling, NEW d \in Int, NEW i \in Nat,
         Alike(s, i, t, d)
  PROVE  /\ BodyGoesOn(s, i) => BodyGoesOn(t, i + d)
         /\ HeadGoesOn(s, i) => HeadGoesOn(t, i + d)
<1>0. Len(s) \in Nat /\ Len(t) \in Nat
  BY LengthIsNat, Zenon DEF Calling
<1> USE DEF Alike
<1>1. ASSUME NEW m \in i .. Len(s) + 1, BodyGoesOn(s, m)
      PROVE  BodyGoesOn(t, m + d)
  <2>1. PICK k \in m .. Len(s) : /\ s[k].cb = "message_complete"
                                 /\ \A j \in m .. k - 1 : s[j].cb = "body"
    BY <1>1 DEF BodyGoesOn
  <2>2. k + d \in m + d .. Len(t) /\ t[k + d].cb = "message_complete"
    BY <1>0, <2>1
  <2>3. ASSUME NEW j \in m + d .. k + d - 1 PROVE t[j].cb = "body"
    <3>1. j - d \in m .. k - 1 /\ j - d \in i .. Len(s) /\ (j - d) + d = j
      BY <1>0
    <3> QED
      BY <2>1, <3>1
  <2> QED
    BY <2>2, <2>3 DEF BodyGoesOn
<1>2. BodyGoesOn(s, i) => BodyGoesOn(t, i + d)
  <2>1. BodyGoesOn(s, i) => i \in i .. Len(s) + 1
    BY <1>0 DEF BodyGoesOn
  <2> QED
    BY <1>1, <2>1
<1>3. ASSUME HeadGoesOn(s, i) PROVE HeadGoesOn(t, i + d)
  <2>1. PICK h \in i .. Len(s) :
          /\ s[h].cb = "headers_complete"
          /\ \A j \in i .. h - 1 :
               s[j].cb \in {"header_field", "header_value"} /\ Plain(s[j])
          /\ BodyGoesOn(s, h + 1)
    BY <1>3 DEF HeadGoesOn
  <2>2. h + d \in i + d .. Len(t) /\ t[h + d].cb = "headers_complete"
    BY <1>0, <2>1
  <2>3. ASSUME NEW j \in i + d .. h + d - 1
        PROVE  t[j].cb \in {"header_field", "header_value"} /\ Plain(t[j])
    <3>1. j - d \in i .. h - 1 /\ j - d \in i .. Len(s) /\ (j - d) + d = j
      BY <1>0
    <3> QED
      BY <2>1, <3>1
  <2>4. BodyGoesOn(t, h + d + 1)
    <3>1. h + 1 \in i .. Len(s) + 1 /\ h + 1 + d = h + d + 1
      BY <1>0
    <3> QED
      BY <1>1, <2>1, <3>1
  <2> QED
    BY <2>2, <2>3, <2>4 DEF HeadGoesOn
<1> QED
  BY <1>2, <1>3

\* A sequence in two parts, index by index.
LEMMA ConcatIs ==
  ASSUME NEW S, NEW a \in Seq(S), NEW b \in Seq(S)
  PROVE  /\ a \o b \in Seq(S) /\ Len(a \o b) = Len(a) + Len(b)
         /\ Len(a) \in Nat /\ Len(b) \in Nat
         /\ DOMAIN a = 1 .. Len(a) /\ DOMAIN b = 1 .. Len(b)
         /\ DOMAIN (a \o b) = 1 .. Len(a) + Len(b)
         /\ \A i \in 1 .. Len(a) : (a \o b)[i] = a[i] /\ a[i] \in S
         /\ \A i \in 1 .. Len(b) : (a \o b)[Len(a) + i] = b[i] /\ b[i] \in S
         /\ \A i \in Len(a) + 1 .. Len(a) + Len(b) :
              (a \o b)[i] = b[i - Len(a)]
OBVIOUS

LEMMA InOnePart ==
  ASSUME NEW S, NEW a \in Seq(S), NEW b \in Seq(S), NEW c, c = a \o b,
         NEW n, n = Len(a), NEW m, m = n + Len(b)
  PROVE  /\ c \in Seq(S) /\ Len(c) = m /\ DOMAIN c = 1 .. m
         /\ \A i \in 1 .. n : c[i] = a[i]
         /\ \A i \in n + 1 .. m : c[i] = b[i - n]
BY ConcatIs

LEMMA ElementIn ==
  ASSUME NEW S, NEW s \in Seq(S), NEW k \in DOMAIN s
  PROVE  s[k] \in S
OBVIOUS

\* What LengthInv says of the callbacks to come, for whole messages.
Framed(calls) ==
  /\ LengthsAhead(calls)
  /\ HeadsFirst(calls)
  /\ \A i \in DOMAIN calls : calls[i].cb = "body" =>
       i > 1 /\ calls[i - 1].cb \in {"headers_complete", "body"}

LEMMA FramedNothing == Framed(<<>>)
<1>1. DOMAIN <<>> = {}
  OBVIOUS
<1> QED
  BY <1>1 DEF Framed, LengthsAhead, HeadsFirst

LEMMA FramedConcat ==
  ASSUME NEW a \in Calling, NEW b \in Calling, Framed(a), Framed(b)
  PROVE  Framed(a \o b)
<1> DEFINE c == a \o b
<1>1. /\ c \in Calling /\ Len(c) = Len(a) + Len(b)
      /\ Len(a) \in Nat /\ Len(b) \in Nat
      /\ DOMAIN a = 1 .. Len(a) /\ DOMAIN b = 1 .. Len(b)
      /\ DOMAIN c = 1 .. Len(a) + Len(b)
      /\ \A i \in 1 .. Len(a) : c[i] = a[i]
      /\ \A i \in 1 .. Len(b) : c[Len(a) + i] = b[i]
  BY ConcatIs DEF Calling
<1> HIDE DEF c
<1>2. ASSUME NEW i \in 1 .. Len(c)
      PROVE  i \in 1 .. Len(a) \/ \E k \in 1 .. Len(b) : i = Len(a) + k
  <2>1. i > Len(a) => i - Len(a) \in 1 .. Len(b) /\ i = Len(a) + (i - Len(a))
    BY <1>1
  <2>2. i \in 1 .. Len(a) \/ i > Len(a)
    BY <1>1
  <2> QED
    BY <2>1, <2>2, Zenon
<1>3. ASSUME NEW i \in DOMAIN c, c[i].cb = "header_field",
             WholeTexts => Resembles(ContentLength, c[i].at)
      PROVE  HeadGoesOn(c, i)
  <2>1. CASE i \in 1 .. Len(a)
    <3>1. HeadGoesOn(a, i)
      BY <1>1, <1>3, <2>1 DEF Framed, LengthsAhead
    <3>2. Alike(a, i, c, 0)
      BY <1>1, <2>1 DEF Alike
    <3>3. c \in Calling /\ 0 \in Int /\ i \in Nat /\ i + 0 = i
      BY <1>1, <2>1
    <3> QED
      BY <3>1, <3>2, <3>3, GoesOnElsewhere, Zenon
  <2>2. ASSUME NEW k \in 1 .. Len(b), i = Len(a) + k PROVE HeadGoesOn(c, i)
    <3>1. HeadGoesOn(b, k)
      BY <1>1, <1>3, <2>2 DEF Framed, LengthsAhead
    <3>2. Alike(b, k, c, Len(a))
      <4>1. ASSUME NEW j \in k .. Len(b)
            PROVE  j \in 1 .. Len(b) /\ j + Len(a) = Len(a) + j
                   /\ j + Len(a) \in 1 .. Len(c)
        BY <1>1
      <4> QED
        BY <1>1, <4>1 DEF Alike
    <3>3. c \in Calling /\ Len(a) \in Int /\ k \in Nat /\ k + Len(a) = i
      BY <1>1, <2>2
    <3> QED
      BY <3>1, <3>2, <3>3, GoesOnElsewhere, Zenon
  <2>3. i \in 1 .. Len(c)
    BY <1>1
  <2> QED
    BY <1>2, <2>1, <2>2, <2>3, Zenon
<1>4. ASSUME NEW i \in DOMAIN c, c[i].cb \in {"body", "message_complete"}
      PROVE  \E h \in 1 .. i - 1 : c[h].cb = "headers_complete"
  <2>1. CASE i \in 1 .. Len(a)
    <3>1. PICK h \in 1 .. i - 1 : a[h].cb = "headers_complete"
      BY <1>1, <1>4, <2>1 DEF Framed, HeadsFirst
    <3>2. h \in 1 .. Len(a)
      BY <1>1, <2>1
    <3> QED
      BY <1>1, <3>1, <3>2
  <2>2. ASSUME NEW k \in 1 .. Len(b), i = Len(a) + k
        PROVE  \E h \in 1 .. i - 1 : c[h].cb = "headers_complete"
    <3>1. PICK h \in 1 .. k - 1 : b[h].cb = "headers_complete"
      BY <1>1, <1>4, <2>2 DEF Framed, HeadsFirst
    <3>2. h \in 1 .. Len(b) /\ Len(a) + h \in 1 .. i - 1
      BY <1>1, <2>2
    <3> QED
      BY <1>1, <3>1, <3>2
  <2>3. i \in 1 .. Len(c)
    BY <1>1
  <2> QED
    BY <1>2, <2>1, <2>2, <2>3, Zenon
<1>5. ASSUME NEW i \in DOMAIN c, c[i].cb = "body"
      PROVE  i > 1 /\ c[i - 1].cb \in {"headers_complete", "body"}
  <2>1. CASE i \in 1 .. Len(a)
    <3>1. i > 1 /\ a[i - 1].cb \in {"headers_complete", "body"}
      BY <1>1, <1>5, <2>1 DEF Framed
    <3>2. i - 1 \in 1 .. Len(a)
      BY <1>1, <2>1, <3>1
    <3> QED
      BY <1>1, <3>1, <3>2
  <2>2. ASSUME NEW k \in 1 .. Len(b), i = Len(a) + k
        PROVE  i > 1 /\ c[i - 1].cb \in {"headers_complete", "body"}
    <3>1. k > 1 /\ b[k - 1].cb \in {"headers_complete", "body"}
      BY <1>1, <1>5, <2>2 DEF Framed
    <3>2. k - 1 \in 1 .. Len(b) /\ Len(a) + (k - 1) = i - 1 /\ i > 1
      BY <1>1, <2>2, <3>1
    <3> QED
      BY <1>1, <3>1, <3>2
  <2>3. i \in 1 .. Len(c)
    BY <1>1
  <2> QED
    BY <1>2, <2>1, <2>2, <2>3, Zenon
<1>6. LengthsAhead(c) /\ HeadsFirst(c)
  BY <1>3, <1>4 DEF LengthsAhead, HeadsFirst
<1> QED
  BY <1>5, <1>6 DEF Framed, c

LEMMA FieldCallbacksAre ==
  ASSUME NEW S, NEW fields \in FieldLines,
         \A k \in DOMAIN fields : Name(fields[k]) \in S /\ Value(fields[k]) \in S
  PROVE  FieldCallbacks(fields) \in Seq(S)
<1> DEFINE pairs == [i \in DOMAIN fields |-> <<Name(fields[i]), Value(fields[i])>>]
<1>1. DOMAIN fields = 1 .. Len(fields) /\ Len(fields) \in Nat
  BY DEF FieldLines
<1>2. \A i \in 1 .. Len(fields) : <<Name(fields[i]), Value(fields[i])>> \in Seq(S)
  BY <1>1, TwoSeq
<1>3. pairs \in Seq(Seq(S))
  BY <1>1, <1>2
<1> QED
  BY <1>3, FlattenType DEF FieldCallbacks

\* The callbacks of one message: those of its start and of its head, the end
\* of the head, those of its body and of its trailing fields, and the end.
LEMMA FramedMessage ==
  ASSUME NEW message \in Messages, LengthInHead(message)
  PROVE  Framed(CallbacksOf(message))
<1> DEFINE C == CallbacksWithText
           trailing == message.trailers # <<>>
           Heads == {x \in C : /\ x.cb \in {"header_field", "header_value"}
                               /\ Plain(x)
                               /\ trailing /\ x.cb = "header_field" =>
                                    WholeTexts /\ ~Resembles(ContentLength, x.at)}
           start == StartCallbacks(message)
           head == FieldCallbacks(message.fields)
           body_of == BodyCallbacks(message.body)
           tail == FieldCallbacks(message.trailers)
           p == Len(start)
           n == Len(start) + Len(head)
           m == Len(start) + Len(head) + 1 + Len(body_of)
           l == Len(start) + Len(head) + 1 + Len(body_of) + Len(tail) + 1
           c == CallbacksOf(message)
<1>1. /\ message.url \in Text /\ message.fields \in FieldLines
      /\ message.body \in Seq(Text) /\ message.trailers \in FieldLines
  BY DEF Messages
<1>2. ASSUME NEW fields \in {message.fields, message.trailers}
      PROVE  FieldCallbacks(fields) \in Seq(Heads) /\ FieldCallbacks(fields) \in Seq(C)
  <2>1. ASSUME NEW k \in DOMAIN fields
        PROVE  Name(fields[k]) \in Heads /\ Value(fields[k]) \in Heads
    <3>1. fields[k].name \in Text /\ fields[k].value \in Text
      <4>1. fields \in Seq([name : Text, value : Text])
        BY <1>1 DEF FieldLines
      <4>2. fields[k] \in [name : Text, value : Text]
        BY <4>1, ElementIn, Zenon
      <4> QED
        BY <4>2
    <3>2. /\ OneLine(fields[k].name) /\ OneLine(fields[k].value)
          /\ trailing => WholeTexts /\ ~Resembles(ContentLength, fields[k].name)
      BY DEF LengthInHead
    <3> QED
      BY <3>1, <3>2 DEF Name, Value, Callback, Plain, CallbacksWithText, Data
  <2> HIDE DEF Heads
  <2> QED
    BY <1>1, <2>1, FieldCallbacksAre, FieldCallbacksType
<1>3. /\ start \in Seq(C)
      /\ \A i \in 1 .. Len(start) : start[i].cb \in {"url", "status"}
  <2>1. ASSUME NEW cb \in {"url", "status"}
        PROVE  /\ <<Callback(cb, message.url)>> \in Seq(C)
               /\ Len(<<Callback(cb, message.url)>>) = 1
               /\ <<Callback(cb, message.url)>>[1].cb = cb
    BY <1>1 DEF Callback, CallbacksWithText, Data
  <2>2. <<>> \in Seq(C) /\ Len(<<>>) = 0
    BY NothingIsSeq
  <2>3. start \in {<<Callback("url", message.url)>>, <<Callback("status", message.url)>>, <<>>}
    BY DEF StartCallbacks, RequestLine, StatusLine
  <2> HIDE DEF start, C
  <2>4. ASSUME NEW cb \in {"url", "status"}, start = <<Callback(cb, message.url)>>
        PROVE  /\ start \in Seq(C)
               /\ \A i \in 1 .. Len(start) : start[i].cb \in {"url", "status"}
    BY <2>1, <2>4
  <2>5. ASSUME start = <<>>
        PROVE  /\ start \in Seq(C)
               /\ \A i \in 1 .. Len(start) : start[i].cb \in {"url", "status"}
    BY <2>2, <2>5
  <2> QED
    BY <2>3, <2>4, <2>5, Zenon
<1>4. /\ body_of \in Seq(C)
      /\ \A i \in 1 .. Len(body_of) : body_of[i].cb = "body"
  <2>1. body_of \in Seq(C)
    BY <1>1, BodyCallbacksType
  <2>2. Len(body_of) = Len(message.body)
    BY <1>1 DEF BodyCallbacks
  <2> QED
    BY <1>1, <2>1, <2>2 DEF BodyCallbacks, Callback
<1>5. /\ <<HeadersComplete>> \in Seq(C) /\ Len(<<HeadersComplete>>) = 1
      /\ <<HeadersComplete>>[1].cb = "headers_complete"
      /\ <<MessageComplete>> \in Seq(C) /\ Len(<<MessageComplete>>) = 1
      /\ <<MessageComplete>>[1].cb = "message_complete"
  BY DEF HeadersComplete, MessageComplete, Callback, CallbacksWithText, Text
<1>6. head \in Seq(C) /\ tail \in Seq(C) /\ head \in Seq(Heads) /\ tail \in Seq(Heads)
  BY <1>2
<1>7. /\ \A i \in 1 .. Len(head) : head[i] \in Heads
      /\ \A i \in 1 .. Len(tail) : tail[i] \in Heads
  BY <1>6, ElementOfSeq
<1>8. trailing \/ Len(tail) = 0
  <2>1. message.trailers = <<>> => tail = <<>>
    <3>1. DOMAIN <<>> = {} /\ [i \in {} |-> <<Name(<<>>[i]), Value(<<>>[i])>>] = <<>>
      OBVIOUS
    <3> QED
      BY <3>1, FlattenEmpty DEF FieldCallbacks
  <2>2. tail = <<>> => Len(tail) = 0
    BY NothingIsSeq
  <2> QED
    BY <2>1, <2>2, Zenon
<1> DEFINE hc == <<HeadersComplete>>
           mc == <<MessageComplete>>
           c2 == start \o head
           c3 == c2 \o hc
           c4 == c3 \o body_of
           c5 == c4 \o tail
<1> HIDE DEF C, Heads, start, head, body_of, tail, hc, mc, c, trailing
<1>a. /\ p \in Nat /\ p = Len(start) /\ Len(head) \in Nat /\ n = p + Len(head)
      /\ Len(body_of) \in Nat /\ m = n + 1 + Len(body_of)
      /\ Len(tail) \in Nat /\ l = m + Len(tail) + 1
  BY <1>3, <1>4, <1>6, LengthIsNat
<1> HIDE DEF p, n, m, l
<1>b. p \in Nat /\ n \in Nat /\ m \in Nat /\ l \in Nat /\ p <= n /\ n < m /\ m < l
  BY <1>a
<1>d. c2 = start \o head /\ c3 = c2 \o hc /\ c4 = c3 \o body_of /\ c5 = c4 \o tail
      /\ c = c5 \o mc
  BY DEF c, CallbacksOf, start, head, body_of, tail, hc, mc
<1> HIDE DEF c2, c3, c4, c5
<1>9. /\ c2 \in Seq(C) /\ Len(c2) = n /\ DOMAIN c2 = 1 .. n
      /\ \A i \in 1 .. p : c2[i] = start[i]
      /\ \A i \in p + 1 .. n : c2[i] = head[i - p]
  BY <1>3, <1>6, <1>a, <1>d, InOnePart
<1>10. /\ c3 \in Seq(C) /\ n + 1 = Len(c3)
       /\ \A i \in 1 .. n : c3[i] = c2[i]
       /\ c3[n + 1].cb = "headers_complete"
  <2>1. /\ hc \in Seq(C) /\ hc[1].cb = "headers_complete"
        /\ n = Len(c2) /\ n + 1 = n + Len(hc)
    BY <1>5, <1>9 DEF hc
  <2>2. /\ c3 \in Seq(C) /\ Len(c3) = n + 1 /\ DOMAIN c3 = 1 .. n + 1
        /\ \A i \in 1 .. n : c3[i] = c2[i]
        /\ \A i \in n + 1 .. n + 1 : c3[i] = hc[i - n]
    BY <1>9, <1>d, <2>1, InOnePart
  <2>3. n + 1 \in n + 1 .. n + 1 /\ (n + 1) - n = 1
    BY <1>b
  <2> QED
    BY <2>1, <2>2, <2>3, Zenon
<1>11. /\ c4 \in Seq(C) /\ m = Len(c4)
       /\ \A i \in 1 .. n + 1 : c4[i] = c3[i]
       /\ \A i \in n + 1 + 1 .. m : c4[i] = body_of[i - (n + 1)]
  <2> DEFINE k == n + 1
  <2>1. k = Len(c3) /\ m = k + Len(body_of)
    BY <1>a, <1>10
  <2> HIDE DEF k
  <2>2. /\ c4 \in Seq(C) /\ Len(c4) = m /\ DOMAIN c4 = 1 .. m
        /\ \A i \in 1 .. k : c4[i] = c3[i]
        /\ \A i \in k + 1 .. m : c4[i] = body_of[i - k]
    BY SMTT(20), <1>4, <1>d, <1>10, <2>1, InOnePart
  <2> QED
    BY <2>2, Zenon DEF k
<1>12. /\ c5 \in Seq(C) /\ Len(c5) = m + Len(tail) /\ DOMAIN c5 = 1 .. m + Len(tail)
       /\ \A i \in 1 .. m : c5[i] = c4[i]
       /\ \A i \in m + 1 .. m + Len(tail) : c5[i] = tail[i - m]
  BY SMTT(20), <1>6, <1>d, <1>11, InOnePart
<1>c. m + Len(tail) = l - 1 /\ n + 1 + 1 = n + 2
  BY <1>a, <1>b
<1>13. /\ c \in Seq(C) /\ DOMAIN c = 1 .. l /\ Len(c) = l
       /\ \A i \in 1 .. l - 1 : c[i] = c5[i]
       /\ c[l].cb = "message_complete"
  <2>1. /\ mc \in Seq(C) /\ mc[1].cb = "message_complete"
        /\ l - 1 = Len(c5) /\ l = (l - 1) + Len(mc)
    BY <1>5, <1>b, <1>c, <1>12 DEF mc
  <2> DEFINE k == l - 1
  <2>2. k = Len(c5) /\ l = k + Len(mc)
    BY <2>1
  <2>a. c5 \in Seq(C) /\ mc \in Seq(C) /\ c = c5 \o mc
    BY <1>12, <1>d, <2>1
  <2> HIDE DEF k
  <2>3. /\ c \in Seq(C) /\ Len(c) = l /\ DOMAIN c = 1 .. l
        /\ \A i \in 1 .. k : c[i] = c5[i]
        /\ \A i \in k + 1 .. l : c[i] = mc[i - k]
    BY <2>a, <2>2, InOnePart
  <2>4. l \in l - 1 + 1 .. l /\ l - (l - 1) = 1
    BY <1>b
  <2> QED
    BY <2>1, <2>3, <2>4, Zenon DEF k
<1>14. /\ \A i \in 1 .. p : c[i].cb \in {"url", "status"}
       /\ \A i \in p + 1 .. n : c[i] \in Heads
       /\ c[n + 1].cb = "headers_complete"
       /\ \A i \in n + 2 .. m : c[i].cb = "body"
       /\ \A i \in m + 1 .. l - 1 : c[i] \in Heads
       /\ c[l].cb = "message_complete"
  <2>1. ASSUME NEW i \in 1 .. p PROVE c[i].cb \in {"url", "status"}
    <3>1. i \in 1 .. n /\ i \in 1 .. n + 1 /\ i \in 1 .. m /\ i \in 1 .. l - 1
      BY <1>b
    <3>2. c[i] = start[i]
      BY <1>9, <1>10, <1>11, <1>12, <1>13, <3>1
    <3> QED
      BY <1>3, <1>a, <3>2
  <2>2. ASSUME NEW i \in p + 1 .. n PROVE c[i] \in Heads
    <3>1. i - p \in 1 .. Len(head)
          /\ i \in 1 .. n /\ i \in 1 .. n + 1 /\ i \in 1 .. m /\ i \in 1 .. l - 1
      BY <1>a, <1>b
    <3>2. c[i] = head[i - p]
      BY <1>9, <1>10, <1>11, <1>12, <1>13, <3>1
    <3> QED
      BY <1>7, <3>1, <3>2
  <2>3. c[n + 1].cb = "headers_complete"
    <3>1. n + 1 \in 1 .. n + 1 /\ n + 1 \in 1 .. m /\ n + 1 \in 1 .. l - 1
      BY <1>b
    <3> QED
      BY <1>10, <1>11, <1>12, <1>13, <3>1
  <2>4. ASSUME NEW i \in n + 2 .. m PROVE c[i].cb = "body"
    <3>1. i - (n + 1) \in 1 .. Len(body_of) /\ i \in 1 .. m /\ i \in 1 .. l - 1
      BY <1>a, <1>b
    <3>2. c[i] = body_of[i - (n + 1)]
      BY <1>c, <1>11, <1>12, <1>13, <3>1
    <3> QED
      BY <1>4, <3>1, <3>2
  <2>5. ASSUME NEW i \in m + 1 .. l - 1 PROVE c[i] \in Heads
    <3>1. i - m \in 1 .. Len(tail) /\ i \in 1 .. l - 1
      BY <1>a, <1>b
    <3>2. c[i] = tail[i - m]
      BY <1>c, <1>12, <1>13, <3>1
    <3> QED
      BY <1>7, <3>1, <3>2
  <2> QED
    BY <1>13, <2>1, <2>2, <2>3, <2>4, <2>5
<1>15. ~trailing => l = m + 1
  BY <1>8, <1>a
<1>16. ASSUME NEW x \in Heads
       PROVE  /\ x.cb \in {"header_field", "header_value"} /\ Plain(x)
              /\ trailing /\ x.cb = "header_field" =>
                   WholeTexts /\ ~Resembles(ContentLength, x.at)
  BY DEF Heads
<1>17. LengthsAhead(c)
  <2> SUFFICES ASSUME NEW i \in 1 .. l, c[i].cb = "header_field",
                      WholeTexts => Resembles(ContentLength, c[i].at)
               PROVE  HeadGoesOn(c, i)
    BY <1>13 DEF LengthsAhead
  <2>1. i \in p + 1 .. n \/ i \in m + 1 .. l - 1
    BY <1>b, <1>14
  <2>2. ~trailing
    <3>1. c[i] \in Heads
      BY <1>b, <1>14, <2>1
    <3> QED
      BY <1>16, <3>1
  <2>3. i \in p + 1 .. n
    BY <1>b, <1>14, <1>15, <2>1, <2>2
  <2>4. BodyGoesOn(c, n + 1 + 1)
    <3>1. /\ m + 1 \in n + 1 + 1 .. Len(c) /\ c[m + 1].cb = "message_complete"
          /\ \A j \in n + 1 + 1 .. (m + 1) - 1 : c[j].cb = "body"
      BY <1>13, <1>b, <1>14, <1>15, <2>2
    <3> QED
      BY <3>1, Zenon DEF BodyGoesOn
  <2>5. /\ n + 1 \in i .. Len(c) /\ c[n + 1].cb = "headers_complete"
        /\ \A j \in i .. (n + 1) - 1 : j \in p + 1 .. n
    BY <1>13, <1>b, <1>14, <2>3
  <2>6. \A j \in i .. (n + 1) - 1 :
          c[j].cb \in {"header_field", "header_value"} /\ Plain(c[j])
    BY <1>b, <1>14, <1>16, <2>5
  <2> QED
    BY <2>4, <2>5, <2>6, Zenon DEF HeadGoesOn
<1>18. ASSUME NEW i \in 1 .. l, c[i].cb \in {"body", "message_complete"}
       PROVE  i > n + 1
  <2>1. i \in 1 .. p \/ i \in p + 1 .. n \/ i = n + 1 \/ i > n + 1
    BY <1>b, <1>14
  <2> QED
    BY <1>b, <1>14, <1>16, <1>18, <2>1
<1>19. HeadsFirst(c)
  <2> SUFFICES ASSUME NEW i \in 1 .. l, c[i].cb \in {"body", "message_complete"}
               PROVE  \E h \in 1 .. i - 1 : c[h].cb = "headers_complete"
    BY <1>13 DEF HeadsFirst
  <2>1. n + 1 \in 1 .. i - 1
    BY <1>b, <1>14, <1>18
  <2> QED
    BY <1>b, <1>14, <2>1
<1>20. ASSUME NEW i \in DOMAIN c, c[i].cb = "body"
       PROVE  i > 1 /\ c[i - 1].cb \in {"headers_complete", "body"}
  <2>1. i \in 1 .. l /\ i > n + 1
    BY <1>13, <1>18, <1>20
  <2>2. i \notin m + 1 .. l - 1 /\ i # l
    BY <1>b, <1>14, <1>16, <1>20
  <2>3. i \in n + 2 .. m
    BY <1>b, <1>14, <2>1, <2>2
  <2>4. i - 1 = n + 1 \/ i - 1 \in n + 2 .. m
    BY <1>b, <1>14, <2>3
  <2> QED
    BY <1>b, <1>14, <2>3, <2>4
<1> QED
  BY <1>17, <1>19, <1>20 DEF Framed, c

\* The whole input, by induction on the number of messages to come.
LEMMA FramedStream ==
  ASSUME NEW messages \in Seq(Messages),
         \A i \in DOMAIN messages : LengthInHead(messages[i])
  PROVE  Framed(Stream(messages))
<1> DEFINE from(n) == Rest(messages, Len(messages) - n)
           T == {n \in Nat : n <= Len(messages) => Framed(Stream(from(n)))}
<1>1. Len(messages) \in Nat /\ DOMAIN messages = 1 .. Len(messages)
  OBVIOUS
<1>2. HasRests(Messages, Seq(Messages))
  BY Rests, Zenon
<1>3. 0 \in T
  <2>1. from(0) = <<>>
    BY <1>1, <1>2 DEF HasRests
  <2>2. Stream(<<>>) = <<>>
    <3>1. DOMAIN <<>> = {} /\ [i \in {} |-> CallbacksOf(<<>>[i])] = <<>>
      OBVIOUS
    <3> QED
      BY <3>1, FlattenEmpty DEF Stream
  <2> QED
    BY <2>1, <2>2, FramedNothing
<1>4. ASSUME NEW n \in T PROVE n + 1 \in T
  <2> SUFFICES ASSUME n + 1 <= Len(messages) PROVE Framed(Stream(from(n + 1)))
    BY <1>4
  <2> DEFINE j == Len(messages) - (n + 1)
             x == messages[j + 1]
             rest_of == Rest(messages, j + 1)
  <2>1. j \in 0 .. Len(messages) - 1 /\ Len(messages) - n = j + 1 /\ n \in Nat
        /\ j + 1 \in DOMAIN messages /\ j + 1 \in 0 .. Len(messages) /\ n <= Len(messages)
    BY <1>1, <1>4
  <2>2. /\ x \in Messages /\ from(n + 1) = <<x>> \o rest_of
        /\ rest_of \in Seq(Messages) /\ rest_of = from(n)
    BY <1>2, <2>1 DEF HasRests
  <2>3. Framed(Stream(rest_of)) /\ LengthInHead(x)
    BY <1>4, <2>1, <2>2
  <2> HIDE DEF j, x, rest_of, from
  <2>4. Framed(CallbacksOf(x)) /\ CallbacksOf(x) \in Calling /\ Stream(rest_of) \in Calling
    BY <2>2, <2>3, FramedMessage, CallbacksOfType, StreamType DEF Calling
  <2>5. Framed(CallbacksOf(x) \o Stream(rest_of))
    BY <2>3, <2>4, FramedConcat
  <2>6. Stream(<<x>> \o rest_of) = CallbacksOf(x) \o Stream(rest_of)
    BY <2>2, StreamCons
  <2> QED
    BY <2>2, <2>5, <2>6
<1> HIDE DEF T
<1>5. T = Nat
  <2>1. T \in SUBSET Nat
    BY DEF T
  <2> QED
    BY <1>3, <1>4, <2>1, SetInduction
<1>6. Framed(Stream(from(Len(messages))))
  BY <1>1, <1>5 DEF T
<1>7. from(Len(messages)) = messages
  BY <1>1, <1>2 DEF HasRests
<1> QED
  BY <1>6, <1>7

-----------------------------------------------------------------------------
\* The output, atom by atom.
LEMMA LengthsAreNumbers ==
  ASSUME NEW s \in W, NEW i \in 1 .. Len(s), s[i][1] = "length"
  PROVE  s[i][2] \in Nat
<1>1. s[i] \in Written
  BY DEF W
<1>2. ASSUME NEW x \in Sources \X STRING PROVE x[1] # "length"
  BY <1>2 DEF Sources
<1> QED
  BY <1>1, <1>2 DEF Written

NoLengths(s) == \A i \in DOMAIN s : s[i][1] # "length"

LEMMA AtomsNoLengths ==
  ASSUME NEW s \in Seq(Atoms)
  PROVE  s \in W /\ NoLengths(s) /\ AllRight(s)
<1>1. s \in W
  BY WrittenAtoms DEF W
<1>2. ASSUME NEW i \in DOMAIN s PROVE s[i][1] # "length"
  <2>1. s[i] \in Atoms
    BY ElementIn, Zenon
  <2> QED
    BY <2>1 DEF Atoms, Sources
<1> QED
  BY <1>1, <1>2 DEF NoLengths, AllRight

\* The same atoms d places on.
SameAtoms(s, t, d) ==
  Len(s) + d <= Len(t) /\ \A j \in 1 .. Len(s) : t[j + d] = s[j]

LEMMA BehindElsewhere ==
  ASSUME NEW s \in W, NEW t \in W, NEW d \in Nat, SameAtoms(s, t, d),
         NEW i \in 1 .. Len(s), s[i][1] = "length",
         NEW blank \in i .. Len(s), BodyBehind(s, i, blank)
  PROVE  /\ BodyBehind(t, i + d, blank + d) /\ blank + d \in i + d .. Len(t)
         /\ t[i + d][2] = s[i][2] /\ s[i][2] \in Nat
         /\ blank + s[i][2] <= Len(s)
<1>1. Len(s) \in Nat /\ Len(t) \in Nat /\ s[i][2] \in Nat
  BY LengthIsNat, LengthsAreNumbers DEF W
<1> DEFINE n == s[i][2]
<1>2. t[i + d][2] = n /\ n \in Nat
  BY <1>1 DEF SameAtoms
<1>3. /\ s[blank] = BlankAtom /\ blank + n <= Len(s)
      /\ \A k \in i .. blank - 1 : s[k] # BlankAtom
      /\ \A k \in blank + 1 .. blank + n : s[k][1] = "command"
  BY DEF BodyBehind
<1> HIDE DEF n
<1>4. blank \in 1 .. Len(s) /\ t[blank + d] = BlankAtom
  BY SMTT(20), <1>1, <1>3 DEF SameAtoms
<1>5. ASSUME NEW k \in i + d .. blank + d - 1 PROVE t[k] # BlankAtom
  <2>1. k - d \in i .. blank - 1 /\ k - d \in 1 .. Len(s) /\ (k - d) + d = k
    BY SMTT(20), <1>1
  <2> QED
    <3>1. s[k - d] # BlankAtom
      BY <1>3, <2>1, Zenon
    <3>2. t[(k - d) + d] = s[k - d]
      BY <2>1, Zenon DEF SameAtoms
    <3> QED
      BY <2>1, <3>1, <3>2, Zenon
<1>6. ASSUME NEW k \in blank + d + 1 .. blank + d + n PROVE t[k][1] = "command"
  <2>1. /\ k - d \in blank + 1 .. blank + n /\ k - d \in 1 .. Len(s)
        /\ (k - d) + d = k
    BY <1>1, <1>2, <1>3
  <2> QED
    BY SMTT(20), <1>3, <2>1 DEF SameAtoms
<1>7. blank + d + n <= Len(t) /\ blank + d \in i + d .. Len(t)
  BY SMTT(20), <1>1, <1>2, <1>3 DEF SameAtoms
<1>8. BodyBehind(t, i + d, blank + d)
  BY <1>2, <1>4, <1>5, <1>6, <1>7 DEF BodyBehind
<1> QED
  BY <1>2, <1>3, <1>7, <1>8 DEF n

\* What is printed is the length of its body when the next message, or what
\* is printed between, starts behind that.
LEMMA RightAppended ==
  ASSUME NEW a \in W, NEW b \in W, AllRight(a), AllRight(b),
         b = <<>> \/ b[1] = StartAtom \/ AllEnded(a)
  PROVE  AllRight(a \o b)
<1> DEFINE c == a \o b
<1>1. /\ c \in W /\ Len(c) = Len(a) + Len(b) /\ Len(a) \in Nat /\ Len(b) \in Nat
      /\ DOMAIN a = 1 .. Len(a) /\ DOMAIN b = 1 .. Len(b)
      /\ DOMAIN c = 1 .. Len(a) + Len(b)
      /\ \A i \in 1 .. Len(a) : c[i] = a[i]
      /\ \A i \in 1 .. Len(b) : c[Len(a) + i] = b[i]
  BY ConcatIs DEF W
<1>2. b = <<>> => Len(b) = 0
  BY NothingIsSeq
<1> HIDE DEF c
<1>3. SameAtoms(a, c, 0) /\ SameAtoms(b, c, Len(a))
  <2>1. \A j \in 1 .. Len(b) : c[j + Len(a)] = b[j]
    <3>1. \A j \in 1 .. Len(b) : j + Len(a) = Len(a) + j
      BY <1>1
    <3> QED
      BY <1>1, <3>1
  <2> QED
    BY <1>1, <2>1 DEF SameAtoms
<1>4. ASSUME NEW i \in 1 .. Len(a), c[i][1] = "length"
      PROVE  \E blank \in i .. Len(c) :
               /\ BodyBehind(c, i, blank)
               /\ blank + c[i][2] < Len(c) => c[blank + c[i][2] + 1] = StartAtom
  <2>1. a[i][1] = "length" /\ i + 0 = i
    BY <1>1, <1>4
  <2>2. ASSUME NEW blank \in i .. Len(a), BodyBehind(a, i, blank)
        PROVE  /\ BodyBehind(c, i, blank) /\ blank \in i .. Len(c)
               /\ c[i][2] = a[i][2] /\ a[i][2] \in Nat
               /\ blank + a[i][2] <= Len(a)
    <3>1. blank + 0 = blank /\ 0 \in Nat
      BY <1>1
    <3> QED
      BY <1>1, <1>3, <2>1, <2>2, <3>1, BehindElsewhere
  <2>3. PICK blank \in i .. Len(a) :
          /\ BodyBehind(a, i, blank)
          /\ blank + a[i][2] < Len(a) => a[blank + a[i][2] + 1] = StartAtom
          /\ AllEnded(a) => /\ blank + a[i][2] < Len(a)
                            /\ a[blank + a[i][2] + 1] = StartAtom
    BY <1>1, <2>1 DEF AllRight, AllEnded
  <2> DEFINE end == blank + a[i][2]
  <2>4. end \in Nat /\ end <= Len(a) /\ end >= 1 /\ blank + c[i][2] = end
    BY <1>1, <2>2, <2>3
  <2>5. end < Len(a) => c[end + 1] = StartAtom
    <3>1. end < Len(a) => end + 1 \in 1 .. Len(a)
      BY <1>1, <2>4
    <3> QED
      BY <1>1, <2>3, <3>1
  <2>6. end = Len(a) /\ end < Len(c) => c[end + 1] = StartAtom
    <3>1. end = Len(a) /\ end < Len(c) => 1 \in 1 .. Len(b) /\ ~AllEnded(a)
      BY <1>1, <2>3, <2>4
    <3> QED
      BY <1>1, <1>2, <3>1
  <2>7. end < Len(c) => c[end + 1] = StartAtom
    BY <1>1, <2>4, <2>5, <2>6
  <2>8. BodyBehind(c, i, blank) /\ blank \in i .. Len(c)
    BY <2>2, <2>3
  <2> QED
    BY <2>4, <2>7, <2>8
<1>5. ASSUME NEW k \in 1 .. Len(b), c[k + Len(a)][1] = "length"
      PROVE  \E blank \in k + Len(a) .. Len(c) :
               /\ BodyBehind(c, k + Len(a), blank)
               /\ blank + c[k + Len(a)][2] < Len(c) =>
                    c[blank + c[k + Len(a)][2] + 1] = StartAtom
  <2>1. b[k][1] = "length"
    BY <1>3, <1>5 DEF SameAtoms
  <2>2. PICK blank \in k .. Len(b) :
          /\ BodyBehind(b, k, blank)
          /\ blank + b[k][2] < Len(b) => b[blank + b[k][2] + 1] = StartAtom
    BY <1>1, <2>1 DEF AllRight
  <2>3. /\ BodyBehind(c, k + Len(a), blank + Len(a))
        /\ blank + Len(a) \in k + Len(a) .. Len(c)
        /\ c[k + Len(a)][2] = b[k][2] /\ b[k][2] \in Nat
        /\ blank + b[k][2] <= Len(b)
    BY <1>1, <1>3, <2>1, <2>2, BehindElsewhere
  <2> DEFINE end == blank + b[k][2]
  <2>4. ASSUME end + Len(a) < Len(c) PROVE c[end + Len(a) + 1] = StartAtom
    <3>a. end \in Nat /\ blank \in Nat /\ b[k][2] \in Nat
      BY <1>1, <2>3
    <3>b. end + Len(a) < Len(a) + Len(b) /\ Len(a) \in Nat /\ Len(b) \in Nat
      BY <1>1, <2>4
    <3> HIDE DEF end
    <3>1. end + 1 \in 1 .. Len(b) /\ end < Len(b) /\ (end + 1) + Len(a) = end + Len(a) + 1
      BY <3>a, <3>b
    <3> USE DEF end
    <3> QED
      BY <1>3, <2>2, <3>1 DEF SameAtoms
  <2>5. blank + Len(a) + c[k + Len(a)][2] = end + Len(a)
    BY <1>1, <2>3
  <2> QED
    BY <2>3, <2>4, <2>5
<1>6. ASSUME NEW i \in DOMAIN c, c[i][1] = "length"
      PROVE  \E blank \in i .. Len(c) :
               /\ BodyBehind(c, i, blank)
               /\ blank + c[i][2] < Len(c) => c[blank + c[i][2] + 1] = StartAtom
  <2>1. CASE i \in 1 .. Len(a)
    BY <1>4, <1>6, <2>1
  <2>2. CASE i > Len(a)
    <3> DEFINE k == i - Len(a)
    <3>1. k \in 1 .. Len(b) /\ i = k + Len(a)
      BY <1>1, <2>2
    <3> HIDE DEF k
    <3> QED
      BY <1>5, <1>6, <3>1
  <2>3. i \in 1 .. Len(a) \/ i > Len(a)
    BY <1>1
  <2> QED
    BY <2>1, <2>2, <2>3, Zenon
<1> QED
  BY <1>6 DEF AllRight, c

LEMMA EndedAppended ==
  ASSUME NEW a \in W, NEW b \in W, AllRight(a), NoLengths(b),
         (b # <<>> /\ b[1] = StartAtom) \/ AllEnded(a)
  PROVE  AllEnded(a \o b)
<1> DEFINE c == a \o b
<1>1. /\ c \in W /\ Len(c) = Len(a) + Len(b) /\ Len(a) \in Nat /\ Len(b) \in Nat
      /\ DOMAIN a = 1 .. Len(a) /\ DOMAIN b = 1 .. Len(b)
      /\ DOMAIN c = 1 .. Len(a) + Len(b)
      /\ \A i \in 1 .. Len(a) : c[i] = a[i]
      /\ \A i \in 1 .. Len(b) : c[Len(a) + i] = b[i]
  BY ConcatIs DEF W
<1>2. b # <<>> => Len(b) >= 1
  BY DEF W
<1> HIDE DEF c
<1>3. SameAtoms(a, c, 0)
  BY <1>1 DEF SameAtoms
<1>4. ASSUME NEW i \in 1 .. Len(a), c[i][1] = "length"
      PROVE  \E blank \in i .. Len(c) :
               /\ BodyBehind(c, i, blank)
               /\ blank + c[i][2] < Len(c)
               /\ c[blank + c[i][2] + 1] = StartAtom
  <2>1. a[i][1] = "length" /\ i + 0 = i
    BY <1>1, <1>4
  <2>3. PICK blank \in i .. Len(a) :
          /\ BodyBehind(a, i, blank)
          /\ blank + a[i][2] < Len(a) => a[blank + a[i][2] + 1] = StartAtom
          /\ AllEnded(a) => /\ blank + a[i][2] < Len(a)
                            /\ a[blank + a[i][2] + 1] = StartAtom
    BY <1>1, <2>1 DEF AllRight, AllEnded
  <2>2. /\ BodyBehind(c, i, blank) /\ blank \in i .. Len(c)
        /\ c[i][2] = a[i][2] /\ a[i][2] \in Nat
        /\ blank + a[i][2] <= Len(a)
    <3>1. blank + 0 = blank /\ 0 \in Nat
      BY <1>1
    <3> QED
      BY <1>1, <1>3, <2>1, <2>3, <3>1, BehindElsewhere
  <2> DEFINE end == blank + a[i][2]
  <2>4. end \in Nat /\ end <= Len(a) /\ end >= 1 /\ blank + c[i][2] = end
    BY <1>1, <2>2, <2>3
  <2>5. end < Len(a) => c[end + 1] = StartAtom
    <3>1. end < Len(a) => end + 1 \in 1 .. Len(a)
      BY <1>1, <2>4
    <3> QED
      BY <1>1, <2>3, <3>1
  <2>6. end = Len(a) => c[end + 1] = StartAtom /\ end < Len(c)
    <3>1. end = Len(a) => b # <<>> /\ b[1] = StartAtom
      BY <1>1, <2>3, <2>4
    <3>2. b # <<>> => 1 \in 1 .. Len(b) /\ Len(a) < Len(c)
      BY <1>1, <1>2
    <3> QED
      BY <1>1, <3>1, <3>2
  <2>7. end < Len(c) /\ c[end + 1] = StartAtom
    BY <1>1, <2>4, <2>5, <2>6
  <2> QED
    BY <2>2, <2>4, <2>7
<1>5. ASSUME NEW i \in DOMAIN c, c[i][1] = "length" PROVE i \in 1 .. Len(a)
  <2>1. i > Len(a) => i - Len(a) \in DOMAIN b /\ Len(a) + (i - Len(a)) = i
    BY <1>1
  <2>2. i > Len(a) => FALSE
    BY <1>1, <1>5, <2>1 DEF NoLengths
  <2> QED
    BY <1>1, <2>2
<1> QED
  BY <1>4, <1>5 DEF AllEnded, c

LEMMA AtomsOf ==
  ASSUME NEW a \in W, NEW b \in W, NEW m, m = Len(a), NEW n, n = Len(b)
  PROVE  /\ a \o b \in W /\ Len(a \o b) = m + n /\ DOMAIN (a \o b) = 1 .. m + n
         /\ \A k \in 1 .. m : (a \o b)[k] = a[k]
         /\ \A k \in 1 .. n : (a \o b)[m + k] = b[k]
BY ConcatIs DEF W

\* A head with a length, ending in the only blank line behind it, and a body
\* of that length.
LEMMA RightMessage ==
  ASSUME NEW x \in Seq(Atoms), NEW y \in Seq(Atoms), NEW z \in Seq(FromCommand),
         Len(y) > 0, y[Len(y)] = BlankAtom,
         \A k \in 1 .. Len(y) - 1 : y[k] # BlankAtom
  PROVE  /\ x \o (<<<<"length", Len(z)>>>> \o (y \o z)) \in W
         /\ AllRight(x \o (<<<<"length", Len(z)>>>> \o (y \o z)))
<1> DEFINE mark == <<<<"length", Len(z)>>>>
           rest_of == y \o z
           behind == mark \o rest_of
           c == x \o behind
           n == Len(z)
           p == Len(x) + 1
           q == p + Len(y)
           l == q + n
<1>1. /\ x \in W /\ y \in W /\ z \in W /\ mark \in W
      /\ Len(x) \in Nat /\ Len(y) \in Nat /\ n \in Nat
      /\ Len(mark) = 1 /\ mark[1] = <<"length", n>>
  <2>1. z \in Seq(Atoms)
    <3>1. FromCommand \subseteq Atoms
      BY DEF FromCommand, Atoms, Sources
    <3> QED
      BY <3>1
  <2>2. n \in Nat /\ Len(x) \in Nat /\ Len(y) \in Nat
    BY LengthIsNat, Zenon
  <2> QED
    BY <2>1, <2>2, AtomsNoLengths, LengthAtom
<1>2. /\ NoLengths(x) /\ NoLengths(y)
      /\ DOMAIN x = 1 .. Len(x) /\ DOMAIN y = 1 .. Len(y)
      /\ \A k \in 1 .. n : z[k][1] = "command"
  <2>1. ASSUME NEW k \in 1 .. n PROVE z[k][1] = "command"
    <3>1. z[k] \in FromCommand
      BY ElementOfSeq
    <3> QED
      BY <3>1 DEF FromCommand
  <2> QED
    BY <2>1, AtomsNoLengths
<1> HIDE DEF mark
<1>3. /\ rest_of \in W /\ Len(rest_of) = Len(y) + n
      /\ \A k \in 1 .. Len(y) : rest_of[k] = y[k]
      /\ \A k \in 1 .. n : rest_of[Len(y) + k] = z[k]
  BY <1>1, ConcatIs DEF W
<1> HIDE DEF rest_of
<1>4. /\ behind \in W /\ Len(behind) = 1 + (Len(y) + n)
      /\ behind[1] = <<"length", n>>
      /\ \A k \in 1 .. Len(y) + n : behind[1 + k] = rest_of[k]
  <2> DEFINE m == Len(y) + n
             one == 1
  <2>1. mark \in W /\ rest_of \in W /\ one = Len(mark) /\ m = Len(rest_of)
    BY <1>1, <1>3
  <2>2. /\ mark[1] = <<"length", n>> /\ 1 \in 1 .. 1
    BY <1>1
  <2> HIDE DEF m, n, one
  <2>3. /\ behind \in W /\ Len(behind) = one + m
        /\ \A k \in 1 .. one : behind[k] = mark[k]
        /\ \A k \in 1 .. m : behind[one + k] = rest_of[k]
    BY <2>1, AtomsOf
  <2> HIDE DEF behind
  <2> QED
    BY <2>2, <2>3, Zenon DEF m, one
<1> HIDE DEF behind
<1>5. /\ c \in W /\ Len(c) = Len(x) + (1 + (Len(y) + n))
      /\ DOMAIN c = 1 .. Len(x) + (1 + (Len(y) + n))
      /\ \A k \in 1 .. Len(x) : c[k] = x[k]
      /\ \A k \in 1 .. 1 + (Len(y) + n) : c[Len(x) + k] = behind[k]
  <2> DEFINE m == 1 + (Len(y) + n)
             r == Len(x)
  <2>1. x \in W /\ behind \in W /\ r = Len(x) /\ m = Len(behind)
    BY <1>1, <1>4
  <2> HIDE DEF m, r
  <2>2. /\ c \in W /\ Len(c) = r + m /\ DOMAIN c = 1 .. r + m
        /\ \A k \in 1 .. r : c[k] = x[k]
        /\ \A k \in 1 .. m : c[r + k] = behind[k]
    BY <2>1, AtomsOf
  <2> HIDE DEF c
  <2> QED
    BY <2>2, Zenon DEF m, r
<1> HIDE DEF c
<1>6. /\ p \in Nat /\ q \in Nat /\ l \in Nat /\ Len(c) = l /\ DOMAIN c = 1 .. l
      /\ p > 0 /\ p < q /\ q <= l /\ l = q + n
  BY <1>1, <1>5
<1>7. c[p] = <<"length", n>>
  <2>1. 1 \in 1 .. 1 + (Len(y) + n)
    BY <1>1
  <2> QED
    BY <1>4, <1>5, <2>1
<1>8. ASSUME NEW k \in p + 1 .. q PROVE c[k] = y[k - p] /\ k - p \in 1 .. Len(y)
  <2>1. /\ k - Len(x) \in 1 .. 1 + (Len(y) + n) /\ Len(x) + (k - Len(x)) = k
        /\ k - p \in 1 .. Len(y) + n /\ 1 + (k - p) = k - Len(x)
        /\ k - p \in 1 .. Len(y)
    BY <1>1
  <2>2. c[k] = behind[k - Len(x)]
    BY <1>5, <2>1
  <2>3. behind[k - Len(x)] = rest_of[k - p]
    BY <1>4, <2>1
  <2> QED
    BY <1>3, <2>1, <2>2, <2>3
<1>9. ASSUME NEW k \in q + 1 .. l PROVE c[k] = z[k - q] /\ k - q \in 1 .. n
  <2>1. /\ k - Len(x) \in 1 .. 1 + (Len(y) + n) /\ Len(x) + (k - Len(x)) = k
        /\ k - p \in 1 .. Len(y) + n /\ 1 + (k - p) = k - Len(x)
        /\ k - q \in 1 .. n /\ Len(y) + (k - q) = k - p
    BY <1>1
  <2>2. c[k] = behind[k - Len(x)]
    BY <1>5, <2>1
  <2>3. behind[k - Len(x)] = rest_of[k - p]
    BY <1>4, <2>1
  <2>4. rest_of[k - p] = z[k - q]
    BY <1>3, <2>1
  <2> QED
    BY <2>1, <2>2, <2>3, <2>4
<1>10. q - p = Len(y) /\ Len(x) = p - 1
  BY <1>1
<1> HIDE DEF p, q, l, n
<1>11. ASSUME NEW i \in 1 .. l, c[i][1] = "length" PROVE i = p
  <2>1. i \in 1 .. p - 1 \/ i = p \/ i \in p + 1 .. q \/ i \in q + 1 .. l
    BY <1>6
  <2>2. i \in 1 .. p - 1 => c[i][1] # "length"
    BY <1>2, <1>5, <1>10 DEF NoLengths
  <2>3. i \in p + 1 .. q => c[i][1] # "length"
    BY <1>2, <1>8 DEF NoLengths
  <2>4. i \in q + 1 .. l => c[i][1] # "length"
    BY <1>2, <1>9
  <2> QED
    BY <1>11, <2>1, <2>2, <2>3, <2>4, Zenon
<1>12. BodyBehind(c, p, q)
  <2>1. c[p][2] = n /\ q + c[p][2] = l
    BY <1>6, <1>7
  <2>2. c[q] = BlankAtom
    <3>1. q \in p + 1 .. q
      BY <1>6
    <3> QED
      BY <1>8, <1>10, <3>1
  <2>3. ASSUME NEW k \in p .. q - 1 PROVE c[k] # BlankAtom
    <3>1. CASE k = p
      <4>1. c[k][1] = "length" /\ BlankAtom[1] = "tool"
        BY <1>7, <3>1 DEF BlankAtom
      <4> QED
        BY <4>1
    <3>2. CASE k # p
      <4>1. k \in p + 1 .. q /\ k - p \in 1 .. Len(y) - 1
        BY <1>1, <1>6, <1>10, <3>2
      <4> QED
        BY <1>8, <4>1
    <3> QED
      BY <3>1, <3>2
  <2>4. ASSUME NEW k \in q + 1 .. l PROVE c[k][1] = "command"
    BY <1>2, <1>9
  <2> QED
    BY <1>6, <2>1, <2>2, <2>3, <2>4 DEF BodyBehind
<1>13. c[p][2] = n /\ ~(q + c[p][2] < Len(c)) /\ q \in p .. Len(c)
  BY <1>6, <1>7
<1>14. AllRight(c)
  <2> SUFFICES ASSUME NEW i \in 1 .. l, c[i][1] = "length"
               PROVE  \E blank \in i .. Len(c) :
                        /\ BodyBehind(c, i, blank)
                        /\ blank + c[i][2] < Len(c) =>
                             c[blank + c[i][2] + 1] = StartAtom
    BY <1>6 DEF AllRight
  <2>1. i = p
    BY <1>11
  <2> QED
    BY <1>12, <1>13, <2>1
<1> QED
  BY <1>5, <1>14 DEF c, behind, rest_of, mark

-----------------------------------------------------------------------------
\* The callbacks to come after a call: those behind it, or, when the read cut
\* its text, the rest of it and those behind it.
MovesOn(d) ==
  /\ Len(todo') = Len(todo) - d
  /\ \A j \in 1 .. Len(todo') :
       /\ j + d \in 1 .. Len(todo)
       /\ todo'[j].cb = todo[j + d].cb
       /\ Plain(todo[j + d]) => Plain(todo'[j])
       /\ j + d > 1 => todo'[j] = todo[j + d]

LEMMA PartOneLine ==
  ASSUME NEW text \in Text, OneLine(text), NEW k \in Nat \ {0}, NEW n \in 0 .. Len(text)
  PROVE  OneLine(SubSeq(text, k, n))
<1>1. ASSUME NEW i \in DOMAIN SubSeq(text, k, n)
      PROVE  SubSeq(text, k, n)[i] # Blank[1]
  <2>1. k + i - 1 \in DOMAIN text /\ SubSeq(text, k, n)[i] = text[k + i - 1]
    BY DEF Text
  <2> QED
    BY <2>1 DEF OneLine, ToSet
<1> QED
  BY <1>1 DEF OneLine, ToSet

LEMMA CallMoves ==
  ASSUME TypeOK, NEW cb, NEW at, Calls(cb, at)
  PROVE  /\ todo # <<>> /\ todo \in Calling /\ todo' \in Calling
         /\ Len(todo) \in Nat \ {0}
         /\ todo[1].cb = cb /\ at \in Text /\ pc = "parse"
         /\ OneLine(todo[1].at) => OneLine(at)
         /\ WholeTexts => at = todo[1].at
         /\ \/ MovesOn(1)
            \/ MovesOn(0) /\ ~WholeTexts /\ cb \in Data
<1> DEFINE first == Head(todo)
           rest_of == SubSeq(first.at, Len(at) + 1, Len(first.at))
           left == Callback(first.cb, rest_of)
           more == <<left>> \o Tail(todo)
<1>1. /\ todo \in Calling /\ todo # <<>> /\ first.cb = cb /\ pc = "parse"
      /\ at \in Pieces(todo, WholeTexts)
      /\ todo' \in Remaining(todo, at, WholeTexts)
  BY DEF TypeOK, Calls, Calling
<1>2. /\ Len(todo) \in Nat \ {0} /\ first = todo[1] /\ first \in CallbacksWithText
      /\ Tail(todo) \in Calling /\ Len(Tail(todo)) = Len(todo) - 1
      /\ \A j \in 1 .. Len(todo) - 1 : Tail(todo)[j] = todo[j + 1]
  BY <1>1 DEF Calling
<1>3. at \in Text /\ todo' \in Calling
  BY <1>1, PieceType DEF Calling
<1>4. first.at \in Text /\ Len(first.at) \in Nat /\ Len(at) \in Nat
  <2>1. first.at \in Text
    BY <1>2 DEF CallbacksWithText
  <2> QED
    BY <1>3, <2>1, LengthIsNat DEF Text
<1>5. at = first.at \/ (~WholeTexts /\ \E n \in 0 .. Len(first.at) : at = SubSeq(first.at, 1, n))
  BY <1>1, <1>4 DEF Pieces, Prefixes
<1>6. OneLine(first.at) => OneLine(at) /\ OneLine(rest_of)
  <2> SUFFICES ASSUME OneLine(first.at) PROVE OneLine(at) /\ OneLine(rest_of)
    OBVIOUS
  <2> DEFINE text == first.at
             k == Len(at) + 1
  <2>1. text \in Text /\ OneLine(text) /\ 1 \in Nat \ {0} /\ k \in Nat \ {0}
        /\ Len(text) \in 0 .. Len(text)
    BY <1>4
  <2>2. at = text \/ \E n \in 0 .. Len(text) : at = SubSeq(text, 1, n)
    BY <1>5
  <2>3. rest_of = SubSeq(text, k, Len(text))
    OBVIOUS
  <2> HIDE DEF text, k, rest_of, first
  <2> QED
    BY <2>1, <2>2, <2>3, PartOneLine, Zenon
<1>7. at = first.at => rest_of = <<>>
  BY <1>4 DEF Text
<1>8. todo' = Tail(todo) \/ (todo' = more /\ ~WholeTexts /\ cb \in Data)
  <2> HIDE DEF rest_of, left
  <2>1. todo' \in IF rest_of # <<>> THEN {more}
                  ELSE IF WholeTexts \/ at = <<>> \/ first.cb \notin Data \ {"body"}
                       THEN {Tail(todo)} ELSE {Tail(todo), more}
    BY <1>1 DEF Remaining, more, left, rest_of
  <2>2. cb \notin Data => at = first.at
    BY <1>1 DEF Pieces
  <2> HIDE DEF first, more
  <2> QED
    BY <1>1, <1>5, <1>7, <2>1, <2>2
<1>9. ASSUME todo' = Tail(todo) PROVE MovesOn(1)
  BY <1>2, <1>9 DEF MovesOn
<1>10. ASSUME todo' = more PROVE MovesOn(0)
  <2>1. left \in CallbacksWithText /\ left.cb = first.cb /\ left.at = rest_of
    <3>1. rest_of \in Text
      BY <1>4 DEF Text
    <3> QED
      BY <1>2, <3>1 DEF Callback, CallbacksWithText
  <2> HIDE DEF left, rest_of
  <2>2. /\ Len(more) = Len(todo) /\ more[1] = left
        /\ \A j \in 1 .. Len(todo) - 1 : more[j + 1] = todo[j + 1]
    <3> DEFINE tail == Tail(todo)
    <3>1. /\ tail \in Seq(CallbacksWithText) /\ left \in CallbacksWithText
          /\ more = <<left>> \o tail
      BY <1>2, <2>1, Zenon DEF Calling, more
    <3>2. /\ Len(tail) = Len(todo) - 1
          /\ \A j \in 1 .. Len(todo) - 1 : tail[j] = todo[j + 1]
      BY <1>2, Zenon
    <3>3. Len(todo) \in Nat
      BY <1>2
    <3> HIDE DEF more, tail
    <3>4. /\ Len(more) = Len(tail) + 1 /\ more[1] = left
          /\ \A j \in 1 .. Len(tail) : more[j + 1] = tail[j]
          /\ Len(tail) = Len(todo) - 1 /\ Len(todo) \in Nat
          /\ \A j \in 1 .. Len(todo) - 1 : tail[j] = todo[j + 1]
      <4>1. /\ Len(<<left>> \o tail) = Len(tail) + 1 /\ (<<left>> \o tail)[1] = left
            /\ \A j \in 1 .. Len(tail) : (<<left>> \o tail)[j + 1] = tail[j]
        BY <3>1, ConsIs
      <4> QED
        BY <3>1, <3>2, <3>3, <4>1, Zenon
    <3>5. Len(more) = Len(todo) /\ Len(tail) \in Nat
      BY <3>4
    <3>6. ASSUME NEW j \in 1 .. Len(todo) - 1 PROVE more[j + 1] = todo[j + 1]
      <4>1. j \in 1 .. Len(tail)
        BY <3>4, Zenon
      <4> QED
        BY <3>4, <4>1, Zenon
    <3> QED
      BY <3>4, <3>5, <3>6, Zenon
  <2>3. Plain(first) => Plain(left)
    BY <1>6, <2>1 DEF Plain
  <2> HIDE DEF more, first
  <2>4. ASSUME NEW j \in 2 .. Len(todo) PROVE more[j] = todo[j]
    <3>1. j - 1 \in 1 .. Len(todo) - 1 /\ (j - 1) + 1 = j
      BY <1>2
    <3> QED
      BY <2>2, <3>1
  <2>5. \A j \in 1 .. Len(todo) : j = 1 \/ j \in 2 .. Len(todo)
    BY <1>2
  <2> QED
    BY <1>2, <1>10, <2>1, <2>2, <2>3, <2>4, <2>5 DEF MovesOn
<1> QED
  BY <1>1, <1>2, <1>3, <1>5, <1>6, <1>8, <1>9, <1>10

LEMMA TodoKept ==
  ASSUME todo \in Calling, todo' \in Calling, Len(todo) \in Nat \ {0},
         NEW d \in {0, 1}, MovesOn(d), WholeTexts => d = 1
  PROVE  /\ LengthsAhead(todo) => LengthsAhead(todo')
         /\ BodiesBehindHeads(todo) => BodiesBehindHeads(todo')
         /\ HeadGoesOn(todo, 1 + d) => HeadGoesOn(todo', 1)
         /\ BodyGoesOn(todo, 1 + d) => BodyGoesOn(todo', 1)
         /\ HeadsFirst(todo) /\ (d = 1 => todo[1].cb # "headers_complete") =>
              HeadsFirst(todo')
<1> DEFINE next == todo'
<1>1. /\ DOMAIN todo = 1 .. Len(todo) /\ DOMAIN next = 1 .. Len(next)
      /\ Len(next) \in Nat /\ next \in Calling /\ Len(next) = Len(todo) - d
      /\ \A j \in 1 .. Len(next) :
           /\ j + d \in 1 .. Len(todo)
           /\ next[j].cb = todo[j + d].cb
           /\ Plain(todo[j + d]) => Plain(next[j])
           /\ j + d > 1 => next[j] = todo[j + d]
  BY DEF Calling, MovesOn
<1> HIDE DEF next
<1>2. ASSUME NEW i \in Nat, i > d
      PROVE  /\ BodyGoesOn(todo, i) => BodyGoesOn(next, i - d)
             /\ HeadGoesOn(todo, i) => HeadGoesOn(next, i - d)
  <2>1. Alike(todo, i, next, -d)
    <3> SUFFICES ASSUME NEW j \in i .. Len(todo)
                 PROVE  /\ j + -d \in 1 .. Len(next)
                        /\ next[j + -d].cb = todo[j].cb
                        /\ Plain(todo[j]) => Plain(next[j + -d])
      BY DEF Alike
    <3>1. j + -d \in 1 .. Len(next) /\ (j + -d) + d = j
      BY <1>1, <1>2
    <3> QED
      BY <1>1, <3>1
  <2>2. -d \in Int /\ i + -d = i - d
    OBVIOUS
  <2> QED
    BY <1>1, <2>1, <2>2, GoesOnElsewhere
<1>3. ASSUME LengthsAhead(todo), NEW i \in 1 .. Len(next), next[i].cb = "header_field",
             WholeTexts => Resembles(ContentLength, next[i].at)
      PROVE  HeadGoesOn(next, i)
  <2>1. i + d \in DOMAIN todo /\ todo[i + d].cb = "header_field"
    BY <1>1, <1>3
  <2>2. WholeTexts => todo[i + d] = next[i]
    BY <1>1
  <2>3. HeadGoesOn(todo, i + d)
    BY <1>3, <2>1, <2>2 DEF LengthsAhead
  <2>4. i + d \in Nat /\ i + d > d /\ (i + d) - d = i
    BY <1>1
  <2> QED
    BY <1>2, <2>3, <2>4
<1>4. ASSUME BodiesBehindHeads(todo), NEW i \in 1 .. Len(next), i > 1,
             next[i].cb = "body"
      PROVE  next[i - 1].cb \in {"headers_complete", "body"}
  <2>1. /\ i + d \in DOMAIN todo /\ todo[i + d].cb = "body" /\ i + d > 1
        /\ i - 1 \in 1 .. Len(next) /\ (i - 1) + d = (i + d) - 1
    BY <1>1, <1>4
  <2>2. todo[(i + d) - 1].cb \in {"headers_complete", "body"}
    BY <1>4, <2>1 DEF BodiesBehindHeads
  <2> QED
    BY <1>1, <2>1, <2>2
<1>5. ASSUME HeadsFirst(todo), d = 1 => todo[1].cb # "headers_complete",
             NEW i \in 1 .. Len(next), next[i].cb \in {"body", "message_complete"}
      PROVE  \E h \in 1 .. i - 1 : next[h].cb = "headers_complete"
  <2>1. i + d \in DOMAIN todo /\ todo[i + d].cb \in {"body", "message_complete"}
    BY <1>1, <1>5
  <2>2. PICK h \in 1 .. (i + d) - 1 : todo[h].cb = "headers_complete"
    BY <1>5, <2>1 DEF HeadsFirst
  <2>3. h > d
    BY <1>5, <2>2
  <2>4. h - d \in 1 .. i - 1 /\ h - d \in 1 .. Len(next) /\ (h - d) + d = h
    BY <1>1, <2>3
  <2> QED
    BY <1>1, <2>2, <2>4
<1>6. /\ 1 + d \in Nat /\ 1 + d > d /\ (1 + d) - d = 1
  OBVIOUS
<1>7. /\ HeadGoesOn(todo, 1 + d) => HeadGoesOn(next, 1)
      /\ BodyGoesOn(todo, 1 + d) => BodyGoesOn(next, 1)
  BY <1>2, <1>6
<1>8. LengthsAhead(todo) => LengthsAhead(next)
  BY <1>1, <1>3 DEF LengthsAhead
<1>9. BodiesBehindHeads(todo) => BodiesBehindHeads(next)
  BY <1>1, <1>4 DEF BodiesBehindHeads
<1>10. HeadsFirst(todo) /\ (d = 1 => todo[1].cb # "headers_complete") => HeadsFirst(next)
  BY <1>1, <1>5 DEF HeadsFirst
<1> QED
  BY <1>7, <1>8, <1>9, <1>10 DEF next

-----------------------------------------------------------------------------
\* LengthInv when the messages are as LengthsInHeads says.
Fed == /\ body \in Seq(FromCommand) /\ taken \in Seq(FromCommand)
       /\ out_pipe \in Seq(FromCommand)
Measured == /\ LengthsAhead(todo) /\ BodiesBehindHeads(todo)
            /\ LengthPlace /\ StatusStarts /\ HeadBeforeBody
            /\ AllRight(stdout)

LEMMA LengthStarts == Init /\ LengthsInHeads => Fed /\ Measured
<1> SUFFICES ASSUME Init, LengthsInHeads PROVE Fed /\ Measured
  OBVIOUS
<1>1. /\ input.messages \in Seq(Messages) /\ todo = Stream(input.messages)
      /\ status_line = <<>> /\ content_length_at = -1 /\ pc = "start" /\ stdout = <<>>
      /\ body = <<>> /\ taken = <<>> /\ out_pipe = <<>>
  BY InputAssumption DEF Init
<1>2. Fed
  BY <1>1, NothingIsSeq DEF Fed
<1>3. Framed(todo) /\ todo \in Calling
  BY <1>1, FramedStream, StreamType DEF LengthsInHeads, Calling
<1>4. LengthPlace /\ StatusStarts
  BY <1>1, <1>3 DEF LengthPlace, StatusStarts, Framed
<1>5. HeadBeforeBody /\ BodiesBehindHeads(todo) /\ LengthsAhead(todo)
  <2>1. todo # <<>> => 1 \in DOMAIN todo
    BY <1>3 DEF Calling
  <2>2. LengthsAhead(todo)
    BY <1>3 DEF Framed
  <2>3. BodiesBehindHeads(todo)
    BY <1>3, Zenon DEF BodiesBehindHeads, Framed
  <2>4. HeadBeforeBody
    <3>1. \A i \in DOMAIN todo : todo[i].cb = "body" => i > 1
      BY <1>3, Zenon DEF Framed
    <3>2. ~(1 > 1)
      OBVIOUS
    <3> QED
      BY <2>1, <3>1, <3>2, Zenon DEF HeadBeforeBody, BodyComes
  <2> QED
    BY <2>2, <2>3, <2>4
<1>6. AllRight(stdout)
  <2>1. <<>> \in Seq(Atoms)
    BY NothingIsSeq
  <2> QED
    BY <1>1, <2>1, AtomsNoLengths
<1> QED
  BY <1>2, <1>4, <1>5, <1>6 DEF Measured

\* What the tool has read and what is to come of it is the command's.
LEMMA FedKept ==
  ASSUME TypeOK, Fed, [Next]_vars
  PROVE  Fed'
<1> DEFINE S == Seq(FromCommand)
<1> USE DEF bytes
<1>1. body \in S /\ taken \in S /\ out_pipe \in S /\ <<>> \in S
  BY NothingIsSeq DEF Fed
<1>2. body' \in S /\ taken' \in S /\ out_pipe' \in S => Fed'
  BY DEF Fed
<1>3. ASSUME NEW a \in S, NEW b \in S PROVE a \o b \in S
  BY ConcatSeq
<1>4. in_pipe \in Text
  BY DEF TypeOK
<1>5. CASE DrainRead
  BY <1>1, <1>2, <1>3, <1>5 DEF DrainRead
<1>6. CASE CommandTakes
  <2>1. taken' = taken \o Filter(in_pipe) /\ Filter(in_pipe) \in S
    BY <1>4, <1>6, FilterType DEF CommandTakes
  <2>2. taken' \in S
    BY <1>1, <1>3, <2>1
  <2> QED
    BY <1>1, <1>2, <1>6, <2>2 DEF CommandTakes, rest
<1>7. CASE CommandPrints
  <2>1. PICK n \in 1 .. AtMost(Len(taken), OUT_CAPACITY - Len(out_pipe)) :
          /\ out_pipe' = out_pipe \o SubSeq(taken, 1, n)
          /\ taken' = From(taken, n + 1)
    BY <1>7 DEF CommandPrints
  <2>2. Len(taken) \in Nat /\ OUT_CAPACITY \in Nat /\ Len(out_pipe) \in Nat
    BY <1>1, LengthIsNat, CommandAssumption
  <2>3. n \in 0 .. Len(taken)
    BY <2>2 DEF AtMost
  <2>4. SubSeq(taken, 1, n) \in S /\ From(taken, n + 1) \in S
    BY <1>1, <2>3, TextParts
  <2>5. out_pipe' \in S /\ taken' \in S
    BY <1>1, <1>3, <2>1, <2>4
  <2> QED
    BY <1>1, <1>2, <1>7, <2>5 DEF CommandPrints, rest
<1>8. CASE Flush \/ WaitsOrReopens \/ CommandKilled \/ CommandQuits
  BY <1>1, <1>2, <1>8 DEF Flush, WaitsOrReopens, CommandKilled, CommandQuits, rest
<1>9. ASSUME UNCHANGED <<body, taken, out_pipe>> PROVE Fed'
  BY <1>1, <1>2, <1>9
<1>10. CASE UlogInit \/ Open \/ CbHeadersComplete \/ WriteAll
            \/ CbMessageCompleteCopied \/ CbMessageCompletePiped \/ DrainEnd
            \/ DrainFails \/ ResetReturns \/ Eof \/ InputFails \/ Delete
  BY <1>9, <1>10 DEF UlogInit, Open, CbHeadersComplete, WriteAll,
     CbMessageCompleteCopied, CbMessageCompletePiped, DrainEnd, DrainFails,
     ResetReturns, Eof, InputFails, Delete
<1>11. ASSUME NEW at, \/ CbUrl(at) \/ CbStatusComplete(at) \/ CbHeaderField(at)
                      \/ CbHeaderValue(at) \/ CbBodyPiped(at) \/ CbBodyCopied(at)
       PROVE  Fed'
  BY <1>9, <1>11 DEF CbUrl, CbStatusComplete, CbHeaderField, CbHeaderValue,
     CbBodyPiped, CbBodyCopied
<1>12. CASE Breaks \/ CommandSetUp \/ CommandBlocks \/ CommandEnds \/ UNCHANGED vars
  BY <1>9, <1>12 DEF Breaks, CommandSetUp, CommandBlocks, CommandEnds, rest, vars
<1> QED
  BY <1>5, <1>6, <1>7, <1>8, <1>10, <1>11, <1>12 DEF Next, Tool, Command, Done

\* Steps between which the tool takes no callback and prints nothing.
LEMMA QuietKept ==
  ASSUME Measured,
         UNCHANGED <<todo, content_length_at, do_pipe_this_message, status_line,
                     headers, stdout>>,
         \/ pc' = pc \/ pc' \in {"delete", "exit", "aborted", "killed", "overrun"}
         \/ pc = "start" /\ pc' = "open"
         \/ pc \in {"open", "write"} /\ pc' = "parse"
         \/ pc = "drain" /\ pc' = "flush"
  PROVE  Measured'
<1>1. /\ LengthsAhead(todo)' /\ BodiesBehindHeads(todo)' /\ AllRight(stdout)'
      /\ HeadsFirst(todo) => HeadsFirst(todo)'
      /\ AllEnded(stdout) => AllEnded(stdout)'
      /\ BodyComes' => BodyComes
      /\ HeadGoesOn(todo, 1) => HeadGoesOn(todo, 1)'
      /\ BodyGoesOn(todo, 1) => BodyGoesOn(todo, 1)'
      /\ InLengthsHead => InLengthsHead'
      /\ HoldsLengthsHead => HoldsLengthsHead'
  BY DEF Measured, BodyComes, InLengthsHead, HoldsLengthsHead
<1>2. LengthPlace'
  BY <1>1 DEF Measured, LengthPlace
<1>3. StatusStarts'
  BY <1>1 DEF Measured, StatusStarts
<1>4. HeadBeforeBody'
  BY <1>1 DEF Measured, HeadBeforeBody
<1> QED
  BY <1>1, <1>2, <1>3, <1>4 DEF Measured

-----------------------------------------------------------------------------
\* A callback, and what it says of those behind it.
LEMMA CallFacts ==
  ASSUME TypeOK, Measured, NEW cb, NEW at, Calls(cb, at)
  PROVE  /\ at \in Text /\ pc = "parse"
         /\ LengthsAhead(todo)' /\ BodiesBehindHeads(todo)'
         /\ BodyComes' => cb \in {"headers_complete", "body"}
         /\ cb = "body" => BodyComes
         /\ HeadsFirst(todo) => cb \notin {"body", "message_complete"}
         /\ cb # "headers_complete" /\ HeadsFirst(todo) => HeadsFirst(todo)'
         /\ cb = "header_field" /\ (WholeTexts => Resembles(ContentLength, at)) =>
              HeadGoesOn(todo, 1)
         /\ HeadGoesOn(todo, 1) =>
              \/ cb = "headers_complete" /\ BodyGoesOn(todo, 1)'
              \/ /\ cb \in {"header_field", "header_value"} /\ OneLine(at)
                 /\ HeadGoesOn(todo, 1)'
         /\ BodyGoesOn(todo, 1) =>
              \/ cb = "message_complete"
              \/ cb = "body" /\ BodyGoesOn(todo, 1)'
<1>1. /\ todo # <<>> /\ todo \in Calling /\ todo' \in Calling
      /\ Len(todo) \in Nat \ {0}
      /\ todo[1].cb = cb /\ at \in Text /\ pc = "parse"
      /\ OneLine(todo[1].at) => OneLine(at)
      /\ WholeTexts => at = todo[1].at
  BY CallMoves
<1>2. PICK d \in {0, 1} : /\ MovesOn(d)
                          /\ d = 0 => ~WholeTexts /\ cb \in Data
  BY CallMoves
<1>3. /\ DOMAIN todo = 1 .. Len(todo) /\ 1 \in DOMAIN todo
      /\ DOMAIN todo' = 1 .. Len(todo') /\ Len(todo') \in Nat
  BY <1>1 DEF Calling
<1>4. LengthsAhead(todo) /\ BodiesBehindHeads(todo)
  BY DEF Measured
<1>5. /\ LengthsAhead(todo') /\ BodiesBehindHeads(todo')
      /\ HeadGoesOn(todo, 1 + d) => HeadGoesOn(todo', 1)
      /\ BodyGoesOn(todo, 1 + d) => BodyGoesOn(todo', 1)
      /\ HeadsFirst(todo) /\ (d = 1 => todo[1].cb # "headers_complete") =>
           HeadsFirst(todo')
  BY <1>1, <1>2, <1>4, TodoKept
<1>6. BodyComes' => cb \in {"headers_complete", "body"}
  <2> SUFFICES ASSUME BodyComes' PROVE cb \in {"headers_complete", "body"}
    OBVIOUS
  <2>1. 1 \in 1 .. Len(todo') /\ todo'[1].cb = "body"
    BY <1>1, <1>3 DEF BodyComes, Calling
  <2>2. 1 + d \in 1 .. Len(todo) /\ todo[1 + d].cb = "body"
    BY <1>2, <2>1 DEF MovesOn
  <2>3. CASE d = 0
    BY <1>1, <2>2, <2>3
  <2>4. CASE d = 1
    <3>1. 2 \in DOMAIN todo /\ todo[2].cb = "body" /\ 2 - 1 = 1
      BY <1>3, <2>2, <2>4
    <3> QED
      BY <1>1, <1>4, <3>1 DEF BodiesBehindHeads
  <2> QED
    BY <2>3, <2>4
<1>7. cb = "body" => BodyComes
  BY <1>1 DEF BodyComes
<1>8. HeadsFirst(todo) => cb \notin {"body", "message_complete"}
  BY <1>1, <1>3 DEF HeadsFirst
<1>9. cb = "header_field" /\ (WholeTexts => Resembles(ContentLength, at)) =>
        HeadGoesOn(todo, 1)
  BY <1>1, <1>3, <1>4 DEF LengthsAhead
<1>10. ASSUME HeadGoesOn(todo, 1)
       PROVE  \/ cb = "headers_complete" /\ BodyGoesOn(todo', 1)
              \/ /\ cb \in {"header_field", "header_value"} /\ OneLine(at)
                 /\ HeadGoesOn(todo', 1)
  <2>1. PICK h \in 1 .. Len(todo) :
          /\ todo[h].cb = "headers_complete"
          /\ \A j \in 1 .. h - 1 :
               todo[j].cb \in {"header_field", "header_value"} /\ Plain(todo[j])
          /\ BodyGoesOn(todo, h + 1)
    BY <1>10 DEF HeadGoesOn
  <2>2. CASE h = 1
    <3>1. cb = "headers_complete" /\ d = 1
      BY <1>1, <1>2, <2>1, <2>2 DEF Data
    <3> QED
      BY <1>5, <2>1, <2>2, <3>1
  <2>3. CASE h > 1
    <3>1. 1 \in 1 .. h - 1 /\ 1 + d \in 1 .. h /\ h \in 1 + d .. Len(todo)
      BY <1>1, <2>3
    <3>2. cb \in {"header_field", "header_value"} /\ OneLine(at)
      BY <1>1, <2>1, <3>1 DEF Plain
    <3>3. \A j \in 1 + d .. h - 1 : j \in 1 .. h - 1
      BY <1>1
    <3>4. HeadGoesOn(todo, 1 + d)
      BY <2>1, <3>1, <3>3 DEF HeadGoesOn
    <3> QED
      BY <1>5, <3>2, <3>4
  <2> QED
    BY <1>1, <2>2, <2>3
<1>11. ASSUME BodyGoesOn(todo, 1)
       PROVE  cb = "message_complete" \/ (cb = "body" /\ BodyGoesOn(todo', 1))
  <2>1. PICK k \in 1 .. Len(todo) : /\ todo[k].cb = "message_complete"
                                    /\ \A j \in 1 .. k - 1 : todo[j].cb = "body"
    BY <1>11 DEF BodyGoesOn
  <2>2. CASE k = 1
    BY <1>1, <2>1, <2>2
  <2>3. CASE k > 1
    <3>1. 1 \in 1 .. k - 1 /\ k \in 1 + d .. Len(todo)
          /\ \A j \in 1 + d .. k - 1 : j \in 1 .. k - 1
      BY <1>1, <2>3
    <3>2. BodyGoesOn(todo, 1 + d)
      BY <2>1, <3>1 DEF BodyGoesOn
    <3> QED
      BY <1>1, <1>5, <2>1, <3>1, <3>2
  <2> QED
    BY <1>1, <2>2, <2>3
<1>12. cb # "headers_complete" /\ HeadsFirst(todo) => HeadsFirst(todo')
  BY <1>1, <1>5
<1> QED
  BY <1>1, <1>5, <1>6, <1>7, <1>8, <1>9, <1>10, <1>11, <1>12

-----------------------------------------------------------------------------
\* No blank line is in this text behind its first p atoms; or only at its end.
NoBlankBehind(text, p) ==
  p <= Len(text) /\ \A k \in p + 1 .. Len(text) : text[k] # Blank[1]
BlankAtEnd(text, p) ==
  /\ p < Len(text) /\ text[Len(text)] = Blank[1]
  /\ \A k \in p + 1 .. Len(text) - 1 : text[k] # Blank[1]

LEMMA LineParts == OneLine(Colon) /\ OneLine(Crlf) /\ OneLine(Original)
<1>1. ASSUME NEW a, a # "blank line" PROVE OneLine(<<a>>)
  <2>1. \A i \in DOMAIN <<a>> : <<a>>[i] = a
    OBVIOUS
  <2>2. Blank[1] = "blank line"
    BY DEF Blank
  <2> QED
    BY <1>1, <2>1, <2>2 DEF OneLine, ToSet
<1>2. ": " # "blank line" /\ "\r\n" # "blank line" /\ "X-Mumpsimus-Original-" # "blank line"
  OBVIOUS
<1> QED
  BY <1>1, <1>2 DEF Colon, Crlf, Original

LEMMA FirstOfTwo ==
  ASSUME NEW S, NEW a \in Seq(S), NEW b \in Seq(S), a # <<>>
  PROVE  /\ a \o b \in Seq(S) /\ Len(a \o b) >= 1 /\ a \o b # <<>>
         /\ (a \o b)[1] = a[1] /\ 1 \in DOMAIN (a \o b)
<1> DEFINE c == a \o b
<1>1. /\ c \in Seq(S) /\ Len(c) = Len(a) + Len(b)
      /\ Len(a) \in Nat /\ Len(b) \in Nat
      /\ DOMAIN c = 1 .. Len(a) + Len(b)
      /\ \A i \in 1 .. Len(a) : c[i] = a[i]
  BY ConcatIs
<1>2. Len(a) >= 1
  OBVIOUS
<1> HIDE DEF c
<1>3. /\ Len(c) >= 1 /\ c[1] = a[1] /\ 1 \in DOMAIN c
  BY <1>1, <1>2
<1>4. c # <<>>
  BY <1>1, <1>3
<1> QED
  BY <1>1, <1>3, <1>4 DEF c

LEMMA LineAdded ==
  ASSUME NEW text \in Text, NEW p \in Nat, NoBlankBehind(text, p),
         NEW a \in Text, OneLine(a)
  PROVE  text \o a \in Text /\ NoBlankBehind(text \o a, p)
<1> DEFINE c == text \o a
<1>1. /\ c \in Text /\ Len(c) = Len(text) + Len(a)
      /\ Len(text) \in Nat /\ Len(a) \in Nat /\ DOMAIN a = 1 .. Len(a)
      /\ \A i \in 1 .. Len(text) : c[i] = text[i]
      /\ \A i \in Len(text) + 1 .. Len(text) + Len(a) : c[i] = a[i - Len(text)]
  BY ConcatIs DEF Text
<1> HIDE DEF c
<1>2. ASSUME NEW k \in p + 1 .. Len(c) PROVE c[k] # Blank[1]
  <2>1. CASE k <= Len(text)
    BY <1>1, <2>1 DEF NoBlankBehind
  <2>2. CASE k > Len(text)
    <3>1. k - Len(text) \in DOMAIN a /\ k \in Len(text) + 1 .. Len(text) + Len(a)
      BY <1>1, <2>2
    <3>2. c[k] = a[k - Len(text)]
      BY <1>1, <3>1
    <3> QED
      BY <3>1, <3>2 DEF OneLine, ToSet
  <2> QED
    BY <1>1, <2>1, <2>2
<1>3. p <= Len(c)
  BY <1>1 DEF NoBlankBehind
<1> QED
  BY <1>1, <1>2, <1>3 DEF NoBlankBehind, c

LEMMA LineEnds ==
  ASSUME NEW text \in Text, NEW p \in Nat, NoBlankBehind(text, p)
  PROVE  BlankAtEnd(text \o Blank, p)
<1> DEFINE c == text \o Blank
<1>0. Blank \in Text /\ Len(Blank) = 1
  BY ConstantTexts DEF Blank
<1>1. /\ Len(c) = Len(text) + 1 /\ Len(text) \in Nat
      /\ \A i \in 1 .. Len(text) : c[i] = text[i]
      /\ c[Len(text) + 1] = Blank[1]
  <2>1. 1 \in 1 .. Len(Blank)
    BY <1>0
  <2> QED
    BY <1>0, <2>1, ConcatIs DEF Text
<1> HIDE DEF c
<1>2. /\ p < Len(c) /\ c[Len(c)] = Blank[1]
      /\ \A k \in p + 1 .. Len(c) - 1 : c[k] # Blank[1]
  BY <1>1 DEF NoBlankBehind
<1> QED
  BY <1>2 DEF BlankAtEnd, c

LEMMA Places ==
  /\ InLengthsHead <=> NoBlankBehind(headers, content_length_at)
  /\ HoldsLengthsHead <=> BlankAtEnd(headers, content_length_at)
  /\ InLengthsHead' <=> NoBlankBehind(headers', content_length_at')
  /\ HoldsLengthsHead' <=> BlankAtEnd(headers', content_length_at')
BY DEF InLengthsHead, HoldsLengthsHead, NoBlankBehind, BlankAtEnd

-----------------------------------------------------------------------------
\* The callbacks, one by one.
LEMMA UrlMeasured ==
  ASSUME TypeOK, Measured, NEW at, CbUrl(at)
  PROVE  Measured'
<1>1. /\ Calls("url", at) /\ pc' = pc
      /\ UNCHANGED <<content_length_at, do_pipe_this_message, status_line, headers, stdout>>
  BY DEF CbUrl, flags
<1>2. /\ LengthsAhead(todo)' /\ BodiesBehindHeads(todo)' /\ ~BodyComes'
      /\ HeadsFirst(todo) => HeadsFirst(todo)'
      /\ ~HeadGoesOn(todo, 1) /\ ~BodyGoesOn(todo, 1) /\ pc = "parse"
  BY <1>1, CallFacts
<1>3. LengthPlace'
  BY <1>1, <1>2 DEF Measured, LengthPlace
<1>4. StatusStarts'
  BY <1>1, <1>2 DEF Measured, StatusStarts
<1>5. HeadBeforeBody' /\ AllRight(stdout)'
  BY <1>1, <1>2 DEF Measured, HeadBeforeBody
<1> QED
  BY <1>2, <1>3, <1>4, <1>5 DEF Measured

LEMMA StatusMeasured ==
  ASSUME TypeOK, Measured, NEW at, CbStatusComplete(at)
  PROVE  Measured'
<1>1. /\ Calls("status", at) /\ pc' = pc /\ content_length_at' = -1
      /\ UNCHANGED <<status_line, stdout>>
  BY DEF CbStatusComplete
<1>2. /\ LengthsAhead(todo)' /\ BodiesBehindHeads(todo)' /\ ~BodyComes'
      /\ HeadsFirst(todo) => HeadsFirst(todo)'
      /\ pc = "parse"
  BY <1>1, CallFacts
<1>3. LengthPlace'
  BY <1>1 DEF LengthPlace
<1>4. StatusStarts'
  BY <1>1, <1>2 DEF Measured, StatusStarts
<1>5. HeadBeforeBody' /\ AllRight(stdout)'
  BY <1>1, <1>2 DEF Measured, HeadBeforeBody
<1> QED
  BY <1>2, <1>3, <1>4, <1>5 DEF Measured

LEMMA NameMeasured ==
  ASSUME TypeOK, Measured, NEW at, CbHeaderField(at)
  PROVE  Measured'
<1>1. /\ Calls("header_field", at) /\ pc' = pc
      /\ UNCHANGED <<do_pipe_this_message, status_line, stdout>>
      /\ headers' = (headers \o at) \o Colon
      /\ IF Resembles(ContentLength, at) THEN content_length_at' = Len(headers)
                                        ELSE UNCHANGED content_length_at
  BY DEF CbHeaderField, Position
<1>2. /\ LengthsAhead(todo)' /\ BodiesBehindHeads(todo)' /\ ~BodyComes'
      /\ HeadsFirst(todo) => HeadsFirst(todo)'
      /\ pc = "parse" /\ at \in Text
      /\ Resembles(ContentLength, at) => HeadGoesOn(todo, 1)
      /\ HeadGoesOn(todo, 1) => OneLine(at) /\ HeadGoesOn(todo, 1)'
      /\ ~BodyGoesOn(todo, 1)
  BY <1>1, CallFacts
<1>3. /\ headers \in Text /\ Len(headers) \in Nat
      /\ content_length_at \in Nat \union {-1}
  <2>1. headers \in Text /\ content_length_at \in Nat \union {-1}
    BY DEF TypeOK
  <2> QED
    BY <2>1, LengthIsNat DEF Text
<1>4. ASSUME HeadGoesOn(todo, 1), NEW p \in Nat, NoBlankBehind(headers, p)
      PROVE  NoBlankBehind(headers', p)
  <2>1. headers \o at \in Text /\ NoBlankBehind(headers \o at, p)
    BY <1>2, <1>3, <1>4, LineAdded
  <2> QED
    BY <1>1, <2>1, ConstantTexts, LineParts, LineAdded
<1>5. LengthPlace'
  <2> SUFFICES ASSUME content_length_at' >= 0
               PROVE  HeadGoesOn(todo, 1)' /\ InLengthsHead'
    BY <1>1, <1>2 DEF LengthPlace
  <2>1. CASE Resembles(ContentLength, at)
    <3>1. content_length_at' = Len(headers)
      BY <1>1, <2>1
    <3>2. NoBlankBehind(headers, Len(headers))
      BY <1>3 DEF NoBlankBehind
    <3> QED
      BY <1>2, <1>3, <1>4, <2>1, <3>1, <3>2, Places
  <2>2. CASE ~Resembles(ContentLength, at)
    <3>1. content_length_at' = content_length_at
      BY <1>1, <2>2
    <3>2. content_length_at >= 0 /\ content_length_at \in Nat
      BY <1>3, <2>2, <3>1
    <3>3. HeadGoesOn(todo, 1) /\ InLengthsHead
      BY <1>2, <3>2 DEF Measured, LengthPlace
    <3> QED
      BY <1>2, <1>4, <3>1, <3>2, <3>3, Places
  <2> QED
    BY <2>1, <2>2
<1>6. StatusStarts'
  BY <1>1, <1>2 DEF Measured, StatusStarts
<1>7. HeadBeforeBody' /\ AllRight(stdout)'
  BY <1>1, <1>2 DEF Measured, HeadBeforeBody
<1> QED
  BY <1>2, <1>5, <1>6, <1>7 DEF Measured

LEMMA ValueMeasured ==
  ASSUME TypeOK, Measured, NEW at, CbHeaderValue(at)
  PROVE  Measured'
<1>1. /\ Calls("header_value", at) /\ pc' = pc
      /\ UNCHANGED <<content_length_at, status_line, stdout>>
      /\ headers' = (headers \o at) \o Crlf
  BY DEF CbHeaderValue
<1>2. /\ LengthsAhead(todo)' /\ BodiesBehindHeads(todo)' /\ ~BodyComes'
      /\ HeadsFirst(todo) => HeadsFirst(todo)'
      /\ pc = "parse" /\ at \in Text
      /\ HeadGoesOn(todo, 1) => OneLine(at) /\ HeadGoesOn(todo, 1)'
      /\ ~BodyGoesOn(todo, 1)
  BY <1>1, CallFacts
<1>3. headers \in Text /\ content_length_at \in Nat \union {-1}
  BY DEF TypeOK
<1>4. LengthPlace'
  <2> SUFFICES ASSUME content_length_at >= 0
               PROVE  HeadGoesOn(todo, 1)' /\ InLengthsHead'
    BY <1>1, <1>2 DEF LengthPlace
  <2>1. content_length_at \in Nat
    BY <1>3
  <2>2. HeadGoesOn(todo, 1) /\ NoBlankBehind(headers, content_length_at)
    BY <1>2, <2>1, Places DEF Measured, LengthPlace
  <2>3. /\ headers \o at \in Text
        /\ NoBlankBehind(headers \o at, content_length_at)
    BY <1>2, <1>3, <2>1, <2>2, LineAdded
  <2>4. NoBlankBehind(headers', content_length_at)
    BY <1>1, <2>1, <2>3, ConstantTexts, LineParts, LineAdded
  <2> QED
    BY <1>1, <1>2, <2>2, <2>4, Places
<1>5. StatusStarts'
  BY <1>1, <1>2 DEF Measured, StatusStarts
<1>6. HeadBeforeBody' /\ AllRight(stdout)'
  BY <1>1, <1>2 DEF Measured, HeadBeforeBody
<1> QED
  BY <1>2, <1>4, <1>5, <1>6 DEF Measured

LEMMA StartLineIs ==
  ASSUME NEW target \in Text
  PROVE  /\ StartLine(target) \in Text /\ StartLine(target) # <<>>
         /\ StartLine(target)[1] = "start "
<1> DEFINE one == <<"start ">>
           two == one \o target
<1>1. one \in Seq(STRING) /\ target \in Seq(STRING) /\ Crlf \in Seq(STRING)
  BY ConstantTexts DEF Text
<1>2. one # <<>> /\ one[1] = "start "
  OBVIOUS
<1> HIDE DEF one
<1>3. two \in Seq(STRING) /\ two # <<>> /\ two[1] = "start "
  BY <1>1, <1>2, FirstOfTwo
<1> HIDE DEF two
<1> DEFINE all == two \o Crlf
<1>4. all \in Seq(STRING) /\ Len(all) >= 1
  BY <1>1, <1>3, FirstOfTwo
<1>11. all[1] = "start "
  BY <1>1, <1>3, FirstOfTwo
<1>5. StartLine(target) = Cut(all, BUFFER_MAX - 1)
  BY DEF StartLine, StartLineUncut, one, two
<1> HIDE DEF all
<1> DEFINE n == AtMost(Len(all), BUFFER_MAX - 1)
<1>6. BUFFER_MAX \in Nat /\ BUFFER_MAX > 1
  BY SizeAssumption
<1>7. Len(all) \in Nat /\ Len(all) > 0
  <2>1. Len(all) \in Nat
    BY <1>4, LengthIsNat
  <2> QED
    BY <1>4, <2>1
<1>8. n \in 1 .. Len(all)
  <2>1. ASSUME NEW a \in Nat, a > 0, NEW b \in Nat, b > 1
        PROVE  AtMost(a, b - 1) \in 1 .. a
    BY <2>1 DEF AtMost
  <2> QED
    BY <1>6, <1>7, <2>1
<1> HIDE DEF n
<1>9. /\ SubSeq(all, 1, n) \in Seq(STRING) /\ SubSeq(all, 1, n) # <<>>
      /\ SubSeq(all, 1, n)[1] = all[1]
  <2>1. n \in 0 .. Len(all) /\ n >= 1 /\ n \in Nat
    BY <1>7, <1>8
  <2>2. SubSeq(all, 1, n) \in Seq(STRING) /\ Len(SubSeq(all, 1, n)) = n
    BY <1>4, <2>1, TextParts
  <2>3. \A i \in 1 .. n : SubSeq(all, 1, n)[i] = all[i]
    <3>1. 1 \in Nat \ {0} /\ 1 <= n + 1
      BY <2>1
    <3>2. \A i \in 1 .. n - 1 + 1 : SubSeq(all, 1, n)[i] = all[1 + i - 1]
      BY <1>4, <2>1, <3>1, PartIs
    <3> QED
      BY <2>1, <3>2
  <2>4. SubSeq(all, 1, n)[1] = all[1]
    <3>1. 1 \in 1 .. n
      BY <2>1
    <3> QED
      BY <2>3, <3>1, Zenon
  <2> QED
    BY <2>1, <2>2, <2>4
<1>10. Cut(all, BUFFER_MAX - 1) = SubSeq(all, 1, n)
  BY DEF Cut, n
<1> QED
  BY <1>5, <1>9, <1>10, <1>11 DEF Text

LEMMA HeadMeasured ==
  ASSUME TypeOK, Measured, CbHeadersComplete
  PROVE  Measured'
<1>1. /\ Calls("headers_complete", <<>>) /\ pc' = pc
      /\ UNCHANGED <<content_length_at, do_pipe_this_message, stdout>>
      /\ headers' = headers \o Blank /\ status_line' = StartLine(url)
  BY DEF CbHeadersComplete, flags
<1>2. /\ LengthsAhead(todo)' /\ BodiesBehindHeads(todo)'
      /\ HeadGoesOn(todo, 1) => BodyGoesOn(todo, 1)'
      /\ ~BodyGoesOn(todo, 1) /\ pc = "parse"
  BY <1>1, CallFacts
<1>3. /\ headers \in Text /\ url \in Text
      /\ content_length_at \in Nat \union {-1}
  BY DEF TypeOK
<1>4. LengthPlace'
  <2> SUFFICES ASSUME content_length_at >= 0
               PROVE  BodyGoesOn(todo, 1)' /\ HoldsLengthsHead'
    BY <1>1, <1>2 DEF LengthPlace
  <2>1. content_length_at \in Nat
    BY <1>3
  <2>2. HeadGoesOn(todo, 1) /\ NoBlankBehind(headers, content_length_at)
    BY <1>2, <2>1, Places DEF Measured, LengthPlace
  <2> QED
    BY <1>1, <1>2, <1>3, <2>1, <2>2, LineEnds, Places
<1>5. StatusStarts'
  BY <1>1, <1>3, StartLineIs DEF StatusStarts
<1>6. headers' # <<>>
  <2>1. ASSUME NEW a \in Text PROVE a \o Blank # <<>>
    BY DEF Text, Blank
  <2> QED
    BY <1>1, <1>3, <2>1
<1>7. HeadBeforeBody' /\ AllRight(stdout)'
  BY <1>1, <1>2, <1>6 DEF Measured, HeadBeforeBody
<1> QED
  BY <1>2, <1>4, <1>5, <1>7 DEF Measured

LEMMA PipedPieceMeasured ==
  ASSUME TypeOK, Measured, NEW at, CbBodyPiped(at)
  PROVE  Measured'
<1>1. /\ Calls("body", at) /\ pc' \in {"write", "aborted"}
      /\ UNCHANGED <<content_length_at, do_pipe_this_message, status_line, headers, stdout>>
  BY DEF CbBodyPiped, parsed, flags
<1>2. /\ LengthsAhead(todo)' /\ BodiesBehindHeads(todo)' /\ BodyComes
      /\ HeadsFirst(todo) => FALSE
      /\ ~HeadGoesOn(todo, 1) /\ pc = "parse"
      /\ BodyGoesOn(todo, 1) => BodyGoesOn(todo, 1)'
  BY <1>1, CallFacts
<1>3. HoldsLengthsHead => HoldsLengthsHead'
  BY <1>1 DEF HoldsLengthsHead
<1>4. LengthPlace'
  BY <1>1, <1>2, <1>3 DEF Measured, LengthPlace
<1>5. StatusStarts'
  BY <1>1, <1>2 DEF Measured, StatusStarts
<1>6. HeadBeforeBody' /\ AllRight(stdout)'
  BY <1>1, <1>2 DEF Measured, HeadBeforeBody
<1> QED
  BY <1>2, <1>4, <1>5, <1>6 DEF Measured

LEMMA FirstOf ==
  ASSUME NEW who \in Sources, NEW a \in Text, a # <<>>, NEW b \in Text
  PROVE  /\ By(who, a \o b) # <<>> /\ By(who, a \o b)[1] = <<who, a[1]>>
<1>1. a \o b \in Text /\ Len(a \o b) >= 1 /\ (a \o b)[1] = a[1] /\ 1 \in DOMAIN (a \o b)
  BY FirstOfTwo DEF Text
<1>2. By(who, a \o b) \in Seq(Atoms)
  BY <1>1, ByType
<1>3. 1 \in DOMAIN By(who, a \o b) /\ By(who, a \o b)[1] = <<who, (a \o b)[1]>>
  BY <1>2 DEF By
<1>4. By(who, a \o b) # <<>>
  BY <1>2, <1>3
<1> QED
  BY <1>1, <1>3, <1>4

LEMMA CopiedPieceMeasured ==
  ASSUME TypeOK, Measured, NEW at, CbBodyCopied(at)
  PROVE  Measured'
<1> DEFINE head == IF headers = <<>> THEN <<>> ELSE status_line \o headers
           out == By("tool", head \o at)
<1>1. /\ Calls("body", at) /\ pc' = pc /\ ~do_pipe_this_message
      /\ UNCHANGED <<content_length_at, do_pipe_this_message, status_line>>
      /\ stdout' = stdout \o out
  BY DEF CbBodyCopied, flags
<1>2. /\ LengthsAhead(todo)' /\ BodiesBehindHeads(todo)' /\ BodyComes
      /\ HeadsFirst(todo) => FALSE
      /\ ~HeadGoesOn(todo, 1) /\ pc = "parse" /\ at \in Text
      /\ BodyGoesOn(todo, 1) => BodyGoesOn(todo, 1)'
  BY <1>1, CallFacts
<1>3. /\ headers \in Text /\ status_line \in Text /\ stdout \in W
      /\ <<>> \in Text
  BY ConstantTexts DEF TypeOK, W
<1>4. LengthPlace'
  BY <1>1, <1>2 DEF Measured, LengthPlace
<1>5. status_line # <<>> /\ status_line[1] = "start "
  BY <1>2 DEF Measured, StatusStarts
<1>6. StatusStarts'
  BY <1>1, <1>5 DEF StatusStarts
<1>7. out \in Seq(Atoms)
  <2>1. head \o at \in Text
    BY <1>2, <1>3, TextConcat
  <2> QED
    BY <2>1, ByType DEF Sources
<1>8. (out # <<>> /\ out[1] = StartAtom) \/ AllEnded(stdout)
  <2>1. CASE headers = <<>>
    BY <1>2, <2>1 DEF Measured, HeadBeforeBody
  <2>2. CASE headers # <<>>
    <3> DEFINE more == headers \o at
    <3>a. head = status_line \o headers /\ at \in Text /\ headers \in Text /\ status_line \in Text
      BY <1>2, <1>3, <2>2
    <3>b. (status_line \o headers) \o at = status_line \o more
      BY <3>a, WordsRegrouped
    <3>1. more \in Text /\ head \o at = status_line \o more
      BY <3>a, <3>b, TextConcat
    <3> HIDE DEF head, more
    <3>2. /\ By("tool", status_line \o more) # <<>>
          /\ By("tool", status_line \o more)[1] = <<"tool", status_line[1]>>
      BY <1>3, <1>5, <3>1, FirstOf DEF Sources
    <3> QED
      BY <1>5, <3>1, <3>2 DEF StartAtom
  <2> QED
    BY <2>1, <2>2
<1> HIDE DEF out
<1>9. out \in W /\ NoLengths(out) /\ AllRight(out) /\ AllRight(stdout)
  BY <1>7, AtomsNoLengths DEF Measured
<1>10. AllRight(stdout \o out) /\ AllEnded(stdout \o out)
  BY <1>3, <1>8, <1>9, RightAppended, EndedAppended
<1>11. AllRight(stdout)' /\ AllEnded(stdout)'
  BY <1>1, <1>10
<1>12. HeadBeforeBody'
  BY <1>1, <1>2, <1>11 DEF HeadBeforeBody
<1> QED
  BY <1>2, <1>4, <1>6, <1>11, <1>12 DEF Measured

LEMMA EndMeasured ==
  ASSUME TypeOK, Measured, CbMessageCompleteCopied \/ CbMessageCompletePiped
  PROVE  Measured'
<1>1. /\ Calls("message_complete", <<>>)
      /\ UNCHANGED <<do_pipe_this_message, status_line, headers, stdout>>
      /\ \/ content_length_at' = -1 /\ pc' = pc
         \/ /\ UNCHANGED content_length_at /\ pc' \in {"drain", "aborted"}
            /\ do_pipe_this_message
  BY DEF CbMessageCompleteCopied, CbMessageCompletePiped, parsed, flags
<1>2. /\ LengthsAhead(todo)' /\ BodiesBehindHeads(todo)' /\ ~BodyComes'
      /\ HeadsFirst(todo) => FALSE
      /\ ~HeadGoesOn(todo, 1) /\ pc = "parse"
  BY <1>1, CallFacts
<1>3. HoldsLengthsHead /\ UNCHANGED content_length_at => HoldsLengthsHead'
  BY <1>1 DEF HoldsLengthsHead
<1>4. LengthPlace'
  <2>1. CASE content_length_at' = -1
    BY <2>1 DEF LengthPlace
  <2>2. CASE UNCHANGED content_length_at /\ pc' \in {"drain", "aborted"} /\ do_pipe_this_message
    BY <1>2, <1>3, <2>2 DEF Measured, LengthPlace
  <2> QED
    BY <1>1, <2>1, <2>2
<1>5. StatusStarts'
  BY <1>1, <1>2 DEF Measured, StatusStarts
<1>6. HeadBeforeBody' /\ AllRight(stdout)'
  BY <1>1, <1>2 DEF Measured, HeadBeforeBody
<1> QED
  BY <1>2, <1>4, <1>5, <1>6 DEF Measured

-----------------------------------------------------------------------------
\* The end of a message that is piped: its head with the new length, and the
\* body that was read.
LEMMA HeadRest ==
  ASSUME NEW text \in Text, NEW p \in Nat, BlankAtEnd(text, p)
  PROVE  /\ AtMost(p, Len(text)) = p /\ p \in 0 .. Len(text)
         /\ From(text, p + 1) \in Text /\ Len(From(text, p + 1)) > 0
         /\ BlankAtEnd(From(text, p + 1), 0)
<1>1. Len(text) \in Nat /\ p < Len(text)
  BY LengthIsNat DEF Text, BlankAtEnd
<1>2. /\ SubSeq(text, p + 1, Len(text)) \in Text
      /\ Len(SubSeq(text, p + 1, Len(text))) = Len(text) - p
      /\ \A i \in 1 .. Len(text) - p : SubSeq(text, p + 1, Len(text))[i] = text[p + i]
  <2>1. /\ p + 1 \in Nat \ {0} /\ Len(text) \in 0 .. Len(text) /\ p + 1 <= Len(text) + 1
        /\ Len(text) - (p + 1) + 1 = Len(text) - p
        /\ \A i \in 1 .. Len(text) - p : p + 1 + i - 1 = p + i
    BY <1>1
  <2>2. /\ SubSeq(text, p + 1, Len(text)) \in Seq(STRING)
        /\ Len(SubSeq(text, p + 1, Len(text))) = Len(text) - (p + 1) + 1
        /\ \A i \in 1 .. Len(text) - (p + 1) + 1 :
             SubSeq(text, p + 1, Len(text))[i] = text[p + 1 + i - 1]
    <3> DEFINE first == p + 1
               last == Len(text)
    <3>1. /\ text \in Seq(STRING) /\ first \in Nat \ {0} /\ last \in 0 .. Len(text)
          /\ first <= last + 1
      BY <2>1 DEF Text
    <3>2. first = p + 1 /\ last = Len(text)
      OBVIOUS
    <3> HIDE DEF first, last
    <3>3. /\ SubSeq(text, first, last) \in Seq(STRING)
          /\ Len(SubSeq(text, first, last)) = last - first + 1
          /\ \A i \in 1 .. last - first + 1 : SubSeq(text, first, last)[i] = text[first + i - 1]
      BY <3>1, PartIs
    <3> QED
      BY <3>2, <3>3
  <2> DEFINE t == SubSeq(text, p + 1, Len(text))
  <2> HIDE DEF t
  <2>3. /\ t \in Text /\ Len(t) = Len(text) - p
        /\ \A i \in 1 .. Len(text) - p : t[i] = text[p + i]
    BY <2>1, <2>2 DEF t, Text
  <2> QED
    BY <2>3 DEF t
<1> DEFINE t == From(text, p + 1)
<1>3. /\ t \in Text /\ Len(t) = Len(text) - p
      /\ \A i \in 1 .. Len(text) - p : t[i] = text[p + i]
  BY <1>2 DEF From
<1> HIDE DEF t
<1>4. Len(t) > 0 /\ t[Len(t)] = Blank[1]
  <2>1. Len(text) - p \in 1 .. Len(text) - p /\ p + (Len(text) - p) = Len(text)
    BY <1>1
  <2> QED
    BY <1>1, <1>3, <2>1 DEF BlankAtEnd
<1>5. ASSUME NEW k \in 0 + 1 .. Len(t) - 1 PROVE t[k] # Blank[1]
  <2>1. p + k \in p + 1 .. Len(text) - 1 /\ k \in 1 .. Len(text) - p
    BY <1>1, <1>3
  <2> QED
    BY <1>3, <2>1 DEF BlankAtEnd
<1>6. AtMost(p, Len(text)) = p /\ p \in 0 .. Len(text)
  BY <1>1 DEF AtMost
<1>7. 0 < Len(t)
  BY <1>4
<1> QED
  BY <1>3, <1>4, <1>5, <1>6, <1>7 DEF BlankAtEnd, t

\* Text within a line before a head that ends.
LEMMA LineBefore ==
  ASSUME NEW a \in Text, OneLine(a), NEW b \in Text, BlankAtEnd(b, 0)
  PROVE  a \o b \in Text /\ BlankAtEnd(a \o b, 0)
<1> DEFINE c == a \o b
<1>1. /\ c \in Text /\ Len(c) = Len(a) + Len(b)
      /\ Len(a) \in Nat /\ Len(b) \in Nat /\ DOMAIN a = 1 .. Len(a)
      /\ \A i \in 1 .. Len(a) : c[i] = a[i]
      /\ \A i \in Len(a) + 1 .. Len(a) + Len(b) : c[i] = b[i - Len(a)]
  BY ConcatIs DEF Text
<1> HIDE DEF c
<1>2. Len(b) > 0 /\ b[Len(b)] = Blank[1]
      /\ \A k \in 1 .. Len(b) - 1 : b[k] # Blank[1]
  BY DEF BlankAtEnd
<1>3. c[Len(c)] = Blank[1] /\ 0 < Len(c)
  <2>1. Len(c) \in Len(a) + 1 .. Len(a) + Len(b) /\ Len(c) - Len(a) = Len(b)
    BY <1>1, <1>2
  <2> QED
    BY <1>1, <1>2, <2>1
<1>4. ASSUME NEW k \in 0 + 1 .. Len(c) - 1 PROVE c[k] # Blank[1]
  <2>1. CASE k <= Len(a)
    <3>1. k \in DOMAIN a /\ c[k] = a[k]
      BY <1>1, <2>1
    <3> QED
      BY <3>1 DEF OneLine, ToSet
  <2>2. CASE k > Len(a)
    <3>1. k - Len(a) \in 1 .. Len(b) - 1 /\ k \in Len(a) + 1 .. Len(a) + Len(b)
      BY <1>1, <2>2
    <3> QED
      BY <1>1, <1>2, <3>1
  <2> QED
    BY <1>1, <2>1, <2>2
<1> QED
  BY <1>1, <1>3, <1>4 DEF BlankAtEnd, c

LEMMA ByBlankAtEnd ==
  ASSUME NEW text \in Text, BlankAtEnd(text, 0)
  PROVE  /\ By("tool", text) \in Seq(Atoms) /\ Len(By("tool", text)) > 0
         /\ By("tool", text)[Len(By("tool", text))] = BlankAtom
         /\ \A k \in 1 .. Len(By("tool", text)) - 1 : By("tool", text)[k] # BlankAtom
<1> DEFINE y == By("tool", text)
<1>1. y \in Seq(Atoms)
  BY ByType DEF Sources
<1>2. /\ Len(y) = Len(text) /\ Len(text) \in Nat
      /\ \A k \in 1 .. Len(text) : y[k] = <<"tool", text[k]>>
  BY <1>1 DEF By, Text
<1> HIDE DEF y
<1>3. /\ Len(text) > 0 /\ text[Len(text)] = Blank[1]
      /\ \A k \in 1 .. Len(text) - 1 : text[k] # Blank[1]
  BY DEF BlankAtEnd
<1>4. Len(text) \in 1 .. Len(text) /\ \A k \in 1 .. Len(text) - 1 : k \in 1 .. Len(text)
  BY <1>2, <1>3
<1>5. Len(y) > 0 /\ y[Len(y)] = BlankAtom
  BY <1>2, <1>3, <1>4 DEF BlankAtom
<1>6. ASSUME NEW k \in 1 .. Len(y) - 1 PROVE y[k] # BlankAtom
  <2>1. y[k] = <<"tool", text[k]>> /\ text[k] # Blank[1]
    BY <1>2, <1>3, <1>4
  <2> QED
    BY <2>1 DEF BlankAtom
<1> QED
  BY <1>1, <1>5, <1>6 DEF y

LEMMA FlushMeasured ==
  ASSUME TypeOK, Fed, Measured, Flush
  PROVE  Measured'
<1> DEFINE a == By("tool", status_line)
           z == body
<1>1. /\ pc = "flush" /\ pc' = "reset" /\ UNCHANGED <<todo, status_line>>
      /\ stdout' = ((stdout \o a) \o NewHeaders) \o z
  BY DEF Flush
<1>2. /\ headers \in Text /\ status_line \in Text /\ stdout \in W
      /\ content_length_at \in Nat \union {-1} /\ z \in Seq(FromCommand)
  BY DEF TypeOK, W, Fed
<1>3. status_line # <<>> /\ status_line[1] = "start " /\ ~BodyComes
  BY <1>1 DEF Measured, StatusStarts, HeadBeforeBody
<1>4. a \in Seq(Atoms) /\ z \in Seq(Atoms)
  <2>1. FromCommand \subseteq Atoms
    BY DEF FromCommand, Atoms, Sources
  <2> QED
    BY <1>2, <2>1, ByType DEF Sources
<1>5. a # <<>> /\ a[1] = StartAtom
  <2>1. status_line \o <<>> = status_line /\ <<>> \in Text
    BY <1>2, NothingAdded, ConstantTexts DEF Text
  <2>2. By("tool", status_line \o <<>>) # <<>>
        /\ By("tool", status_line \o <<>>)[1] = <<"tool", status_line[1]>>
    BY <1>2, <1>3, <2>1, FirstOf DEF Sources
  <2> QED
    BY <1>3, <2>1, <2>2 DEF StartAtom
<1>6. /\ LengthsAhead(todo)' /\ BodiesBehindHeads(todo)' /\ HeadBeforeBody'
      /\ StatusStarts' /\ LengthPlace'
  <2>1. LengthsAhead(todo') /\ BodiesBehindHeads(todo')
    BY <1>1 DEF Measured
  <2>2. ~BodyComes'
    BY <1>1, <1>3 DEF BodyComes
  <2> QED
    BY <1>1, <1>3, <2>1, <2>2 DEF HeadBeforeBody, StatusStarts, LengthPlace
<1> HIDE DEF a, z
<1>7. ASSUME NEW out \in W, AllRight(out), out[1] = StartAtom, stdout' = stdout \o out
      PROVE  Measured'
  <2>1. AllRight(stdout \o out)
    BY <1>2, <1>7, RightAppended DEF Measured
  <2> QED
    BY <1>6, <1>7, <2>1 DEF Measured
<1>8. CASE ~(content_length_at >= 0)
  <2> DEFINE b == By("tool", headers)
             out == a \o (b \o z)
  <2>1. b \in Seq(Atoms) /\ NewHeaders = b
    BY <1>2, <1>8, ByType DEF NewHeaders, Sources
  <2> HIDE DEF b
  <2>2. b \o z \in Seq(Atoms)
    BY <1>4, <2>1, ConcatSeq
  <2>3. out \in Seq(Atoms) /\ out[1] = StartAtom
    BY <1>4, <1>5, <2>2, FirstOfTwo
  <2>4. out \in W /\ AllRight(out)
    BY <2>3, AtomsNoLengths
  <2>5. a \in W /\ b \in W /\ z \in W
    BY <1>4, <2>1, AtomsNoLengths
  <2>6. stdout \o a \in W /\ b \o z \in W
    BY <1>2, <2>5, Joined
  <2>7. /\ ((stdout \o a) \o b) \o z = (stdout \o a) \o (b \o z)
        /\ (stdout \o a) \o (b \o z) = stdout \o out
    <3>1. stdout \in W
      BY <1>2
    <3>2. ((stdout \o a) \o b) \o z = (stdout \o a) \o (b \o z)
      <4>1. stdout \o a \in W /\ b \in W /\ z \in W
        BY <2>5, <2>6
      <4> QED
        BY <4>1, Regrouped, Zenon
    <3>3. (stdout \o a) \o (b \o z) = stdout \o (a \o (b \o z))
      BY <2>5, <2>6, <3>1, Regrouped, Zenon
    <3> QED
      BY <3>2, <3>3
  <2> HIDE DEF out
  <2> QED
    BY <1>1, <1>7, <2>1, <2>3, <2>4, <2>7
<1>9. CASE content_length_at >= 0
  <2> DEFINE p == content_length_at
             front == (SubSeq(headers, 1, p) \o ContentLength) \o Colon
             back == (Crlf \o Original) \o From(headers, p + 1)
             b == By("tool", front)
             l == <<<<"length", Len(z)>>>>
             y == By("tool", back)
             out == (a \o b) \o (l \o (y \o z))
  <2>1. p \in Nat /\ BlankAtEnd(headers, p)
    BY <1>1, <1>2, <1>9, Places DEF Measured, LengthPlace
  <2>2. /\ AtMost(p, Len(headers)) = p /\ p \in 0 .. Len(headers)
        /\ From(headers, p + 1) \in Text
        /\ BlankAtEnd(From(headers, p + 1), 0)
    BY <1>2, <2>1, HeadRest
  <2>3. NewHeaders = (b \o l) \o y
    BY <1>9, <2>2 DEF NewHeaders, NewLength, z
  <2>4. front \in Text
    <3>1. SubSeq(headers, 1, p) \in Text
      BY <1>2, <2>2, TextParts DEF Text
    <3> QED
      BY <3>1, TextConcat, ConstantTexts
  <2>5. back \in Text /\ BlankAtEnd(back, 0)
    <3> DEFINE x == From(headers, p + 1)
    <3>1. x \in Text /\ BlankAtEnd(x, 0)
      BY <2>2
    <3> HIDE DEF x
    <3>2. Original \o x \in Text /\ BlankAtEnd(Original \o x, 0)
      BY <3>1, LineParts, ConstantTexts, LineBefore
    <3>3. Crlf \o (Original \o x) \in Text /\ BlankAtEnd(Crlf \o (Original \o x), 0)
      BY <3>2, LineParts, ConstantTexts, LineBefore
    <3>4. (Crlf \o Original) \o x = Crlf \o (Original \o x)
      <4>1. Crlf \in Text /\ Original \in Text /\ x \in Text
        BY <3>1, ConstantTexts
      <4> QED
        BY <4>1, WordsRegrouped, Zenon
    <3> QED
      BY <3>3, <3>4 DEF x
  <2> HIDE DEF front, back
  <2>6. /\ b \in Seq(Atoms) /\ y \in Seq(Atoms) /\ Len(y) > 0
        /\ y[Len(y)] = BlankAtom
        /\ \A k \in 1 .. Len(y) - 1 : y[k] # BlankAtom
    BY <2>4, <2>5, ByType, ByBlankAtEnd DEF Sources
  <2> HIDE DEF p, b, y
  <2>7. a \o b \in Seq(Atoms) /\ a \o b # <<>> /\ (a \o b)[1] = StartAtom
    BY <1>4, <1>5, <2>6, FirstOfTwo
  <2>8. out \in W /\ AllRight(out)
    <3> DEFINE x == a \o b
    <3>1. x \in Seq(Atoms)
      BY <2>7
    <3> HIDE DEF x
    <3>2. x \o (l \o (y \o z)) \in W /\ AllRight(x \o (l \o (y \o z)))
      BY <1>2, <2>6, <3>1, RightMessage
    <3> QED
      BY <3>2 DEF x
  <2>9. a \in W /\ b \in W /\ y \in W /\ z \in W /\ l \in W
    <3>1. Len(z) \in Nat
      BY <1>2, LengthIsNat, Zenon
    <3>2. l \in W
      BY <3>1, LengthAtom
    <3> QED
      BY <1>4, <2>6, <3>2, AtomsNoLengths
  <2> HIDE DEF l
  <2>10. /\ stdout \o a \in W /\ b \o l \in W /\ y \o z \in W
    BY <1>2, <2>9, Joined
  <2>11. l \o (y \o z) \in W /\ (b \o l) \o y \in W /\ a \o b \in W
    BY <2>9, <2>10, Joined
  <2>12. out[1] = StartAtom
    <3> DEFINE x == a \o b
               t == l \o (y \o z)
    <3>1. x \in Seq(Written) /\ t \in Seq(Written) /\ x # <<>> /\ x[1] = StartAtom
      BY <2>7, <2>11 DEF W
    <3> HIDE DEF x, t
    <3>2. (x \o t)[1] = x[1]
      BY <3>1, FirstOfTwo
    <3> QED
      BY <3>1, <3>2 DEF x, t
  <2>13. stdout' = stdout \o out
    <3> DEFINE u == stdout \o a
               v == b \o l
               t == l \o (y \o z)
               w == y \o z
    <3>1. stdout \in W /\ u \in W /\ v \in W /\ w \in W /\ t \in W /\ v \o y \in W
      BY <1>2, <2>10, <2>11
    <3>2. stdout' = (u \o (v \o y)) \o z
      BY <1>1, <2>3
    <3>3. u = stdout \o a /\ v = b \o l /\ t = l \o w /\ w = y \o z
      OBVIOUS
    <3>4. (a \o b) \o t = out
      OBVIOUS
    <3> HIDE DEF u, v, t, w, out
    <3>5. b \o t \in W /\ (v \o y) \o z = v \o w /\ (b \o l) \o w = b \o t
      <4>1. b \o t \in W
        BY <2>9, <3>1, Joined, Zenon
      <4>2. (v \o y) \o z = v \o (y \o z)
        <5>1. v \in W /\ y \in W /\ z \in W
          BY <2>9, <3>1
        <5> QED
          BY <5>1, Regrouped, Zenon
      <4>3. (b \o l) \o w = b \o (l \o w)
        <5>1. b \in W /\ l \in W /\ w \in W
          BY <2>9, <3>1
        <5> QED
          BY <5>1, Regrouped, Zenon
      <4> QED
        BY <3>3, <4>1, <4>2, <4>3
    <3>6. (u \o (v \o y)) \o z = u \o ((v \o y) \o z)
      <4>1. u \in W /\ v \o y \in W /\ z \in W
        BY <2>9, <3>1
      <4> QED
        BY <4>1, Regrouped, Zenon
    <3>7. stdout' = (stdout \o a) \o (b \o t)
      BY <3>2, <3>3, <3>5, <3>6
    <3>8. (stdout \o a) \o (b \o t) = stdout \o (a \o (b \o t))
      <4>1. stdout \in W /\ a \in W /\ b \o t \in W
        BY <2>9, <3>1, <3>5
      <4> QED
        BY <4>1, Regrouped, Zenon
    <3>9. (a \o b) \o t = a \o (b \o t)
      <4>1. a \in W /\ b \in W /\ t \in W
        BY <2>9, <3>1
      <4> QED
        BY <4>1, Regrouped, Zenon
    <3> QED
      BY <3>4, <3>7, <3>8, <3>9
  <2> HIDE DEF out
  <2> QED
    BY <1>7, <2>8, <2>12, <2>13
<1> QED
  BY <1>8, <1>9

LEMMA ResetMeasured ==
  ASSUME Measured, ResetReturns
  PROVE  Measured'
<1>1. /\ pc = "reset" /\ pc' = "parse" /\ content_length_at' = -1
      /\ UNCHANGED <<todo, status_line, stdout>>
  BY DEF ResetReturns
<1>2. /\ LengthsAhead(todo)' /\ BodiesBehindHeads(todo)' /\ AllRight(stdout)'
      /\ ~BodyComes'
      /\ HeadsFirst(todo) => HeadsFirst(todo)'
  BY <1>1 DEF Measured, HeadBeforeBody, BodyComes
<1>3. LengthPlace'
  <2>1. ~(content_length_at' >= 0)
    BY <1>1
  <2> QED
    BY <2>1 DEF LengthPlace
<1>4. HeadBeforeBody'
  BY <1>2 DEF HeadBeforeBody
<1>5. StatusStarts'
  BY <1>1, <1>2 DEF Measured, StatusStarts
<1> QED
  BY <1>2, <1>3, <1>4, <1>5 DEF Measured

LEMMA MeasuredKept ==
  ASSUME TypeOK, Fed, Measured, [Next]_vars
  PROVE  Measured'
<1> USE DEF flags, parsed, bytes, history
<1>1. ASSUME UNCHANGED <<todo, content_length_at, do_pipe_this_message, status_line,
                         headers, stdout>>,
             \/ pc' = pc \/ pc' \in {"delete", "exit", "aborted", "killed", "overrun"}
             \/ pc = "start" /\ pc' = "open"
             \/ pc \in {"open", "write"} /\ pc' = "parse"
             \/ pc = "drain" /\ pc' = "flush"
      PROVE  Measured'
  BY <1>1, QuietKept
<1>2. CASE UlogInit \/ Open
  BY <1>1, <1>2 DEF UlogInit, Open
<1>3. CASE WriteAll \/ DrainRead \/ DrainEnd \/ DrainFails
  BY <1>1, <1>3 DEF WriteAll, DrainRead, DrainEnd, DrainFails
<1>4. CASE WaitsOrReopens \/ Eof \/ InputFails \/ Delete \/ Breaks
  BY <1>1, <1>4 DEF WaitsOrReopens, Eof, InputFails, Delete, Breaks
<1>5. CASE CommandSetUp \/ CommandTakes \/ CommandPrints \/ CommandBlocks
           \/ CommandEnds \/ CommandKilled \/ CommandQuits \/ UNCHANGED vars
  BY <1>1, <1>5 DEF CommandSetUp, CommandTakes, CommandPrints, CommandBlocks,
     CommandEnds, CommandKilled, CommandQuits, rest, vars
<1>6. ASSUME NEW at, \/ CbUrl(at) \/ CbStatusComplete(at) \/ CbHeaderField(at)
                     \/ CbHeaderValue(at) \/ CbBodyPiped(at) \/ CbBodyCopied(at)
      PROVE  Measured'
  BY <1>6, UrlMeasured, StatusMeasured, NameMeasured, ValueMeasured,
     PipedPieceMeasured, CopiedPieceMeasured
<1>7. CASE CbHeadersComplete \/ CbMessageCompleteCopied \/ CbMessageCompletePiped
  BY <1>7, HeadMeasured, EndMeasured
<1>8. CASE Flush \/ ResetReturns
  BY <1>8, FlushMeasured, ResetMeasured
<1> QED
  BY <1>2, <1>3, <1>4, <1>5, <1>6, <1>7, <1>8 DEF Next, Tool, Command, Done

LEMMA SameLengthsInHeads == [Next]_vars /\ LengthsInHeads' => LengthsInHeads
<1> SUFFICES ASSUME [Next]_vars, LengthsInHeads' PROVE LengthsInHeads
  OBVIOUS
<1>1. input' = input
  BY HistoryKept
<1> QED
  BY <1>1 DEF LengthsInHeads

\* What is printed as a length, what is held of the head it is to be printed
\* in and what is still to be read agree, whether texts are whole or cut and
\* whatever fails and quits.
THEOREM LengthInvariant == Spec => []LengthInv
<1>1. Init => LengthInv
  BY LengthStarts DEF LengthInv, Fed, Measured
<1>2. TypeOK /\ LengthInv /\ [Next]_vars => LengthInv'
  <2> SUFFICES ASSUME TypeOK, LengthInv, [Next]_vars, LengthsInHeads'
               PROVE  Fed' /\ Measured'
    BY DEF LengthInv, Fed, Measured
  <2>1. Fed /\ Measured
    BY SameLengthsInHeads DEF LengthInv, Fed, Measured
  <2> QED
    BY <2>1, FedKept, MeasuredKept
<1> QED
  BY <1>1, <1>2, TypeCorrect, PTL DEF Spec

\* The length the tool prints is that of the body behind it.
THEOREM LengthsRight == Spec => []LengthIsRight
<1>1. LengthInv => LengthIsRight
  BY DEF LengthInv, LengthIsRight
<1> QED
  BY <1>1, LengthInvariant, PTL
=============================================================================
