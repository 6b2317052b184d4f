----------------------------- MODULE ByteQueue -----------------------------
(***************************************************************************)
(* What stream_buffer.h promises: a queue of bytes.  An add takes all of   *)
(* its bytes or none, a write empties the queue whether or not the         *)
(* descriptor took everything, and a write of the first length bytes keeps *)
(* whatever the descriptor did not take.                                   *)
(***************************************************************************)
EXTENDS Naturals, Sequences

CONSTANT Chunks  \* the byte strings callers add

VARIABLES queue,  \* the bytes held
          sent    \* the bytes written out, over the whole history

vars == <<queue, sent>>

Init == queue = <<>> /\ sent = <<>>

Add == \E bytes \in Chunks : queue' = queue \o bytes /\ UNCHANGED sent

Clear == queue' = <<>> /\ UNCHANGED sent

\* The first n bytes leave for the descriptor.
Send(n) == sent' = sent \o SubSeq(queue, 1, n)

Write == \E n \in 0 .. Len(queue) : Send(n) /\ queue' = <<>>

WriteTo == \E n \in 0 .. Len(queue) :
             Send(n) /\ queue' = SubSeq(queue, n + 1, Len(queue))

Next == Add \/ Clear \/ Write \/ WriteTo

Spec == Init /\ [][Next]_vars
=============================================================================
