--------------------------- MODULE CallbackStream ---------------------------
(***************************************************************************)
(* What a tool may rely on when it gives its reads to http_parser_execute: *)
(* it is called back for each message's texts in their order, with pieces  *)
(* that put together are the text, and with nothing else.  HeadersTool and *)
(* BodyTool are written against this; the parser is shown to do it.        *)
(***************************************************************************)
EXTENDS Callbacks

CONSTANT Streams  \* sequences of whole callbacks, one of which is delivered

VARIABLE todo  \* the callbacks that are still to come

Init == todo \in Streams

Deliver ==
  /\ todo # <<>>
  /\ \E at \in Pieces(todo, FALSE) : todo' \in Remaining(todo, at, FALSE)

Spec == Init /\ [][Deliver]_todo
=============================================================================
