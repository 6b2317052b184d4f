--------------------------- MODULE MCHeadersTool ---------------------------
(***************************************************************************)
(* Inputs for HeadersTool.                                                 *)
(***************************************************************************)
EXTENDS HeadersTool

Field(name, value) == [name |-> name, value |-> value]

Message(type, target, fields, body) ==
  [type |-> type, url |-> target, fields |-> fields, body |-> body,
   trailers |-> <<>>]

Get == Message("request", <<"/">>, <<Field(<<"Ho", "st">>, <<"h">>)>>, <<>>)
Post == Message("request", <<"/", "p">>, <<>>, <<<<"p1">>, <<"p2">>>>)
Ok == Message("response", <<"OK">>, <<Field(<<"Server">>, <<"g">>)>>,
              <<<<"r1", "r2">>>>)
\* A URL that is cut.
GetLong == Message("request", <<"/", "v", "e", "r", "y", "l", "o", "n", "g">>,
                   <<>>, <<>>)

\* A reason phrase that is not.
OkLong == Message("response", <<"O", "K", ",", "f", "i", "n", "e", "!">>, <<>>,
                  <<<<"r3">>>>)

\* Heads alone, bodies in several pieces, requests and responses mixed.
ShortInputs == {<<Get, Ok>>, <<Post, Get>>, <<Ok, Post>>, <<Get, Get, Ok>>}
LongUrlInputs == {<<GetLong, Ok>>}
LongReasonInputs == {<<OkLong, Get>>}
AnyUrlInputs == ShortInputs \union LongUrlInputs \union LongReasonInputs
=============================================================================
