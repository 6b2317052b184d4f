----------------------------- MODULE MCBodyTool -----------------------------
(***************************************************************************)
(* Inputs for BodyTool.                                                    *)
(***************************************************************************)
EXTENDS BodyTool

Length(value) == [name |-> ContentLength, value |-> <<value>>]
Type(value) == [name |-> ContentType, value |-> <<value>>]
Host == [name |-> <<"Host">>, value |-> <<"h">>]

Message(type, target, fields, pieces, trailers) ==
  [type |-> type, url |-> target, fields |-> fields, body |-> pieces,
   trailers |-> trailers]

Get == Message("request", <<"/">>, <<Host>>, <<>>, <<>>)
Page == Message("response", <<"OK">>, <<Type("html"), Length("2"), Host>>,
                <<<<"a1">>, <<"a2">>>>, <<>>)
Picture == Message("response", <<"OK">>, <<Length("2"), Type("gif")>>,
                   <<<<"b1", "b2">>>>, <<>>)
Post == Message("request", <<"/p">>, <<Type("html"), Length("1")>>,
                <<<<"c1">>>>, <<>>)
Drawing == Message("response", <<"OK">>, <<Type("gif"), Length("1")>>,
                   <<<<"g1">>>>, <<>>)
Untyped == Message("response", <<"OK">>, <<Host>>, <<<<"d1">>>>, <<>>)
Chunked == Message("response", <<"OK">>, <<Host>>, <<<<"e1">>>>, <<Host>>)
Large == Message("response", <<"OK">>, <<Type("html")>>,
                 <<<<"f1", "f2", "f3">>, <<"f4", "f5", "f6">>>>, <<>>)
\* A URL that is cut, and a reason phrase that is not; both make a start line
\* longer than its block.
TooLong == Message("request", <<"/", "l", "o", "n", "g", "e", "r">>, <<>>, <<>>, <<>>)
OkLong == Message("response", <<"O", "K", "l", "o", "n", "g">>, <<>>, <<<<"h1">>>>, <<>>)

Html == {<<"html">>}

WithPattern(inputs) == {[pattern |-> TRUE, messages |-> m] : m \in inputs}
WithoutPattern(inputs) == {[pattern |-> FALSE, messages |-> m] : m \in inputs}

\* Where there is a pattern every message has a type, and a body unless it
\* matches.  Without one every message is piped.
AllInputs ==
  WithPattern({<<Page, Picture, Post>>, <<Picture, Page>>, <<Post, Picture>>,
               <<Drawing, Post>>})
    \union WithoutPattern({<<Get, Page, Get>>, <<Picture, Post>>, <<Get, Untyped>>,
                           <<Chunked, Post>>, <<Large, Get>>, <<TooLong, Get>>,
                           <<OkLong, Get>>})
LargeInputs == WithoutPattern({<<Large>>})
UntypedInputs == WithPattern({<<Page, Untyped>>})
ThreeGets == WithoutPattern({<<Get, Get, Get>>})
=============================================================================
