-------------------------- MODULE CallbacksProofs --------------------------
(***************************************************************************)
(* What the tools are called back with is typed, whole or in pieces.       *)
(***************************************************************************)
EXTENDS Callbacks, SequenceLemmas

LEMMA PairsType ==
  ASSUME NEW fields \in FieldLines
  PROVE  [i \in DOMAIN fields |-> <<Name(fields[i]), Value(fields[i])>>]
           \in Seq(Seq(CallbacksWithText))
<1>1. DOMAIN fields = 1 .. Len(fields) /\ Len(fields) \in Nat
  BY DEF FieldLines
<1>2. \A i \in 1 .. Len(fields) :
        <<Name(fields[i]), Value(fields[i])>> \in Seq(CallbacksWithText)
  <2> SUFFICES ASSUME NEW i \in 1 .. Len(fields)
               PROVE  /\ Name(fields[i]) \in CallbacksWithText
                      /\ Value(fields[i]) \in CallbacksWithText
    OBVIOUS
  <2>1. fields[i] \in [name : Text, value : Text]
    BY ElementOfSeq DEF FieldLines
  <2> QED
    BY <2>1 DEF Name, Value, Callback, CallbacksWithText, Data
<1> QED
  BY <1>1, <1>2

LEMMA FieldCallbacksType ==
  ASSUME NEW fields \in FieldLines
  PROVE  FieldCallbacks(fields) \in Seq(CallbacksWithText)
BY PairsType, FlattenType DEF FieldCallbacks

LEMMA CallbacksOfType ==
  ASSUME NEW message \in Messages
  PROVE  CallbacksOf(message) \in Seq(CallbacksWithText)
<1>1. /\ message.url \in Text /\ message.fields \in FieldLines
      /\ message.body \in Seq(Text) /\ message.trailers \in FieldLines
  BY DEF Messages
<1>2. StartCallbacks(message) \in Seq(CallbacksWithText)
  <2>1. /\ Callback("url", message.url) \in CallbacksWithText
        /\ Callback("status", message.url) \in CallbacksWithText
    BY <1>1 DEF Callback, CallbacksWithText, Data
  <2>2. /\ RequestLine(message) \in Seq(CallbacksWithText)
        /\ StatusLine(message) \in Seq(CallbacksWithText)
    BY <2>1 DEF RequestLine, StatusLine
  <2> QED
    BY <2>2 DEF StartCallbacks
<1>3. <<HeadersComplete>> \in Seq(CallbacksWithText)
      /\ <<MessageComplete>> \in Seq(CallbacksWithText)
  BY DEF HeadersComplete, MessageComplete, Callback, CallbacksWithText, Text
<1>4. BodyCallbacks(message.body) \in Seq(CallbacksWithText)
  <2>1. \A i \in 1 .. Len(message.body) :
          Callback("body", message.body[i]) \in CallbacksWithText
    BY <1>1 DEF Callback, CallbacksWithText, Data
  <2> QED
    BY <1>1, <2>1 DEF BodyCallbacks
<1>5. /\ FieldCallbacks(message.fields) \in Seq(CallbacksWithText)
      /\ FieldCallbacks(message.trailers) \in Seq(CallbacksWithText)
  BY <1>1, FieldCallbacksType
<1> QED
  BY <1>2, <1>3, <1>4, <1>5 DEF CallbacksOf

LEMMA StreamType ==
  ASSUME NEW messages \in Seq(Messages)
  PROVE  Stream(messages) \in Seq(CallbacksWithText)
<1> DEFINE parts == [i \in DOMAIN messages |-> CallbacksOf(messages[i])]
<1>1. \A i \in 1 .. Len(messages) :
        CallbacksOf(messages[i]) \in Seq(CallbacksWithText)
  BY CallbacksOfType
<1>2. parts \in Seq(Seq(CallbacksWithText))
  BY <1>1
<1> QED
  BY <1>2, FlattenType DEF Stream

\* A callback with one of its pieces, and what is left behind it.
LEMMA PieceType ==
  ASSUME NEW todo \in Seq(CallbacksWithText), todo # <<>>, NEW whole,
         NEW at \in Pieces(todo, whole)
  PROVE  /\ at \in Text
         /\ Remaining(todo, at, whole) \subseteq Seq(CallbacksWithText)
<1> DEFINE rest == SubSeq(Head(todo).at, Len(at) + 1, Len(Head(todo).at))
           more == <<Callback(Head(todo).cb, rest)>> \o Tail(todo)
<1>1. Head(todo) \in CallbacksWithText /\ Tail(todo) \in Seq(CallbacksWithText)
  OBVIOUS
<1>2. Head(todo).at \in Seq(STRING)
      /\ Head(todo).cb \in Data \union {"headers_complete", "message_complete"}
  BY <1>1 DEF CallbacksWithText, Text
<1>3. at \in Seq(STRING)
  BY <1>2 DEF Pieces, Prefixes
<1>4. rest \in Seq(STRING)
  BY <1>2, <1>3
<1>5. Callback(Head(todo).cb, rest) \in CallbacksWithText
  BY <1>2, <1>4 DEF Callback, CallbacksWithText, Text
<1>6. more \in Seq(CallbacksWithText)
  BY <1>1, <1>5
<1> HIDE DEF more, rest
<1>7. Remaining(todo, at, whole) \subseteq {more, Tail(todo)}
  BY DEF Remaining, more, rest
<1> QED
  BY <1>1, <1>3, <1>6, <1>7 DEF Text

-----------------------------------------------------------------------------
\* The callbacks of a sequence begin with those of its first element.
LEMMA BodyCallbacksType ==
  ASSUME NEW body \in Seq(Text)
  PROVE  BodyCallbacks(body) \in Seq(CallbacksWithText)
<1>1. \A i \in 1 .. Len(body) : Callback("body", body[i]) \in CallbacksWithText
  BY DEF Callback, CallbacksWithText, Data
<1> QED
  BY <1>1 DEF BodyCallbacks

HasConses(T) ==
  \A p, q \in T : Len(q) = Len(p) + 1 /\ (\A i \in 1 .. Len(p) : q[i + 1] = p[i]) =>
    q = <<q[1]>> \o p

LEMMA Conses == \A S : HasConses(Seq(S))
<1> SUFFICES ASSUME NEW S, NEW p \in Seq(S), NEW q \in Seq(S),
                    Len(q) = Len(p) + 1, \A i \in 1 .. Len(p) : q[i + 1] = p[i]
             PROVE  q = <<q[1]>> \o p
  BY DEF HasConses
<1> DEFINE one == <<q[1]>>
<1>1. /\ one \in Seq(S) /\ Len(one) = 1 /\ one[1] = q[1] /\ Len(p) \in Nat
      /\ \A i \in 1 .. Len(p) : 1 + i = i + 1
  OBVIOUS
<1> HIDE DEF one
<1>2. /\ Len(q) = Len(one) + Len(p)
      /\ \A i \in 1 .. Len(one) : q[i] = one[i]
      /\ \A i \in 1 .. Len(p) : q[Len(one) + i] = p[i]
  BY <1>1
<1>3. q = one \o p
  BY <1>1, <1>2, SameAsConcat
<1> QED
  BY <1>3 DEF one

LEMMA ConsIs ==
  ASSUME NEW S, NEW s \in Seq(S), NEW x \in S
  PROVE  /\ <<x>> \o s \in Seq(S) /\ Len(<<x>> \o s) = Len(s) + 1
         /\ (<<x>> \o s)[1] = x
         /\ \A i \in 1 .. Len(s) : (<<x>> \o s)[i + 1] = s[i]
         /\ DOMAIN (<<x>> \o s) = 1 .. Len(s) + 1 /\ Len(s) \in Nat
         /\ DOMAIN s = 1 .. Len(s)
         /\ Head(<<x>> \o s) = x /\ Tail(<<x>> \o s) = s /\ <<x>> \o s # <<>>
<1> DEFINE c == <<x>> \o s
<1>1. /\ c \in Seq(S) /\ Len(c) = Len(s) + 1 /\ c[1] = x /\ Len(s) \in Nat
      /\ \A i \in 1 .. Len(s) : c[i + 1] = s[i]
      /\ DOMAIN s = 1 .. Len(s)
  OBVIOUS
<1> HIDE DEF c
<1>2. /\ DOMAIN c = 1 .. Len(s) + 1 /\ Head(c) = x /\ c # <<>>
      /\ Tail(c) \in Seq(S) /\ Len(Tail(c)) = Len(s)
      /\ \A i \in 1 .. Len(s) : Tail(c)[i] = s[i]
  BY <1>1
<1>3. Tail(c) = s
  BY <1>2, SeqEqual
<1> QED
  BY <1>1, <1>2, <1>3 DEF c

\* No text that is given or left is longer than the one it is of.
LEMMA NoLonger ==
  ASSUME NEW todo \in Seq(CallbacksWithText), todo # <<>>, NEW whole,
         NEW at \in Pieces(todo, whole), NEW next \in Remaining(todo, at, whole)
  PROVE  /\ Len(at) <= Len(todo[1].at)
         /\ \A k \in DOMAIN next : \E i \in DOMAIN todo :
              next[k].cb = todo[i].cb /\ Len(next[k].at) <= Len(todo[i].at)
<1> DEFINE first == Head(todo)
           rest_of == SubSeq(first.at, Len(at) + 1, Len(first.at))
           left == Callback(first.cb, rest_of)
           more == <<left>> \o Tail(todo)
<1>1. /\ first = todo[1] /\ first \in CallbacksWithText
      /\ Len(todo) \in Nat \ {0} /\ DOMAIN todo = 1 .. Len(todo)
      /\ Tail(todo) \in Seq(CallbacksWithText) /\ Len(Tail(todo)) = Len(todo) - 1
      /\ DOMAIN Tail(todo) = 1 .. Len(todo) - 1
      /\ \A j \in 1 .. Len(todo) - 1 : Tail(todo)[j] = todo[j + 1]
  OBVIOUS
<1>2. /\ first.at \in Seq(STRING) /\ Len(first.at) \in Nat
      /\ \A i \in DOMAIN todo : Len(todo[i].at) \in Nat
  <2>1. \A c \in CallbacksWithText : c.at \in Seq(STRING) /\ Len(c.at) \in Nat
    BY DEF CallbacksWithText, Text
  <2>2. \A i \in DOMAIN todo : todo[i] \in CallbacksWithText
    OBVIOUS
  <2> QED
    BY <1>1, <2>1, <2>2
<1>3. at \in Seq(STRING) /\ Len(at) \in Nat
  BY PieceType DEF Text
<1>4. at = first.at \/ \E n \in 0 .. Len(first.at) : at = SubSeq(first.at, 1, n)
  BY <1>2 DEF Pieces, Prefixes
<1> HIDE DEF first
<1>5. Len(at) <= Len(first.at)
  BY <1>2, <1>4
<1>6. rest_of \in Seq(STRING) /\ Len(rest_of) <= Len(first.at)
  BY <1>2, <1>3, <1>5
<1>7. next = Tail(todo) \/ next = more
  BY DEF Remaining, first
<1>8. left.cb = first.cb /\ left.at = rest_of /\ left \in CallbacksWithText
  BY <1>1, <1>6 DEF Callback, CallbacksWithText, Text
<1> HIDE DEF rest_of, left
<1>9. /\ more[1] = left /\ DOMAIN more = 1 .. Len(todo)
      /\ \A j \in 1 .. Len(todo) - 1 : more[j + 1] = todo[j + 1]
  <2>1. /\ more[1] = left /\ DOMAIN more = 1 .. Len(Tail(todo)) + 1
        /\ \A j \in 1 .. Len(Tail(todo)) : more[j + 1] = Tail(todo)[j]
    BY <1>1, <1>8, ConsIs
  <2> HIDE DEF more
  <2> QED
    BY <1>1, <2>1
<1> HIDE DEF more
<1>10. ASSUME NEW k \in DOMAIN next
       PROVE  \E i \in DOMAIN todo :
                next[k].cb = todo[i].cb /\ Len(next[k].at) <= Len(todo[i].at)
  <2>1. CASE next = Tail(todo)
    <3>1. k \in 1 .. Len(todo) - 1 /\ k + 1 \in DOMAIN todo /\ next[k] = todo[k + 1]
      BY <1>1, <2>1
    <3> QED
      BY <1>2, <3>1
  <2>2. CASE next = more /\ k = 1
    <3>1. 1 \in DOMAIN todo /\ next[k] = left
      BY <1>1, <1>9, <2>2
    <3> QED
      BY <1>1, <1>6, <1>8, <3>1
  <2>3. CASE next = more /\ k # 1
    <3>1. k - 1 \in 1 .. Len(todo) - 1 /\ (k - 1) + 1 = k /\ k \in DOMAIN todo
      BY <1>1, <1>9, <2>3
    <3>2. next[k] = todo[k]
      BY <1>9, <2>3, <3>1
    <3> QED
      BY <1>2, <3>1, <3>2
  <2> QED
    BY <1>7, <2>1, <2>2, <2>3
<1> QED
  BY <1>1, <1>5, <1>10

LEMMA BodyCallbacksCons ==
  ASSUME NEW body \in Seq(Text), NEW x \in Text
  PROVE  BodyCallbacks(<<x>> \o body) = <<Callback("body", x)>> \o BodyCallbacks(body)
<1> DEFINE more == <<x>> \o body
           p == BodyCallbacks(body)
           q == BodyCallbacks(more)
<1>1. /\ more \in Seq(Text) /\ Len(more) = Len(body) + 1 /\ more[1] = x
      /\ \A i \in 1 .. Len(body) : more[i + 1] = body[i]
      /\ Len(body) \in Nat /\ DOMAIN body = 1 .. Len(body)
      /\ DOMAIN more = 1 .. Len(body) + 1
  BY ConsIs
<1> HIDE DEF more
<1>2. p \in Seq(CallbacksWithText) /\ q \in Seq(CallbacksWithText)
  BY <1>1, BodyCallbacksType
<1>3. /\ Len(p) = Len(body) /\ Len(q) = Len(body) + 1
      /\ q[1] = Callback("body", x) /\ q[1] \in CallbacksWithText
      /\ \A i \in 1 .. Len(body) : q[i + 1] = p[i]
  BY <1>1, <1>2 DEF BodyCallbacks
<1> HIDE DEF p, q
<1>4. q = <<q[1]>> \o p
  <2>1. HasConses(Seq(CallbacksWithText))
    BY Conses, Zenon
  <2> QED
    BY <1>2, <1>3, <2>1 DEF HasConses
<1> QED
  BY <1>3, <1>4 DEF p, q, more

LEMMA FieldCallbacksCons ==
  ASSUME NEW fields \in FieldLines, NEW x \in [name : Text, value : Text]
  PROVE  FieldCallbacks(<<x>> \o fields) =
           <<Name(x), Value(x)>> \o FieldCallbacks(fields)
<1> DEFINE more == <<x>> \o fields
           p == [i \in DOMAIN fields |-> <<Name(fields[i]), Value(fields[i])>>]
           q == [i \in DOMAIN more |-> <<Name(more[i]), Value(more[i])>>]
<1>1. fields \in Seq([name : Text, value : Text])
  BY DEF FieldLines
<1>2. /\ more \in Seq([name : Text, value : Text])
      /\ Len(more) = Len(fields) + 1 /\ more[1] = x
      /\ \A i \in 1 .. Len(fields) : more[i + 1] = fields[i]
      /\ Len(fields) \in Nat /\ DOMAIN fields = 1 .. Len(fields)
      /\ DOMAIN more = 1 .. Len(fields) + 1
  BY <1>1, ConsIs
<1> HIDE DEF more
<1>3. p \in Seq(Seq(CallbacksWithText)) /\ q \in Seq(Seq(CallbacksWithText))
  BY <1>1, <1>2, PairsType DEF FieldLines
<1>4. /\ Len(p) = Len(fields) /\ Len(q) = Len(fields) + 1
      /\ q[1] = <<Name(x), Value(x)>> /\ q[1] \in Seq(CallbacksWithText)
      /\ \A i \in 1 .. Len(fields) : q[i + 1] = p[i]
  BY <1>2, <1>3
<1> HIDE DEF p, q
<1>5. q = <<q[1]>> \o p
  <2> DEFINE T == Seq(Seq(CallbacksWithText))
  <2>1. HasConses(T)
    BY Conses, Zenon
  <2>2. p \in T /\ q \in T
    BY <1>3
  <2> HIDE DEF T
  <2> QED
    BY <1>4, <2>1, <2>2 DEF HasConses
<1>6. FlattenSeq(q) = q[1] \o FlattenSeq(p)
  BY <1>3, <1>4, <1>5, FlattenCons
<1> QED
  BY <1>4, <1>6 DEF FieldCallbacks, p, q, more

\* The callbacks of messages are those of the first and then those of the
\* others.
LEMMA StreamCons ==
  ASSUME NEW messages \in Seq(Messages), NEW x \in Messages
  PROVE  Stream(<<x>> \o messages) = CallbacksOf(x) \o Stream(messages)
<1> DEFINE more == <<x>> \o messages
           p == [i \in DOMAIN messages |-> CallbacksOf(messages[i])]
           q == [i \in DOMAIN more |-> CallbacksOf(more[i])]
<1>1. /\ more \in Seq(Messages)
      /\ Len(more) = Len(messages) + 1 /\ more[1] = x
      /\ \A i \in 1 .. Len(messages) : more[i + 1] = messages[i]
      /\ Len(messages) \in Nat /\ DOMAIN messages = 1 .. Len(messages)
      /\ DOMAIN more = 1 .. Len(messages) + 1
  BY ConsIs
<1> HIDE DEF more
<1>2. /\ \A i \in 1 .. Len(messages) : CallbacksOf(messages[i]) \in Seq(CallbacksWithText)
      /\ \A i \in 1 .. Len(more) : CallbacksOf(more[i]) \in Seq(CallbacksWithText)
  BY <1>1, CallbacksOfType
<1>3. p \in Seq(Seq(CallbacksWithText)) /\ q \in Seq(Seq(CallbacksWithText))
  BY <1>1, <1>2
<1>4. /\ Len(p) = Len(messages) /\ Len(q) = Len(messages) + 1
      /\ q[1] = CallbacksOf(x) /\ q[1] \in Seq(CallbacksWithText)
      /\ \A i \in 1 .. Len(messages) : q[i + 1] = p[i]
  BY <1>1, <1>3
<1> HIDE DEF p, q
<1>5. q = <<q[1]>> \o p
  <2> DEFINE T == Seq(Seq(CallbacksWithText))
  <2>1. HasConses(T)
    BY Conses, Zenon
  <2>2. p \in T /\ q \in T
    BY <1>3
  <2> HIDE DEF T
  <2> QED
    BY <1>4, <2>1, <2>2 DEF HasConses
<1>6. FlattenSeq(q) = q[1] \o FlattenSeq(p)
  BY <1>3, <1>4, <1>5, FlattenCons
<1> QED
  BY <1>4, <1>6 DEF Stream, p, q, more
-----------------------------------------------------------------------------
\* What is left of a sequence begins with its next element.
HasRests(S, T) ==
  \A s \in T :
    /\ Rest(s, 0) = s /\ Rest(s, Len(s)) = <<>>
    /\ \A j \in 0 .. Len(s) : Rest(s, j) \in T
    /\ \A j \in 0 .. Len(s) - 1 : s[j + 1] \in S /\ Rest(s, j) = <<s[j + 1]>> \o Rest(s, j + 1)

LEMMA Rests == \A S : HasRests(S, Seq(S))
<1> SUFFICES ASSUME NEW S, NEW s \in Seq(S) 
             PROVE  /\ Rest(s, 0) = s /\ Rest(s, Len(s)) = <<>>
                    /\ \A j \in 0 .. Len(s) : Rest(s, j) \in Seq(S)
                    /\ \A j \in 0 .. Len(s) - 1 : s[j + 1] \in S /\ Rest(s, j) = <<s[j + 1]>> \o Rest(s, j + 1)
  BY DEF HasRests
<1>1. Len(s) \in Nat
  OBVIOUS
<1>2. Rest(s, 0) = s
  BY <1>1, NothingAdded DEF Rest
<1>3. ASSUME NEW j \in 0 .. Len(s)
      PROVE  /\ Rest(s, j) \in Seq(S) /\ Len(Rest(s, j)) = Len(s) - j
             /\ \A i \in 1 .. Len(s) - j : Rest(s, j)[i] = s[j + i]
  <2>1. /\ j + 1 \in Nat \ {0} /\ Len(s) \in 0 .. Len(s) /\ j + 1 <= Len(s) + 1
        /\ Len(s) - (j + 1) + 1 = Len(s) - j
        /\ \A i \in 1 .. Len(s) - j : (j + 1) + i - 1 = j + i
    BY <1>1
  <2>2. /\ Rest(s, j) \in Seq(S) /\ Len(Rest(s, j)) = Len(s) - (j + 1) + 1
        /\ \A i \in 1 .. Len(s) - (j + 1) + 1 : Rest(s, j)[i] = s[(j + 1) + i - 1]
    <3>1. /\ SubSeq(s, j + 1, Len(s)) \in Seq(S)
          /\ Len(SubSeq(s, j + 1, Len(s))) = Len(s) - (j + 1) + 1
          /\ \A i \in 1 .. Len(s) - (j + 1) + 1 :
               SubSeq(s, j + 1, Len(s))[i] = s[(j + 1) + i - 1]
      <4> DEFINE k == j + 1
                 n == Len(s)
      <4>1. k \in Nat \ {0} /\ n \in 0 .. Len(s) /\ k <= n + 1
        BY <2>1
      <4> HIDE DEF k, n
      <4>2. /\ SubSeq(s, k, n) \in Seq(S) /\ Len(SubSeq(s, k, n)) = n - k + 1
            /\ \A i \in 1 .. n - k + 1 : SubSeq(s, k, n)[i] = s[k + i - 1]
        BY <4>1, PartIs
      <4> QED
        BY <4>2 DEF k, n
    <3> QED
      BY <3>1, Zenon DEF Rest
  <2> QED
    BY <2>1, <2>2
<1>4. Rest(s, Len(s)) = <<>>
  <2>1. Rest(s, Len(s)) \in Seq(S) /\ Len(Rest(s, Len(s))) = 0
    BY <1>1, <1>3
  <2> QED
    BY <2>1
<1>5. ASSUME NEW j \in 0 .. Len(s) - 1
      PROVE  s[j + 1] \in S /\ Rest(s, j) = <<s[j + 1]>> \o Rest(s, j + 1)
  <2> DEFINE p == Rest(s, j + 1)
             q == Rest(s, j)
  <2>1. /\ p \in Seq(S) /\ Len(p) = Len(s) - (j + 1)
        /\ \A i \in 1 .. Len(s) - (j + 1) : p[i] = s[(j + 1) + i]
    BY <1>1, <1>3
  <2>2. /\ q \in Seq(S) /\ Len(q) = Len(s) - j
        /\ \A i \in 1 .. Len(s) - j : q[i] = s[j + i]
    <3>1. j \in 0 .. Len(s)
      BY <1>1
    <3> QED
      BY <1>3, <3>1
  <2> HIDE DEF p, q
  <2>3. /\ Len(q) = Len(p) + 1 /\ q[1] = s[j + 1] /\ s[j + 1] \in S
        /\ \A i \in 1 .. Len(p) : q[i + 1] = p[i]
    <3>1. /\ j + 1 \in 1 .. Len(s) /\ 1 \in 1 .. Len(s) - j /\ Len(s) - j = (Len(s) - (j + 1)) + 1
      BY <1>1
    <3>2. Len(q) = Len(p) + 1 /\ q[1] = s[j + 1] /\ s[j + 1] \in S
      BY <2>1, <2>2, <3>1
    <3>3. ASSUME NEW i \in 1 .. Len(p) PROVE q[i + 1] = p[i]
      <4>1. /\ i \in 1 .. Len(s) - (j + 1) /\ i + 1 \in 1 .. Len(s) - j
            /\ (j + 1) + i = j + (i + 1)
        BY <1>1, <2>1
      <4>2. p[i] = s[(j + 1) + i]
        BY <2>1, <4>1, Zenon
      <4>3. q[i + 1] = s[j + (i + 1)]
        BY <2>2, <4>1, Zenon
      <4> QED
        BY <4>1, <4>2, <4>3, Zenon
    <3> QED
      BY <3>2, <3>3
  <2>4. q = <<q[1]>> \o p
    <3>1. HasConses(Seq(S))
      BY Conses, Zenon
    <3> QED
      BY <2>1, <2>2, <2>3, <3>1 DEF HasConses
  <2> QED
    BY <2>3, <2>4 DEF p, q
<1> QED
  BY <1>2, <1>3, <1>4, <1>5

-----------------------------------------------------------------------------
\* Nothing is to come of nothing.
LEMMA NothingCalls ==
  /\ Stream(<<>>) = <<>> /\ FieldCallbacks(<<>>) = <<>>
  /\ BodyCallbacks(<<>>) = <<>>
<1>1. DOMAIN <<>> = {}
  OBVIOUS
<1>2. [i \in {} |-> CallbacksOf(<<>>[i])] = <<>>
  OBVIOUS
<1>3. [i \in {} |-> <<Name(<<>>[i]), Value(<<>>[i])>>] = <<>>
  OBVIOUS
<1>4. [i \in {} |-> Callback("body", <<>>[i])] = <<>>
  OBVIOUS
<1> QED
  BY <1>1, <1>2, <1>3, <1>4, FlattenEmpty DEF Stream, FieldCallbacks, BodyCallbacks

\* The message the tool is in, and its parts.
IsMessage(message) ==
  /\ message \in Messages
  /\ message.type \in {"request", "response"}
  /\ message.url \in Text /\ message.fields \in FieldLines
  /\ message.fields \in Seq([name : Text, value : Text])
  /\ message.body \in Seq(Text)
  /\ Len(message.fields) \in Nat /\ Len(message.body) \in Nat

LEMMA MessageParts ==
  ASSUME NEW messages \in Seq(Messages), NEW m \in 0 .. Len(messages) - 1
  PROVE  IsMessage(messages[m + 1]) /\ m + 1 \in 0 .. Len(messages) /\ m \in 0 .. Len(messages)
         /\ m \in Nat
<1>1. messages[m + 1] \in Messages
  OBVIOUS
<1> QED
  BY <1>1 DEF IsMessage, Messages, FieldLines

LEMMA CallsType ==
  ASSUME NEW messages \in Seq(Messages)
  PROVE  /\ \A m \in 0 .. Len(messages) : MessageCalls(messages, m) \in Seq(CallbacksWithText)
         /\ \A m \in 0 .. Len(messages) - 1 :
              /\ \A j \in 0 .. Len(messages[m + 1].body) :
                   BodyCalls(messages, m, j) \in Seq(CallbacksWithText)
              /\ \A j \in 0 .. Len(messages[m + 1].fields) :
                   HeadCalls(messages, m, j) \in Seq(CallbacksWithText)
              /\ \A j \in 0 .. Len(messages[m + 1].fields) - 1 :
                   ValueCalls(messages, m, j) \in Seq(CallbacksWithText)
<1>1. HasRests(Messages, Seq(Messages))
  BY Rests, Zenon
<1>2. HasRests(Text, Seq(Text))
  BY Rests, Zenon
<1>3. HasRests([name : Text, value : Text], Seq([name : Text, value : Text]))
  BY Rests, Zenon
<1>4. /\ <<HeadersComplete>> \in Seq(CallbacksWithText)
      /\ <<MessageComplete>> \in Seq(CallbacksWithText)
  BY DEF HeadersComplete, MessageComplete, Callback, CallbacksWithText, Text
<1>5. ASSUME NEW m \in 0 .. Len(messages)
      PROVE  MessageCalls(messages, m) \in Seq(CallbacksWithText)
  BY <1>1, StreamType DEF MessageCalls, HasRests
<1>6. ASSUME NEW m \in 0 .. Len(messages) - 1, NEW j \in 0 .. Len(messages[m + 1].body)
      PROVE  BodyCalls(messages, m, j) \in Seq(CallbacksWithText)
  <2>1. IsMessage(messages[m + 1]) /\ MessageCalls(messages, m + 1) \in Seq(CallbacksWithText)
    BY <1>5, MessageParts
  <2>2. Rest(messages[m + 1].body, j) \in Seq(Text)
    BY <1>2, <2>1 DEF HasRests, IsMessage
  <2>3. BodyCallbacks(Rest(messages[m + 1].body, j)) \in Seq(CallbacksWithText)
    BY <2>2, BodyCallbacksType
  <2> QED
    BY <1>4, <2>1, <2>3 DEF BodyCalls
<1>7. ASSUME NEW m \in 0 .. Len(messages) - 1, NEW j \in 0 .. Len(messages[m + 1].fields)
      PROVE  HeadCalls(messages, m, j) \in Seq(CallbacksWithText)
  <2>1. IsMessage(messages[m + 1]) /\ BodyCalls(messages, m, 0) \in Seq(CallbacksWithText)
    <3>1. IsMessage(messages[m + 1])
      BY MessageParts
    <3>2. 0 \in 0 .. Len(messages[m + 1].body)
      BY <3>1 DEF IsMessage
    <3> QED
      BY <1>6, <3>1, <3>2
  <2>2. Rest(messages[m + 1].fields, j) \in FieldLines
    BY <1>3, <2>1 DEF HasRests, IsMessage, FieldLines
  <2>3. FieldCallbacks(Rest(messages[m + 1].fields, j)) \in Seq(CallbacksWithText)
    BY <2>2, FieldCallbacksType
  <2> QED
    BY <1>4, <2>1, <2>3 DEF HeadCalls
<1>8. ASSUME NEW m \in 0 .. Len(messages) - 1, NEW j \in 0 .. Len(messages[m + 1].fields) - 1
      PROVE  ValueCalls(messages, m, j) \in Seq(CallbacksWithText)
  <2>1. IsMessage(messages[m + 1])
    BY MessageParts
  <2>2. j + 1 \in 0 .. Len(messages[m + 1].fields)
    BY <2>1 DEF IsMessage
  <2>3. messages[m + 1].fields[j + 1] \in [name : Text, value : Text]
    BY <1>3, <2>1 DEF HasRests, IsMessage
  <2>4. Value(messages[m + 1].fields[j + 1]) \in CallbacksWithText
    BY <2>3 DEF Value, Callback, CallbacksWithText, Data
  <2>5. HeadCalls(messages, m, j + 1) \in Seq(CallbacksWithText)
    BY <1>7, <2>2
  <2> QED
    BY <2>4, <2>5 DEF ValueCalls
<1> QED
  BY <1>5, <1>6, <1>7, <1>8

\* The callback that comes first, and those behind it.
First(todo, cb, at, calls) ==
  /\ todo # <<>> /\ Head(todo) = Callback(cb, at) /\ Tail(todo) = calls

LEMMA FirstIs ==
  ASSUME NEW todo, NEW cb, NEW at, NEW calls \in Seq(CallbacksWithText),
         Callback(cb, at) \in CallbacksWithText,
         todo = <<Callback(cb, at)>> \o calls
  PROVE  First(todo, cb, at, calls)
BY ConsIs DEF First

\* Before a message its request line or reason phrase is due.
LEMMA MessageFirst ==
  ASSUME NEW messages \in Seq(Messages), PlainMessages(messages),
         NEW m \in 0 .. Len(messages) - 1,
         NEW todo, todo = MessageCalls(messages, m)
  PROVE  First(todo, IF messages[m + 1].type = "request" THEN "url" ELSE "status",
               messages[m + 1].url, HeadCalls(messages, m, 0))
<1> DEFINE C == Seq(CallbacksWithText)
           msg == messages[m + 1]
           start == Callback(IF msg.type = "request" THEN "url" ELSE "status", msg.url)
           heads == FieldCallbacks(msg.fields)
           hc == <<HeadersComplete>>
           bodies == BodyCallbacks(msg.body)
           mc == <<MessageComplete>>
           more == MessageCalls(messages, m + 1)
<1>1. IsMessage(msg)
  BY MessageParts
<1>2. start \in CallbacksWithText
  BY <1>1 DEF IsMessage, Callback, CallbacksWithText, Data
<1>3. StartCallbacks(msg) = <<start>>
  <2>1. msg.type = "response" => msg.url # <<>>
    <3>1. m + 1 \in DOMAIN messages
      OBVIOUS
    <3> QED
      BY <3>1 DEF PlainMessages
  <2> QED
    BY <1>1, <2>1 DEF StartCallbacks, RequestLine, StatusLine, IsMessage
<1>4. FieldCallbacks(msg.trailers) = <<>>
  <2>1. m + 1 \in DOMAIN messages
    OBVIOUS
  <2> QED
    BY <2>1, NothingCalls DEF PlainMessages
<1>5. /\ <<start>> \in C /\ heads \in C /\ hc \in C /\ bodies \in C /\ mc \in C
      /\ more \in C
  <2>1. <<start>> \in C
    BY <1>2
  <2>2. heads \in C
    BY <1>1, FieldCallbacksType DEF IsMessage
  <2>3. hc \in C /\ mc \in C
    BY DEF HeadersComplete, MessageComplete, Callback, CallbacksWithText, Text
  <2>4. bodies \in C
    BY <1>1, BodyCallbacksType DEF IsMessage
  <2>5. more \in C
    BY CallsType, MessageParts
  <2> QED
    BY <2>1, <2>2, <2>3, <2>4, <2>5
<1>6. MessageCalls(messages, m) = CallbacksOf(msg) \o more
  <2>1. HasRests(Messages, Seq(Messages))
    BY Rests, Zenon
  <2>2. /\ Rest(messages, m) = <<msg>> \o Rest(messages, m + 1)
        /\ Rest(messages, m + 1) \in Seq(Messages)
    BY <2>1, MessageParts DEF HasRests
  <2> QED
    BY <1>1, <2>2, StreamCons DEF MessageCalls, IsMessage
<1>7. CallbacksOf(msg) = <<start>> \o heads \o hc \o bodies \o <<>> \o mc
  BY <1>3, <1>4 DEF CallbacksOf
<1>8. /\ Rest(msg.fields, 0) = msg.fields
      /\ Rest(msg.body, 0) = msg.body
  <2>1. HasRests(Text, Seq(Text))
    BY Rests, Zenon
  <2>2. HasRests([name : Text, value : Text], Seq([name : Text, value : Text]))
    BY Rests, Zenon
  <2> QED
    BY <1>1, <2>1, <2>2 DEF HasRests, IsMessage
<1>9. HeadCalls(messages, m, 0) = heads \o hc \o (bodies \o mc \o more)
  BY <1>8 DEF HeadCalls, BodyCalls
<1> HIDE DEF C, start, heads, hc, bodies, mc, more, msg
<1>10. Associative(C) /\ LengthsAdd(C)
  BY ConcatIsAssociative, ConcatLengths, Zenon DEF C
<1>11. <<start>> \o heads \o hc \o bodies \o <<>> = <<start>> \o heads \o hc \o bodies
  <2> DEFINE a == <<start>> \o heads \o hc \o bodies
  <2>1. a \in C
    <3>1. <<start>> \o heads \in C
      BY <1>5, <1>10, Zenon DEF LengthsAdd
    <3>2. <<start>> \o heads \o hc \in C
      BY <1>5, <1>10, <3>1, Zenon DEF LengthsAdd
    <3> QED
      BY <1>5, <1>10, <3>2, Zenon DEF LengthsAdd
  <2> HIDE DEF a
  <2>2. a \o <<>> = a
    BY <2>1, NothingAdded DEF C
  <2> QED
    BY <2>2 DEF a
<1>12. (<<start>> \o heads \o hc \o bodies \o mc) \o more =
         <<start>> \o (heads \o hc \o (bodies \o mc \o more))
  <2> DEFINE s == <<start>>
  <2>1. s \in C
    BY <1>5
  <2> HIDE DEF s
  <2>2. /\ heads \o hc \in C /\ bodies \o mc \in C /\ bodies \o mc \o more \in C
        /\ s \o heads \in C /\ s \o heads \o hc \in C
        /\ s \o heads \o hc \o bodies \in C
    BY <1>5, <1>10, <2>1 DEF LengthsAdd
  <2>3. s \o heads \o hc = s \o (heads \o hc)
    <3>1. s \in C /\ heads \in C /\ hc \in C
      BY <1>5, <2>1
    <3> QED
      BY <1>10, <3>1, Zenon DEF Associative
  <2>4. s \o heads \o hc \o bodies \o mc = s \o heads \o hc \o (bodies \o mc)
    <3>1. s \o heads \o hc \in C /\ bodies \in C /\ mc \in C
      BY <1>5, <2>2
    <3> QED
      BY <1>10, <3>1, Zenon DEF Associative
  <2>5. s \o heads \o hc \o (bodies \o mc) \o more = s \o heads \o hc \o (bodies \o mc \o more)
    <3>1. s \o heads \o hc \in C /\ bodies \o mc \in C /\ more \in C
      BY <1>5, <2>2
    <3> QED
      BY <1>10, <3>1, Zenon DEF Associative
  <2>6. s \o (heads \o hc) \o (bodies \o mc \o more) = s \o ((heads \o hc) \o (bodies \o mc \o more))
    <3>1. s \in C /\ heads \o hc \in C /\ bodies \o mc \o more \in C
      BY <2>1, <2>2
    <3> QED
      BY <1>10, <3>1, Zenon DEF Associative
  <2> QED
    BY <2>3, <2>4, <2>5, <2>6 DEF s
<1>13. MessageCalls(messages, m) = <<start>> \o HeadCalls(messages, m, 0)
  BY <1>6, <1>7, <1>9, <1>11, <1>12, Zenon
<1>14. HeadCalls(messages, m, 0) \in C
  <2>1. 0 \in 0 .. Len(msg.fields)
    BY <1>1 DEF IsMessage
  <2> QED
    BY <2>1, CallsType DEF C, msg
<1> QED
  BY <1>2, <1>13, <1>14, FirstIs DEF start, C, msg

\* Before a field its name is due, behind the last one the end of the head.
LEMMA HeadFirst ==
  ASSUME NEW messages \in Seq(Messages), NEW m \in 0 .. Len(messages) - 1,
         NEW j \in 0 .. Len(messages[m + 1].fields), NEW todo, todo = HeadCalls(messages, m, j)
  PROVE  IF j < Len(messages[m + 1].fields)
         THEN First(todo, "header_field", messages[m + 1].fields[j + 1].name, ValueCalls(messages, m, j))
         ELSE First(todo, "headers_complete", <<>>, BodyCalls(messages, m, 0))
<1> DEFINE C == Seq(CallbacksWithText)
           fields == messages[m + 1].fields
           field == fields[j + 1]
           hc == <<HeadersComplete>>
           body == BodyCalls(messages, m, 0)
<1>1. IsMessage(messages[m + 1])
  BY MessageParts
<1>2. HasRests([name : Text, value : Text], Seq([name : Text, value : Text]))
  BY Rests, Zenon
<1>3. HeadersComplete \in CallbacksWithText
  BY DEF HeadersComplete, Callback, CallbacksWithText, Text
<1>4. hc \in C /\ body \in C
  <2>1. 0 \in 0 .. Len(messages[m + 1].body)
    BY <1>1 DEF IsMessage
  <2> QED
    BY <1>3, <2>1, CallsType
<1>5. CASE j < Len(fields)
  <2>1. /\ j \in 0 .. Len(fields) - 1 /\ j + 1 \in 0 .. Len(fields)
    BY <1>1, <1>5 DEF IsMessage
  <2>2. /\ Rest(fields, j) = <<field>> \o Rest(fields, j + 1)
        /\ Rest(fields, j + 1) \in Seq([name : Text, value : Text])
        /\ field \in [name : Text, value : Text]
    BY <1>1, <1>2, <2>1 DEF HasRests, IsMessage
  <2> DEFINE n == <<Name(field)>>
             v == <<Value(field)>>
             rest == FieldCallbacks(Rest(fields, j + 1))
  <2>3. Name(field) \in CallbacksWithText /\ Value(field) \in CallbacksWithText
    BY <2>2 DEF Name, Value, Callback, CallbacksWithText, Data
  <2>4. n \in C /\ v \in C /\ rest \in C
    <3>1. n \in C /\ v \in C
      BY <2>3
    <3>2. Rest(fields, j + 1) \in FieldLines
      BY <2>2 DEF FieldLines
    <3>3. rest \in C
      BY <3>2, FieldCallbacksType
    <3> QED
      BY <3>1, <3>3
  <2>5. <<Name(field), Value(field)>> = n \o v
    OBVIOUS
  <2>6. FieldCallbacks(Rest(fields, j)) = n \o v \o rest
    BY <2>2, <2>5, FieldCallbacksCons DEF FieldLines
  <2>7. HeadCalls(messages, m, j) = (n \o v \o rest) \o hc \o body
    BY <2>6 DEF HeadCalls
  <2>8. ValueCalls(messages, m, j) = v \o (rest \o hc \o body)
    BY DEF ValueCalls, HeadCalls
  <2>9. Associative(C) /\ LengthsAdd(C)
    BY ConcatIsAssociative, ConcatLengths, Zenon
  <2> HIDE DEF C, n, v, rest, hc, body
  <2>10. n \o v \in C /\ v \o rest \in C /\ rest \o hc \in C /\ n \o v \o rest \in C
         /\ rest \o hc \o body \in C
    BY <1>4, <2>4, <2>9 DEF LengthsAdd
  <2>11. (n \o v \o rest) \o hc \o body = n \o (v \o (rest \o hc \o body))
    <3>1. (n \o v \o rest) \o hc = (n \o v) \o (rest \o hc)
      <4>1. n \o v \in C /\ rest \in C /\ hc \in C
        BY <1>4, <2>4, <2>10
      <4> QED
        BY <2>9, <4>1, Zenon DEF Associative
    <3>2. (n \o v) \o (rest \o hc) \o body = (n \o v) \o (rest \o hc \o body)
      <4>1. n \o v \in C /\ rest \o hc \in C /\ body \in C
        BY <1>4, <2>10
      <4> QED
        BY <2>9, <4>1, Zenon DEF Associative
    <3>3. (n \o v) \o (rest \o hc \o body) = n \o (v \o (rest \o hc \o body))
      <4>1. n \in C /\ v \in C /\ rest \o hc \o body \in C
        BY <2>4, <2>10
      <4> QED
        BY <2>9, <4>1, Zenon DEF Associative
    <3> QED
      BY <3>1, <3>2, <3>3
  <2>12. todo = <<Name(field)>> \o ValueCalls(messages, m, j)
    BY <2>7, <2>8, <2>11 DEF n
  <2>13. ValueCalls(messages, m, j) \in Seq(CallbacksWithText)
    BY <2>1, CallsType
  <2>14. First(todo, "header_field", field.name, ValueCalls(messages, m, j))
    BY <2>3, <2>12, <2>13, FirstIs DEF Name
  <2> QED
    BY <1>5, <2>14
<1>6. CASE ~(j < Len(fields))
  <2>1. j = Len(fields)
    BY <1>1, <1>6 DEF IsMessage
  <2>2. FieldCallbacks(Rest(fields, j)) = <<>>
    BY <1>1, <1>2, <2>1, NothingCalls DEF HasRests, IsMessage
  <2>3. <<>> \o hc = hc
    BY <1>4
  <2>4. todo = <<HeadersComplete>> \o BodyCalls(messages, m, 0)
    BY <2>2, <2>3 DEF HeadCalls
  <2>5. First(todo, "headers_complete", <<>>, BodyCalls(messages, m, 0))
    BY <1>3, <1>4, <2>4, FirstIs DEF HeadersComplete
  <2> QED
    BY <1>6, <2>5
<1> QED
  BY <1>5, <1>6

\* Between a name and its value the value is due.
LEMMA ValueFirst ==
  ASSUME NEW messages \in Seq(Messages), NEW m \in 0 .. Len(messages) - 1,
         NEW j \in 0 .. Len(messages[m + 1].fields) - 1, NEW todo, todo = ValueCalls(messages, m, j)
  PROVE  First(todo, "header_value", messages[m + 1].fields[j + 1].value, HeadCalls(messages, m, j + 1))
<1>1. IsMessage(messages[m + 1])
  BY MessageParts
<1>2. HasRests([name : Text, value : Text], Seq([name : Text, value : Text]))
  BY Rests, Zenon
<1>3. messages[m + 1].fields[j + 1] \in [name : Text, value : Text]
      /\ j + 1 \in 0 .. Len(messages[m + 1].fields)
  <2>1. /\ Len(messages[m + 1].fields) \in Nat
        /\ messages[m + 1].fields \in Seq([name : Text, value : Text])
    BY <1>1 DEF IsMessage
  <2>2. messages[m + 1].fields[j + 1] \in [name : Text, value : Text]
    BY <1>2, <2>1, Zenon DEF HasRests
  <2>3. j + 1 \in 0 .. Len(messages[m + 1].fields)
    BY <2>1
  <2> QED
    BY <2>2, <2>3
<1>4. Value(messages[m + 1].fields[j + 1]) \in CallbacksWithText
  BY <1>3 DEF Value, Callback, CallbacksWithText, Data
<1>5. HeadCalls(messages, m, j + 1) \in Seq(CallbacksWithText)
  BY <1>3, CallsType
<1> QED
  BY <1>4, <1>5, FirstIs DEF ValueCalls, Value

\* Before a piece of a body it is due, behind the last one the end of the
\* message.
LEMMA BodyFirst ==
  ASSUME NEW messages \in Seq(Messages), NEW m \in 0 .. Len(messages) - 1,
         NEW j \in 0 .. Len(messages[m + 1].body), NEW todo, todo = BodyCalls(messages, m, j)
  PROVE  IF j < Len(messages[m + 1].body)
         THEN First(todo, "body", messages[m + 1].body[j + 1], BodyCalls(messages, m, j + 1))
         ELSE First(todo, "message_complete", <<>>, MessageCalls(messages, m + 1))
<1> DEFINE C == Seq(CallbacksWithText)
           body == messages[m + 1].body
           mc == <<MessageComplete>>
           more == MessageCalls(messages, m + 1)
<1>1. IsMessage(messages[m + 1])
  BY MessageParts
<1>2. HasRests(Text, Seq(Text))
  BY Rests, Zenon
<1>3. MessageComplete \in CallbacksWithText
  BY DEF MessageComplete, Callback, CallbacksWithText, Text
<1>4. mc \in C /\ more \in C
  BY <1>3, CallsType, MessageParts
<1>5. CASE j < Len(body)
  <2>1. /\ j \in 0 .. Len(body) - 1 /\ j + 1 \in 0 .. Len(body)
    BY <1>1, <1>5 DEF IsMessage
  <2>2. /\ Rest(body, j) = <<body[j + 1]>> \o Rest(body, j + 1)
        /\ Rest(body, j + 1) \in Seq(Text)
        /\ body[j + 1] \in Text
    BY <1>1, <1>2, <2>1 DEF HasRests, IsMessage
  <2> DEFINE b == <<Callback("body", body[j + 1])>>
             rest == BodyCallbacks(Rest(body, j + 1))
  <2>3. Callback("body", body[j + 1]) \in CallbacksWithText
    BY <2>2 DEF Callback, CallbacksWithText, Data
  <2>4. b \in C /\ rest \in C
    BY <2>2, <2>3, BodyCallbacksType
  <2>5. BodyCallbacks(Rest(body, j)) = b \o rest
    BY <2>2, BodyCallbacksCons
  <2>6. BodyCalls(messages, m, j) = (b \o rest) \o mc \o more
    BY <2>5 DEF BodyCalls
  <2>7. BodyCalls(messages, m, j + 1) = rest \o mc \o more
    BY DEF BodyCalls
  <2>8. Associative(C) /\ LengthsAdd(C)
    BY ConcatIsAssociative, ConcatLengths, Zenon
  <2> HIDE DEF C, b, rest, mc, more
  <2>9. (b \o rest) \o mc \o more = b \o (rest \o mc \o more)
    <3>1. rest \o mc \in C
      BY <1>4, <2>4, <2>8 DEF LengthsAdd
    <3>2. b \in C /\ rest \in C /\ mc \in C /\ more \in C
      BY <1>4, <2>4
    <3>3. (b \o rest) \o mc = b \o (rest \o mc)
      BY <2>8, <3>2, Zenon DEF Associative
    <3>4. b \o (rest \o mc) \o more = b \o (rest \o mc \o more)
      <4>1. b \in C /\ rest \o mc \in C /\ more \in C
        BY <3>1, <3>2
      <4> QED
        BY <2>8, <4>1, Zenon DEF Associative
    <3> QED
      BY <3>3, <3>4
  <2>10. todo = <<Callback("body", body[j + 1])>> \o BodyCalls(messages, m, j + 1)
    BY <2>6, <2>7, <2>9 DEF b
  <2>11. BodyCalls(messages, m, j + 1) \in Seq(CallbacksWithText)
    BY <2>1, CallsType
  <2>12. First(todo, "body", body[j + 1], BodyCalls(messages, m, j + 1))
    BY <2>3, <2>10, <2>11, FirstIs
  <2> QED
    BY <1>5, <2>12
<1>6. CASE ~(j < Len(body))
  <2>1. j = Len(body)
    BY <1>1, <1>6 DEF IsMessage
  <2>2. BodyCallbacks(Rest(body, j)) = <<>>
    BY <1>1, <1>2, <2>1, NothingCalls DEF HasRests, IsMessage
  <2>3. <<>> \o mc = mc
    BY <1>4
  <2>4. todo = <<MessageComplete>> \o more
    BY <2>2, <2>3 DEF BodyCalls
  <2>5. First(todo, "message_complete", <<>>, more)
    BY <1>3, <1>4, <2>4, FirstIs DEF MessageComplete
  <2> QED
    BY <1>6, <2>5
<1> QED
  BY <1>5, <1>6
\* A text that is delivered whole is the one that comes first.
LEMMA WholeText ==
  ASSUME NEW todo \in Seq(CallbacksWithText), NEW cb, NEW text, NEW calls,
         First(todo, cb, text, calls),
         NEW at \in Pieces(todo, TRUE), NEW more \in Remaining(todo, at, TRUE)
  PROVE  Head(todo).cb = cb /\ at = text /\ more = calls
<1>1. Head(todo).cb = cb /\ Head(todo).at = text /\ Tail(todo) = calls
  BY DEF First, Callback
<1>2. at = text
  BY <1>1 DEF Pieces
<1>3. text \in Seq(STRING)
  <2>1. Head(todo) \in CallbacksWithText
    BY DEF First
  <2> QED
    BY <1>1, <2>1 DEF CallbacksWithText, Text
<1>4. SubSeq(text, Len(text) + 1, Len(text)) = <<>>
  <2>1. Len(text) \in Nat
    BY <1>3
  <2>2. /\ Len(text) + 1 \in Nat \ {0} /\ Len(text) \in 0 .. Len(text)
        /\ Len(text) + 1 <= Len(text) + 1 /\ Len(text) - (Len(text) + 1) + 1 = 0
    BY <2>1
  <2>3. /\ SubSeq(text, Len(text) + 1, Len(text)) \in Seq(STRING)
        /\ Len(SubSeq(text, Len(text) + 1, Len(text))) = 0
    BY <1>3, <2>2, PartIs
  <2> QED
    BY <2>3
<1>5. Remaining(todo, at, TRUE) = {Tail(todo)}
  BY <1>1, <1>2, <1>4 DEF Remaining
<1> QED
  BY <1>1, <1>2, <1>5
=============================================================================
