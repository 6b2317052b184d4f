--------------------------- MODULE SequenceLemmas ---------------------------
(***************************************************************************)
(* Facts about sequences that the proofs about the tools rest on.          *)
(* Induction is over sets: a set of numbers that has 0 and is closed under *)
(* successor is Nat.                                                       *)
(***************************************************************************)
EXTENDS Integers, Sequences, SequencesExt, SequenceTheorems,
        WellFoundedInduction, TLAPS

LEMMA LeastNat ==
  ASSUME NEW T \in SUBSET Nat, T # {}
  PROVE  \E n \in T : \A m \in T : n <= m
<1>1. PICK n \in T : \A m \in T : <<m, n>> \notin OpToRel(<, Nat)
  BY NatLessThanWellFounded, WFMin, Zenon
<1>2. ASSUME NEW m \in T PROVE n <= m
  <2>1. ~ (m < n)
    BY <1>1 DEF OpToRel
  <2> QED
    BY <2>1
<1> QED
  BY <1>2

LEMMA SetInduction ==
  ASSUME NEW T \in SUBSET Nat, 0 \in T, \A n \in T : n + 1 \in T
  PROVE  T = Nat
<1> SUFFICES ASSUME Nat \ T # {} PROVE FALSE
  OBVIOUS
<1>1. PICK n \in Nat \ T : \A m \in Nat \ T : n <= m
  BY LeastNat
<1>2. n - 1 \in T
  BY <1>1
<1> QED
  BY <1>1, <1>2

-----------------------------------------------------------------------------
\* Sequences over S are closed under what the models do with them.
LEMMA OneSeq ==
  ASSUME NEW S, NEW x \in S
  PROVE  <<x>> \in Seq(S)
OBVIOUS

LEMMA ConcatSeq ==
  ASSUME NEW S, NEW s \in Seq(S), NEW t \in Seq(S)
  PROVE  s \o t \in Seq(S)
OBVIOUS

LEMMA PartSeq ==
  ASSUME NEW S, NEW s \in Seq(S), NEW m \in Nat \ {0}, NEW n \in 0 .. Len(s)
  PROVE  SubSeq(s, m, n) \in Seq(S)
OBVIOUS

LEMMA InTwoParts ==
  ASSUME NEW S, NEW t \in Seq(S), NEW n \in 0 .. Len(t)
  PROVE  SubSeq(t, 1, n) \o SubSeq(t, n + 1, Len(t)) = t
<1>1. Len(t) \in Nat
  OBVIOUS
<1>2. 1 \in 1 .. Len(t) + 1 /\ n \in 1 - 1 .. Len(t) /\ Len(t) \in n .. Len(t)
  BY <1>1
<1>3. SubSeq(t, 1, n) \o SubSeq(t, n + 1, Len(t)) = SubSeq(t, 1, Len(t))
  BY <1>2, ConcatAdjacentSubSeq, Zenon
<1> QED
  BY <1>3, SubSeqFull, Zenon

LEMMA NothingAdded ==
  ASSUME NEW S, NEW s \in Seq(S)
  PROVE  s \o <<>> = s /\ SubSeq(s, 1, Len(s)) = s
OBVIOUS

LEMMA SameAsConcat ==
  ASSUME NEW S, NEW s1 \in Seq(S), NEW s2 \in Seq(S), NEW t \in Seq(S),
         Len(t) = Len(s1) + Len(s2),
         \A i \in 1 .. Len(s1) : t[i] = s1[i],
         \A i \in 1 .. Len(s2) : t[Len(s1) + i] = s2[i]
  PROVE  t = s1 \o s2
<1>1. /\ s1 \o s2 \in Seq(S) /\ Len(s1 \o s2) = Len(t)
      /\ \A i \in 1 .. Len(t) :
           (s1 \o s2)[i] = IF i <= Len(s1) THEN s1[i] ELSE s2[i - Len(s1)]
  BY ConcatProperties
<1>2. ASSUME NEW i \in 1 .. Len(t) PROVE t[i] = (s1 \o s2)[i]
  <2>1. CASE i <= Len(s1)
    BY <1>1, <2>1
  <2>2. CASE i > Len(s1)
    <3>1. i - Len(s1) \in 1 .. Len(s2) /\ Len(s1) + (i - Len(s1)) = i
      BY <2>2
    <3> QED
      BY <1>1, <2>2, <3>1
  <2> QED
    BY <2>1, <2>2
<1> QED
  BY <1>1, <1>2

LEMMA PartIs ==
  ASSUME NEW S, NEW t \in Seq(S), NEW m \in Nat \ {0}, NEW n \in 0 .. Len(t),
         m <= n + 1
  PROVE  /\ SubSeq(t, m, n) \in Seq(S) /\ Len(SubSeq(t, m, n)) = n - m + 1
         /\ \A i \in 1 .. n - m + 1 : SubSeq(t, m, n)[i] = t[m + i - 1]
OBVIOUS

\* Named, so that a prover takes it for one set of sequences at a time.
Associative(T) == \A a, b, c \in T : (a \o b) \o c = a \o (b \o c)
LengthsAdd(T) ==
  \A a, b \in T : a \o b \in T /\ Len(a \o b) = Len(a) + Len(b)
HasFronts(T) ==
  \A t \in T : t # <<>> =>
    /\ SubSeq(t, 1, Len(t) - 1) \in T
    /\ Len(SubSeq(t, 1, Len(t) - 1)) = Len(t) - 1
    /\ \A i \in 1 .. Len(t) - 1 : SubSeq(t, 1, Len(t) - 1)[i] = t[i]
    /\ t = Append(SubSeq(t, 1, Len(t) - 1), t[Len(t)])

HasParts(T) ==
  \A t \in T : \A k, n \in Nat : k + n <= Len(t) =>
    SubSeq(t, k + 1, k + n) \in T /\ Len(SubSeq(t, k + 1, k + n)) = n

LEMMA Parts == \A S : HasParts(Seq(S))
<1> SUFFICES ASSUME NEW S, NEW t \in Seq(S), NEW k \in Nat, NEW n \in Nat,
                    k + n <= Len(t)
             PROVE  /\ SubSeq(t, k + 1, k + n) \in Seq(S)
                    /\ Len(SubSeq(t, k + 1, k + n)) = n
  BY DEF HasParts
<1>1. k + 1 \in Nat \ {0} /\ k + n \in 0 .. Len(t) /\ (k + n) - (k + 1) + 1 = n
  OBVIOUS
<1> QED
  BY <1>1

LEMMA ConcatIsAssociative == \A S : Associative(Seq(S))
<1> SUFFICES ASSUME NEW S PROVE Associative(Seq(S))
  OBVIOUS
<1> QED
  BY DEF Associative

LEMMA ConcatLengths == \A S : LengthsAdd(Seq(S))
<1> SUFFICES ASSUME NEW S PROVE LengthsAdd(Seq(S))
  OBVIOUS
<1> QED
  BY DEF LengthsAdd

LEMMA Fronts == \A S : HasFronts(Seq(S))
<1> SUFFICES ASSUME NEW S, NEW t \in Seq(S), t # <<>>
             PROVE  /\ SubSeq(t, 1, Len(t) - 1) \in Seq(S)
                    /\ Len(SubSeq(t, 1, Len(t) - 1)) = Len(t) - 1
                    /\ \A i \in 1 .. Len(t) - 1 : SubSeq(t, 1, Len(t) - 1)[i] = t[i]
                    /\ t = Append(SubSeq(t, 1, Len(t) - 1), t[Len(t)])
  BY DEF HasFronts
<1> DEFINE front == SubSeq(t, 1, Len(t) - 1)
           e == Append(front, t[Len(t)])
<1>1. Len(t) \in Nat \ {0} /\ t[Len(t)] \in S
  OBVIOUS
<1>2. /\ front \in Seq(S) /\ Len(front) = Len(t) - 1
      /\ \A i \in 1 .. Len(t) - 1 : front[i] = t[i]
  <2>1. /\ 1 \in Nat \ {0} /\ Len(t) - 1 \in 0 .. Len(t)
        /\ 1 <= (Len(t) - 1) + 1 /\ (Len(t) - 1) - 1 + 1 = Len(t) - 1
        /\ \A i \in 1 .. Len(t) - 1 : 1 + i - 1 = i
    BY <1>1
  <2>2. /\ front \in Seq(S) /\ Len(front) = (Len(t) - 1) - 1 + 1
        /\ \A i \in 1 .. (Len(t) - 1) - 1 + 1 : front[i] = t[1 + i - 1]
    BY <2>1, PartIs
  <2> HIDE DEF front
  <2>3. /\ Len(front) = Len(t) - 1
        /\ \A i \in 1 .. Len(t) - 1 : front[i] = t[1 + i - 1]
    BY <2>1, <2>2, Zenon
  <2> QED
    BY <2>1, <2>2, <2>3, Zenon
<1> HIDE DEF front
<1>3. /\ e \in Seq(S) /\ Len(e) = Len(t) /\ e[Len(t)] = t[Len(t)]
      /\ \A i \in 1 .. Len(t) - 1 : e[i] = t[i]
  BY <1>1, <1>2
<1> HIDE DEF e
<1>4. \A i \in 1 .. Len(t) : e[i] = t[i]
  BY <1>1, <1>3
<1>5. t = e
  BY <1>3, <1>4, SeqEqual
<1> QED
  BY <1>2, <1>5 DEF front, e

LEMMA PartsJoin ==
  ASSUME NEW S, NEW t \in Seq(S), NEW k \in Nat \ {0}, NEW m \in Nat,
         NEW n \in 0 .. Len(t), k <= m + 1, m <= n
  PROVE  SubSeq(t, k, m) \o SubSeq(t, m + 1, n) = SubSeq(t, k, n)
<1> DEFINE a == SubSeq(t, k, m)
           b == SubSeq(t, m + 1, n)
           c == SubSeq(t, k, n)
<1>1. /\ a \in Seq(S) /\ Len(a) = m - k + 1
      /\ \A i \in 1 .. Len(a) : a[i] = t[k + i - 1]
  OBVIOUS
<1>2. /\ b \in Seq(S) /\ Len(b) = n - m
      /\ \A i \in 1 .. Len(b) : b[i] = t[m + i]
  OBVIOUS
<1>3. /\ c \in Seq(S) /\ Len(c) = n - k + 1
      /\ \A i \in 1 .. Len(c) : c[i] = t[k + i - 1]
  OBVIOUS
<1> HIDE DEF a, b, c
<1>4. Len(c) = Len(a) + Len(b) /\ \A i \in 1 .. Len(a) : c[i] = a[i]
  BY <1>1, <1>2, <1>3
<1>5. ASSUME NEW i \in 1 .. Len(b) PROVE c[Len(a) + i] = b[i]
  <2>1. Len(a) + i \in 1 .. Len(c) /\ k + (Len(a) + i) - 1 = m + i
    BY <1>1, <1>2, <1>3
  <2> QED
    BY <1>2, <1>3, <2>1
<1>6. c = a \o b
  BY <1>1, <1>2, <1>3, <1>4, <1>5, SameAsConcat
<1> QED
  BY <1>6 DEF a, b, c

\* A part of a part.
LEMMA PartOfPart ==
  ASSUME NEW S, NEW t \in Seq(S), NEW k \in Nat, NEW l \in Nat,
         k + l <= Len(t), NEW m \in 1 .. l + 1, NEW n \in 0 .. l, m <= n + 1
  PROVE  SubSeq(SubSeq(t, k + 1, k + l), m, n) = SubSeq(t, k + m, k + n)
<1> DEFINE p == SubSeq(t, k + 1, k + l)
           q == SubSeq(t, k + m, k + n)
<1>1. p \in Seq(S) /\ Len(p) = l /\ \A i \in 1 .. l : p[i] = t[k + i]
  <2>1. /\ k + 1 \in Nat \ {0} /\ k + l \in 0 .. Len(t) /\ k + 1 <= (k + l) + 1
        /\ (k + l) - (k + 1) + 1 = l
    OBVIOUS
  <2>2. \A i \in 1 .. l : (k + 1) + i - 1 = k + i
    OBVIOUS
  <2>3. /\ p \in Seq(S) /\ Len(p) = (k + l) - (k + 1) + 1
        /\ \A i \in 1 .. (k + l) - (k + 1) + 1 : p[i] = t[(k + 1) + i - 1]
    BY <2>1, PartIs
  <2> HIDE DEF p
  <2>4. /\ p \in Seq(S) /\ Len(p) = l
        /\ \A i \in 1 .. l : p[i] = t[(k + 1) + i - 1]
    BY <2>1, <2>3, Zenon
  <2> QED
    BY <2>2, <2>4, Zenon
<1>2. /\ q \in Seq(S) /\ Len(q) = n - m + 1
      /\ \A i \in 1 .. n - m + 1 : q[i] = t[k + m + i - 1]
  <2>1. /\ k + m \in Nat \ {0} /\ k + n \in 0 .. Len(t) /\ k + m <= (k + n) + 1
        /\ (k + n) - (k + m) + 1 = n - m + 1
    OBVIOUS
  <2>2. /\ q \in Seq(S) /\ Len(q) = (k + n) - (k + m) + 1
        /\ \A i \in 1 .. (k + n) - (k + m) + 1 : q[i] = t[k + m + i - 1]
    BY <2>1, PartIs
  <2> HIDE DEF q
  <2> QED
    BY <2>1, <2>2
<1> HIDE DEF p, q
<1>3. /\ SubSeq(p, m, n) \in Seq(S) /\ Len(SubSeq(p, m, n)) = n - m + 1
      /\ \A i \in 1 .. n - m + 1 : SubSeq(p, m, n)[i] = p[m + i - 1]
  <2>1. m \in Nat \ {0} /\ n \in 0 .. Len(p)
    BY <1>1
  <2> QED
    BY <1>1, <2>1, PartIs
<1>4. ASSUME NEW i \in 1 .. n - m + 1
      PROVE  SubSeq(p, m, n)[i] = q[i]
  <2>1. m + i - 1 \in 1 .. l /\ k + (m + i - 1) = k + m + i - 1
    OBVIOUS
  <2>2. p[m + i - 1] = t[k + (m + i - 1)]
    BY <1>1, <2>1
  <2> QED
    BY <1>2, <1>3, <2>1, <2>2
<1>5. SubSeq(p, m, n) = q
  BY <1>2, <1>3, <1>4
<1> QED
  BY <1>5 DEF p, q

LEMMA IsPrefixConcat ==
  ASSUME NEW S, NEW s \in Seq(S), NEW t \in Seq(S)
  PROVE  IsPrefix(s, s \o t)
BY DEF IsPrefix

-----------------------------------------------------------------------------
\* The function within FlattenSeq, for the first n sequences.
Flattens(f, seqs, n) ==
  f = [i \in 1 .. n |-> IF i = 1 THEN seqs[i] ELSE f[i - 1] \o seqs[i]]

LEMMA FlattensExists ==
  ASSUME NEW seqs, NEW n \in Nat
  PROVE  \E f : Flattens(f, seqs, n)
<1> DEFINE T == {k \in Nat : \E f : Flattens(f, seqs, k)}
<1>1. 0 \in T
  <2>1. Flattens([i \in 1 .. 0 |-> seqs[i]], seqs, 0)
    BY DEF Flattens
  <2> QED
    BY <2>1
<1>2. ASSUME NEW k \in T PROVE k + 1 \in T
  <2>1. PICK f : Flattens(f, seqs, k)
    OBVIOUS
  <2>2. k \in Nat
    OBVIOUS
  <2> DEFINE g == [i \in 1 .. k + 1 |->
                     IF i = 1 THEN seqs[i] ELSE f[i - 1] \o seqs[i]]
  <2>3. \A i \in 1 .. k : g[i] = f[i]
    <3> SUFFICES ASSUME NEW i \in 1 .. k PROVE g[i] = f[i]
      OBVIOUS
    <3>1. f[i] = IF i = 1 THEN seqs[i] ELSE f[i - 1] \o seqs[i]
      BY <2>1 DEF Flattens
    <3>2. i \in 1 .. k + 1
      BY <2>2
    <3>3. g[i] = IF i = 1 THEN seqs[i] ELSE f[i - 1] \o seqs[i]
      BY <3>2
    <3> QED
      BY <3>1, <3>3
  <2>4. \A i \in 1 .. k + 1 : i # 1 => g[i - 1] = f[i - 1]
    <3> SUFFICES ASSUME NEW i \in 1 .. k + 1, i # 1 PROVE g[i - 1] = f[i - 1]
      OBVIOUS
    <3>1. i - 1 \in 1 .. k
      BY <2>2
    <3> QED
      BY <2>3, <3>1
  <2> HIDE DEF g
  <2>5. Flattens(g, seqs, k + 1)
    <3>1. g = [i \in 1 .. k + 1 |->
                 IF i = 1 THEN seqs[i] ELSE f[i - 1] \o seqs[i]]
      BY DEF g
    <3>2. \A i \in 1 .. k + 1 :
            (IF i = 1 THEN seqs[i] ELSE f[i - 1] \o seqs[i])
              = (IF i = 1 THEN seqs[i] ELSE g[i - 1] \o seqs[i])
      BY <2>4
    <3> QED
      BY <3>1, <3>2 DEF Flattens
  <2> QED
    BY <2>2, <2>5
<1> HIDE DEF T
<1>3. T = Nat
  <2>1. T \in SUBSET Nat
    BY DEF T
  <2> QED
    BY <1>1, <1>2, <2>1, SetInduction
<1> QED
  BY <1>3 DEF T

\* Two such functions agree where both are defined.
LEMMA FlattensUnique ==
  ASSUME NEW s, NEW t, NEW f, NEW g, NEW n \in Nat, NEW m \in Nat, n <= m,
         Flattens(f, s, n), Flattens(g, t, m),
         \A i \in 1 .. n : s[i] = t[i]
  PROVE  \A i \in 1 .. n : f[i] = g[i]
<1> DEFINE T == {k \in Nat : k \in 1 .. n => f[k] = g[k]}
<1>1. 0 \in T
  OBVIOUS
<1>2. ASSUME NEW k \in T PROVE k + 1 \in T
  <2>1. k \in Nat /\ (k \in 1 .. n => f[k] = g[k])
    OBVIOUS
  <2>2. CASE k + 1 \in 1 .. n
    <3>1. k + 1 \in 1 .. m
      BY <2>1, <2>2
    <3>2. f[k + 1] = IF k + 1 = 1 THEN s[k + 1] ELSE f[(k + 1) - 1] \o s[k + 1]
      BY <2>2 DEF Flattens
    <3>3. g[k + 1] = IF k + 1 = 1 THEN t[k + 1] ELSE g[(k + 1) - 1] \o t[k + 1]
      BY <3>1 DEF Flattens
    <3>4. (k + 1) - 1 = k /\ (k + 1 # 1 => k \in 1 .. n) /\ s[k + 1] = t[k + 1]
      BY <2>1, <2>2
    <3>5. f[k + 1] = g[k + 1]
      BY <2>1, <3>2, <3>3, <3>4
    <3> QED
      BY <2>1, <3>5
  <2> QED
    BY <2>1, <2>2
<1> HIDE DEF T
<1>3. T = Nat
  <2>1. T \in SUBSET Nat
    BY DEF T
  <2> QED
    BY <1>1, <1>2, <2>1, SetInduction
<1> QED
  BY <1>3 DEF T

LEMMA FlattenSeqIs ==
  ASSUME NEW seqs, Len(seqs) \in Nat \ {0}
  PROVE  \E f : Flattens(f, seqs, Len(seqs)) /\ FlattenSeq(seqs) = f[Len(seqs)]
<1>1. \E f : Flattens(f, seqs, Len(seqs))
  BY FlattensExists
<1> DEFINE h == CHOOSE f : Flattens(f, seqs, Len(seqs))
<1>2. Flattens(h, seqs, Len(seqs))
  BY <1>1
<1>3. FlattenSeq(seqs) = h[Len(seqs)]
  BY Zenon DEF FlattenSeq, Flattens
<1> QED
  BY <1>2, <1>3
-----------------------------------------------------------------------------
LEMMA FlattenEmpty == FlattenSeq(<<>>) = <<>>
BY DEF FlattenSeq

LEMMA FlattenOne ==
  ASSUME NEW x
  PROVE  FlattenSeq(<<x>>) = x
<1> SUFFICES ASSUME NEW seqs, seqs = <<x>> PROVE FlattenSeq(seqs) = x
  OBVIOUS
<1>1. Len(seqs) = 1 /\ seqs[1] = x
  OBVIOUS
<1>2. PICK f : Flattens(f, seqs, 1) /\ FlattenSeq(seqs) = f[1]
  <2>1. Len(seqs) \in Nat \ {0}
    BY <1>1
  <2>2. \E f : Flattens(f, seqs, Len(seqs)) /\ FlattenSeq(seqs) = f[Len(seqs)]
    BY <2>1, FlattenSeqIs
  <2> QED
    BY <1>1, <2>2, Zenon
<1>3. f[1] = IF 1 = 1 THEN seqs[1] ELSE f[1 - 1] \o seqs[1]
  BY <1>2 DEF Flattens
<1> QED
  BY <1>1, <1>2, <1>3

\* Flattening in front of the last sequence.
LEMMA FlattenAppend ==
  ASSUME NEW S, NEW seqs \in Seq(S), seqs # <<>>, NEW x \in S
  PROVE  FlattenSeq(Append(seqs, x)) = FlattenSeq(seqs) \o x
<1> DEFINE more == Append(seqs, x)
           n == Len(seqs)
<1>1. n \in Nat \ {0} /\ Len(more) = n + 1 /\ more[n + 1] = x
      /\ \A i \in 1 .. n : more[i] = seqs[i]
  OBVIOUS
<1> HIDE DEF n, more
<1>2. PICK f : Flattens(f, seqs, n) /\ FlattenSeq(seqs) = f[n]
  BY <1>1, FlattenSeqIs DEF n
<1>3. PICK g : Flattens(g, more, n + 1) /\ FlattenSeq(more) = g[n + 1]
  <2>1. Len(more) \in Nat \ {0}
    BY <1>1
  <2> QED
    BY <1>1, <2>1, FlattenSeqIs
<1>4. f[n] = g[n]
  <2>1. n \in Nat /\ n + 1 \in Nat /\ n <= n + 1 /\ n \in 1 .. n
    BY <1>1
  <2>2. \A i \in 1 .. n : seqs[i] = more[i]
    BY <1>1
  <2> QED
    BY <1>2, <1>3, <2>1, <2>2, FlattensUnique
<1>5. g[n + 1] = g[n] \o x
  <2>1. n + 1 \in 1 .. n + 1 /\ n + 1 # 1 /\ (n + 1) - 1 = n
    BY <1>1
  <2>2. g[n + 1] = IF n + 1 = 1 THEN more[n + 1] ELSE g[(n + 1) - 1] \o more[n + 1]
    BY <1>3, <2>1 DEF Flattens
  <2> QED
    BY <1>1, <2>1, <2>2
<1> QED
  BY <1>2, <1>3, <1>4, <1>5 DEF more

LEMMA FlattenType ==
  ASSUME NEW S, NEW seqs \in Seq(Seq(S))
  PROVE  FlattenSeq(seqs) \in Seq(S)
<1> DEFINE n == Len(seqs)
<1>1. CASE n = 0
  <2>1. seqs = <<>>
    BY <1>1
  <2>2. <<>> \in Seq(S)
    OBVIOUS
  <2> QED
    BY <2>1, <2>2, FlattenEmpty, Zenon
<1>2. CASE n # 0
  <2>1. n \in Nat \ {0}
    BY <1>2
  <2>2. PICK f : Flattens(f, seqs, n) /\ FlattenSeq(seqs) = f[n]
    BY <2>1, FlattenSeqIs
  <2> DEFINE T == {k \in Nat : k \in 1 .. n => f[k] \in Seq(S)}
  <2> HIDE DEF n
  <2>3. 0 \in T
    OBVIOUS
  <2>4. ASSUME NEW k \in T PROVE k + 1 \in T
    <3>1. CASE k + 1 \in 1 .. n
      <4>1. f[k + 1] = IF k + 1 = 1 THEN seqs[k + 1] ELSE f[(k + 1) - 1] \o seqs[k + 1]
        BY <2>2, <3>1 DEF Flattens
      <4>2. seqs[k + 1] \in Seq(S)
        BY <3>1 DEF n
      <4>3. k + 1 # 1 => (k + 1) - 1 = k /\ f[k] \in Seq(S)
        BY <2>1, <3>1
      <4>4. f[k + 1] \in Seq(S)
        BY <4>1, <4>2, <4>3
      <4> QED
        BY <4>4
    <3> QED
      BY <3>1
  <2> HIDE DEF T
  <2>5. T = Nat
    <3>1. T \in SUBSET Nat
      BY DEF T
    <3> QED
      BY <2>3, <2>4, <3>1, SetInduction
  <2> QED
    BY <2>1, <2>2, <2>5 DEF T
<1> QED
  BY <1>1, <1>2

\* Flattening behind the first sequence.
LEMMA FlattenCons ==
  ASSUME NEW S, NEW seqs \in Seq(Seq(S)), NEW x \in Seq(S)
  PROVE  FlattenSeq(<<x>> \o seqs) = x \o FlattenSeq(seqs)
<1> DEFINE more == <<x>> \o seqs
           n == Len(seqs)
<1>1. n \in Nat /\ Len(more) = n + 1 /\ more[1] = x
      /\ \A i \in 1 .. n : more[i + 1] = seqs[i] /\ seqs[i] \in Seq(S)
  OBVIOUS
<1>2. CASE n = 0
  <2>1. seqs = <<>> /\ more = <<x>>
    BY <1>2
  <2> QED
    BY <2>1, FlattenEmpty, FlattenOne
<1>3. CASE n # 0
  <2> HIDE DEF n, more
  <2>1. PICK f : Flattens(f, seqs, n) /\ FlattenSeq(seqs) = f[n]
    BY <1>1, <1>3, FlattenSeqIs DEF n
  <2>2. PICK g : Flattens(g, more, n + 1) /\ FlattenSeq(more) = g[n + 1]
    <3>1. Len(more) \in Nat \ {0}
      BY <1>1
    <3> QED
      BY <1>1, <3>1, FlattenSeqIs
  <2> DEFINE T == {k \in Nat : k \in 1 .. n =>
                     f[k] \in Seq(S) /\ g[k + 1] = x \o f[k]}
  <2>3. 0 \in T
    OBVIOUS
  <2>4. ASSUME NEW k \in T PROVE k + 1 \in T
    <3>1. CASE k + 1 \in 1 .. n
      <4>1. f[k + 1] = IF k + 1 = 1 THEN seqs[k + 1] ELSE f[(k + 1) - 1] \o seqs[k + 1]
        BY <2>1, <3>1 DEF Flattens
      <4>2. g[k + 2] = IF k + 2 = 1 THEN more[k + 2] ELSE g[(k + 2) - 1] \o more[k + 2]
        <5>1. k + 2 \in 1 .. n + 1
          BY <1>1, <3>1
        <5> QED
          BY <2>2, <5>1 DEF Flattens
      <4>3. g[1] = x
        <5>1. 1 \in 1 .. n + 1
          BY <1>1
        <5>2. g[1] = IF 1 = 1 THEN more[1] ELSE g[1 - 1] \o more[1]
          BY <2>2, <5>1 DEF Flattens
        <5> QED
          BY <1>1, <5>2
      <4>4. more[k + 2] = seqs[k + 1] /\ seqs[k + 1] \in Seq(S)
        <5>1. (k + 1) + 1 = k + 2
          BY <3>1
        <5> QED
          BY <1>1, <3>1, <5>1
      <4>5. ASSUME k = 0
            PROVE  f[k + 1] \in Seq(S) /\ g[k + 2] = x \o f[k + 1]
        <5>1. f[k + 1] = seqs[k + 1]
          BY <4>1, <4>5
        <5>2. g[k + 2] = g[1] \o more[k + 2]
          BY <4>2, <4>5
        <5>3. g[k + 2] = x \o seqs[k + 1]
          BY <4>3, <4>4, <5>2
        <5> QED
          BY <4>4, <5>1, <5>3
      <4>6. ASSUME k # 0
            PROVE  f[k + 1] \in Seq(S) /\ g[k + 2] = x \o f[k + 1]
        <5>1. f[k] \in Seq(S) /\ g[k + 1] = x \o f[k]
          BY <1>1, <3>1, <4>6
        <5>2. f[k + 1] = f[k] \o seqs[k + 1]
          <6>1. k \in Nat /\ (k + 1) - 1 = k /\ k + 1 # 1
            BY <4>6
          <6> QED
            BY <4>1, <6>1
        <5>3. g[k + 2] = (x \o f[k]) \o seqs[k + 1]
          <6>1. k \in Nat /\ (k + 2) - 1 = k + 1 /\ k + 2 # 1
            OBVIOUS
          <6> QED
            BY <4>2, <4>4, <5>1, <6>1
        <5>4. (x \o f[k]) \o seqs[k + 1] = x \o (f[k] \o seqs[k + 1])
          <6>1. seqs[k + 1] \in Seq(S)
            BY <4>4
          <6>2. Associative(Seq(S))
            BY ConcatIsAssociative, Zenon
          <6> QED
            BY <5>1, <6>1, <6>2, Zenon DEF Associative
        <5>5. g[k + 2] = x \o f[k + 1]
          BY <5>2, <5>3, <5>4
        <5>6. f[k + 1] \in Seq(S)
          BY <4>4, <5>1, <5>2
        <5> QED
          BY <5>5, <5>6
      <4>7. f[k + 1] \in Seq(S) /\ g[k + 2] = x \o f[k + 1]
        BY <4>5, <4>6
      <4>8. k + 1 \in Nat /\ (k + 1) + 1 = k + 2
        OBVIOUS
      <4> QED
        BY <4>7, <4>8
    <3> QED
      BY <3>1
  <2> HIDE DEF T
  <2>5. T = Nat
    <3>1. T \in SUBSET Nat
      BY DEF T
    <3> QED
      BY <2>3, <2>4, <3>1, SetInduction
  <2>6. g[n + 1] = x \o f[n]
    <3>1. n \in T /\ n \in 1 .. n
      BY <1>1, <1>3, <2>5
    <3> QED
      BY <3>1 DEF T
  <2> QED
    BY <2>1, <2>2, <2>6 DEF more
<1> QED
  BY <1>2, <1>3

\* What is appended to a sequence of sequences, or to the last of them, is
\* appended to the whole.
LEMMA FlattenMore ==
  ASSUME NEW S, NEW seqs \in Seq(Seq(S)), NEW x \in Seq(S)
  PROVE  FlattenSeq(Append(seqs, x)) = FlattenSeq(seqs) \o x
<1>1. CASE seqs = <<>>
  <2>1. Append(seqs, x) = <<x>> /\ <<>> \o x = x
    BY <1>1
  <2>2. FlattenSeq(<<x>>) = x /\ FlattenSeq(<<>>) = <<>>
    BY FlattenOne, FlattenEmpty
  <2> QED
    BY <1>1, <2>1, <2>2
<1>2. CASE seqs # <<>>
  BY <1>2, FlattenAppend
<1> QED
  BY <1>1, <1>2

LEMMA FlattenLast ==
  ASSUME NEW S, NEW seqs \in Seq(Seq(S)), seqs # <<>>, NEW x \in Seq(S)
  PROVE  FlattenSeq([seqs EXCEPT ![Len(seqs)] = seqs[Len(seqs)] \o x]) =
           FlattenSeq(seqs) \o x
<1> DEFINE n == Len(seqs)
           l == seqs[n]
           y == l \o x
           front == SubSeq(seqs, 1, n - 1)
           more == [seqs EXCEPT ![n] = y]
<1>1. n \in Nat \ {0} /\ l \in Seq(S)
  OBVIOUS
<1>8. front \in Seq(Seq(S)) /\ Len(front) = n - 1
      /\ \A i \in 1 .. n - 1 : front[i] = seqs[i]
      /\ seqs = Append(front, l)
  <2>1. HasFronts(Seq(Seq(S)))
    BY Fronts, Zenon
  <2> QED
    BY <2>1, Zenon DEF HasFronts
<1>2. y \in Seq(S)
  BY <1>1, ConcatSeq
<1>3. seqs = Append(front, l)
  BY <1>8
<1> HIDE DEF y
<1>4. more = Append(front, y)
  <2> DEFINE T == Seq(S)
             e == Append(front, y)
  <2>1. front \in Seq(T) /\ y \in T /\ more \in Seq(T) /\ Len(more) = n
    BY <1>1, <1>8, <1>2
  <2> HIDE DEF front, T
  <2>2. /\ e \in Seq(T) /\ Len(e) = n
        /\ \A i \in 1 .. n - 1 : e[i] = front[i]
        /\ e[n] = y
    BY <1>1, <1>8, <2>1, AppendProperties
  <2>3. \A i \in 1 .. n : more[i] = IF i = n THEN y ELSE seqs[i]
    BY <1>1
  <2> HIDE DEF e, more
  <2>4. ASSUME NEW i \in 1 .. n PROVE more[i] = e[i]
    <3>1. CASE i = n
      BY <2>2, <2>3, <3>1
    <3>2. CASE i # n
      <4>1. i \in 1 .. n - 1
        BY <1>1, <3>2
      <4> QED
        BY <1>8, <2>2, <2>3, <3>2, <4>1
    <3> QED
      BY <3>1, <3>2
  <2>5. more = e
    BY <2>1, <2>2, <2>4, SeqEqual
  <2> QED
    BY <2>5 DEF e
<1> HIDE DEF front, l, more
<1>5. /\ FlattenSeq(seqs) = FlattenSeq(front) \o l
      /\ FlattenSeq(more) = FlattenSeq(front) \o y
  BY <1>1, <1>8, <1>2, <1>3, <1>4, FlattenMore
<1>6. FlattenSeq(front) \in Seq(S)
  BY <1>8, FlattenType
<1>7. FlattenSeq(front) \o (l \o x) = (FlattenSeq(front) \o l) \o x
  <2> DEFINE f == FlattenSeq(front)
  <2>1. f \in Seq(S) /\ l \in Seq(S) /\ x \in Seq(S)
    BY <1>1, <1>6
  <2> HIDE DEF f
  <2>2. Associative(Seq(S))
    BY ConcatIsAssociative, Zenon
  <2>3. f \o (l \o x) = (f \o l) \o x
    BY <2>1, <2>2, Zenon DEF Associative
  <2> QED
    BY <2>3 DEF f
<1> QED
  BY <1>5, <1>7 DEF more, l, y

\* A sequence of sequences in two parts is flattened part by part.
LEMMA FlattenConcat ==
  ASSUME NEW S, NEW s \in Seq(Seq(S)), NEW t \in Seq(Seq(S))
  PROVE  FlattenSeq(s \o t) = FlattenSeq(s) \o FlattenSeq(t)
<1> DEFINE T == {n \in Nat : \A u \in Seq(Seq(S)) : Len(u) = n =>
                    FlattenSeq(s \o u) = FlattenSeq(s) \o FlattenSeq(u)}
<1>1. 0 \in T
  <2> SUFFICES ASSUME NEW u \in Seq(Seq(S)), Len(u) = 0
               PROVE  FlattenSeq(s \o u) = FlattenSeq(s) \o FlattenSeq(u)
    OBVIOUS
  <2>1. u = <<>>
    OBVIOUS
  <2>2. s \o <<>> = s
    BY NothingAdded
  <2>3. FlattenSeq(s) \o <<>> = FlattenSeq(s)
    BY FlattenType, NothingAdded
  <2> QED
    BY <2>1, <2>2, <2>3, FlattenEmpty
<1>2. ASSUME NEW n \in T PROVE n + 1 \in T
  <2> SUFFICES ASSUME NEW u \in Seq(Seq(S)), Len(u) = n + 1
               PROVE  FlattenSeq(s \o u) = FlattenSeq(s) \o FlattenSeq(u)
    OBVIOUS
  <2> DEFINE front == SubSeq(u, 1, Len(u) - 1)
             l == u[Len(u)]
             f == FlattenSeq(front)
             g == FlattenSeq(s)
  <2>1. n \in Nat /\ u # <<>> /\ l \in Seq(S)
    OBVIOUS
  <2>2. front \in Seq(Seq(S)) /\ Len(front) = Len(u) - 1 /\ u = Append(front, l)
    <3>1. HasFronts(Seq(Seq(S)))
      BY Fronts, Zenon
    <3> QED
      BY <2>1, <3>1, Zenon DEF HasFronts
  <2>3. Len(front) = n
    BY <2>1, <2>2
  <2>4. FlattenSeq(s \o front) = g \o f
    BY <2>2, <2>3
  <2> HIDE DEF front, l, T
  <2>5. s \o front \in Seq(Seq(S)) /\ s \o u = Append(s \o front, l)
    <3> DEFINE V == Seq(S)
               one == <<l>>
    <3>1. s \in Seq(V) /\ front \in Seq(V) /\ l \in V /\ one \in Seq(V)
      BY <2>1, <2>2
    <3> HIDE DEF V
    <3>2. Append(front, l) = front \o one
      BY <3>1, AppendIsConcat
    <3>3. s \o front \in Seq(V)
      BY <3>1, ConcatSeq
    <3>4. Append(s \o front, l) = (s \o front) \o one
      BY <3>1, <3>3, AppendIsConcat
    <3>5. Associative(Seq(V))
      BY ConcatIsAssociative, Zenon
    <3> HIDE DEF one
    <3>6. (s \o front) \o one = s \o (front \o one)
      BY <3>1, <3>5, Zenon DEF Associative
    <3> QED
      BY <2>2, <3>2, <3>3, <3>4, <3>6 DEF V
  <2>6. FlattenSeq(s \o u) = (g \o f) \o l
    BY <2>1, <2>4, <2>5, FlattenMore
  <2>7. FlattenSeq(u) = f \o l
    BY <2>1, <2>2, FlattenMore
  <2>8. (g \o f) \o l = g \o (f \o l)
    <3>1. g \in Seq(S) /\ f \in Seq(S) /\ l \in Seq(S)
      BY <2>1, <2>2, FlattenType
    <3>2. Associative(Seq(S))
      BY ConcatIsAssociative, Zenon
    <3> HIDE DEF f, g
    <3> QED
      BY <3>1, <3>2, Zenon DEF Associative
  <2> QED
    BY <2>6, <2>7, <2>8
<1> HIDE DEF T
<1>3. T = Nat
  <2>1. T \in SUBSET Nat
    BY DEF T
  <2> QED
    BY <1>1, <1>2, <2>1, SetInduction
<1>4. Len(t) \in T
  BY <1>3
<1> QED
  BY <1>4 DEF T

\* Sequences with concatenation are a monoid.
Laws(T) ==
  /\ <<>> \in T
  /\ \A a \in T : a \o <<>> = a /\ <<>> \o a = a
  /\ \A a, b \in T : a \o b \in T
  /\ \A a, b, c \in T : (a \o b) \o c = a \o (b \o c)

LEMMA SequenceLaws == \A S : Laws(Seq(S))
<1> SUFFICES ASSUME NEW S PROVE Laws(Seq(S))
  OBVIOUS
<1> QED
  BY DEF Laws
=============================================================================
