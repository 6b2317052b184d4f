----------------------------- MODULE UtilProofs -----------------------------
(***************************************************************************)
(* What the functions of util.c and the tool noop do, for every argument.  *)
(***************************************************************************)
EXTENDS MCUtil, SequenceLemmas, SequenceTheorems, FiniteSetTheorems, TLAPS

(***************************************************************************)
(* strlcat, first its memory.                                              *)
(***************************************************************************)
StrlcatInv == StrlcatTypeOK /\ InBounds

LEMMA StrlcatStarts == StrlcatInit => StrlcatInv
<1> SUFFICES ASSUME StrlcatInit PROVE StrlcatInv
  OBVIOUS
<1>1. dst \in Seq(STRING) /\ src \in Seq(STRING) /\ before = dst
  BY StrlcatAssumption DEF StrlcatInit
<1>2. Len(dst) \in Nat /\ Len(src) \in Nat
  BY <1>1
<1> QED
  BY <1>1, <1>2 DEF StrlcatInit, StrlcatInv, StrlcatTypeOK, InBounds, siz

LEMMA StrlcatKeepsInv == StrlcatInv /\ [StrlcatStep]_strlcatVars => StrlcatInv'
<1> SUFFICES ASSUME StrlcatInv, [StrlcatStep]_strlcatVars PROVE StrlcatInv'
  OBVIOUS
<1>1. /\ siz \in Nat /\ Len(src) \in Nat
      /\ NUL \in STRING
  BY StrlcatAssumption DEF StrlcatInv, StrlcatTypeOK, siz
<1>2. CASE FindEnd
  <2>1. /\ step = "find" /\ step' = "find" /\ n # 0 /\ n' = n - 1 /\ d' = d + 1
        /\ UNCHANGED <<dst, src, before, s, dlen>> /\ siz' = siz
    BY <1>2 DEF FindEnd, siz
  <2>2. n' \in 0 .. siz /\ d' \in Nat \ {0} /\ d' + n' = siz + 1
    BY <1>1, <2>1 DEF StrlcatInv, StrlcatTypeOK, InBounds
  <2> QED
    BY <2>1, <2>2 DEF StrlcatInv, StrlcatTypeOK, InBounds
<1>3. CASE FoundEnd
  <2>1. /\ dlen' = d - 1 /\ n' = n /\ d' = d
        /\ IF n = 0 THEN step' = "done" ELSE step' = "copy"
    BY <1>1, <1>3 DEF FoundEnd, StrlcatInv, StrlcatTypeOK, InBounds, siz
  <2> QED
    BY <1>1, <1>3, <2>1 DEF FoundEnd, StrlcatInv, StrlcatTypeOK, InBounds, siz
<1>4. CASE Copy
  <2>1. /\ step = "copy" /\ step' = "copy" /\ src' = src /\ siz' = siz
        /\ before' = before /\ dlen' = dlen /\ s' = s + 1 /\ s <= Len(src)
    BY <1>4 DEF Copy, siz
  <2>2. /\ dst \in Seq(STRING) /\ src \in Seq(STRING) /\ before \in Seq(STRING)
        /\ s \in 1 .. Len(src) + 1 /\ dlen \in 0 .. siz /\ n \in 0 .. siz
        /\ d \in Nat /\ d >= 1 /\ d + n = siz + 1 /\ n >= 1 /\ Len(dst) = siz
    BY <2>1 DEF StrlcatInv, StrlcatTypeOK, InBounds
  <2>3. src[s] \in STRING /\ s' \in 1 .. Len(src') + 1
    BY <1>1, <2>1, <2>2
  <2>4. /\ dst' \in Seq(STRING) /\ Len(dst') = siz
        /\ d' \in Nat /\ d' >= 1 /\ n' \in 0 .. siz
        /\ d' + n' = siz + 1 /\ n' >= 1
    <3>1. CASE n # 1
      <4>1. d \in 1 .. Len(dst) /\ n - 1 >= 1
        BY <1>1, <2>2, <3>1
      <4>2. dst' = [dst EXCEPT ![d] = src[s]] /\ d' = d + 1 /\ n' = n - 1
        BY <1>4, <3>1 DEF Copy
      <4> QED
        BY <1>1, <2>2, <2>3, <4>1, <4>2, ExceptSeq
    <3>2. CASE n = 1
      <4>1. dst' = dst /\ d' = d /\ n' = n
        BY <1>4, <3>2 DEF Copy
      <4> QED
        BY <2>2, <4>1
    <3> QED
      BY <3>1, <3>2
  <2> QED
    BY <2>1, <2>2, <2>3, <2>4 DEF StrlcatInv, StrlcatTypeOK, InBounds
<1>5. CASE Terminate
  <2>1. d \in 1 .. Len(dst)
    BY <1>1, <1>5 DEF Terminate, StrlcatInv, StrlcatTypeOK, InBounds, siz
  <2>2. dst' \in Seq(STRING) /\ Len(dst') = Len(dst)
    BY <1>1, <1>5, <2>1, ExceptSeq DEF Terminate, StrlcatInv, StrlcatTypeOK
  <2> QED
    BY <1>1, <1>5, <2>2 DEF Terminate, StrlcatInv, StrlcatTypeOK, InBounds, siz
<1>6. CASE UNCHANGED strlcatVars
  BY <1>6 DEF strlcatVars, StrlcatInv, StrlcatTypeOK, InBounds, siz
<1> QED
  BY <1>2, <1>3, <1>4, <1>5, <1>6 DEF StrlcatStep

\* For arrays and strings of every length, with a terminator or without:
\* neither loop of strlcat leaves the siz characters of dst, and there is
\* always one for the terminator.
THEOREM StaysInBounds == StrlcatSpec => []InBounds
<1>1. StrlcatInv => InBounds
  BY DEF StrlcatInv
<1> QED
  BY <1>1, StrlcatStarts, StrlcatKeepsInv, PTL DEF StrlcatSpec

(***************************************************************************)
(* strlcat, what it leaves there.                                          *)
(***************************************************************************)
LEMMA TextBeforeEnd ==
  ASSUME NEW array \in Seq(STRING), NEW k \in DOMAIN array, array[k] = NUL,
         \A i \in 1 .. k - 1 : array[i] # NUL
  PROVE  Text(array) = SubSeq(array, 1, k - 1)
<1> DEFINE ends == {i \in DOMAIN array : array[i] = NUL}
<1>1. k \in Nat \ {0} /\ DOMAIN array = 1 .. Len(array) /\ Len(array) \in Nat
  OBVIOUS
<1>2. k \in ends /\ \A i \in ends : k <= i
  <2>1. ASSUME NEW i \in ends PROVE k <= i
    BY <1>1
  <2> QED
    BY <2>1
<1>3. ends \subseteq Nat
  BY <1>1
<1> HIDE DEF ends
<1>4. Min(ends) = k
  BY <1>1, <1>2, <1>3 DEF Min
<1>5. Text(array) = IF ends = {} THEN array ELSE SubSeq(array, 1, Min(ends) - 1)
  BY DEF Text, ends
<1> QED
  BY <1>2, <1>4, <1>5

LEMMA TextWithoutEnd ==
  ASSUME NEW array \in Seq(STRING), \A i \in 1 .. Len(array) : array[i] # NUL
  PROVE  Text(array) = array
BY DEF Text

\* The first loop has seen no terminator, and has not written; the second has
\* copied up to its place, and only skips what does not fit.
Copied ==
  /\ \A i \in 1 .. Len(src) : src[i] # NUL
  /\ step = "find" => dst = before /\ s = 1 /\ \A i \in 1 .. d - 1 : before[i] # NUL
  /\ step = "copy" =>
       /\ dlen < siz /\ before[dlen + 1] = NUL
       /\ \A i \in 1 .. dlen : before[i] # NUL
       /\ dlen + 1 <= d /\ d <= dlen + s
       /\ n # 1 => d = dlen + s
       /\ \A i \in 1 .. dlen : dst[i] = before[i]
       /\ \A i \in dlen + 1 .. d - 1 : dst[i] = src[i - dlen]

StrlcatDone == StrlcatInv /\ Copied /\ AsDocumented

LEMMA CopiedStarts == StrlcatInit => Copied /\ AsDocumented
BY StrlcatAssumption DEF StrlcatInit, Copied, AsDocumented

\* The first loop found no terminator.
LEMMA FullArray ==
  ASSUME StrlcatInv, Copied, FoundEnd, step' = "done"
  PROVE  AsDocumented'
<1>1. /\ siz \in Nat /\ Len(src) \in Nat /\ before \in Seq(STRING)
      /\ step = "find" /\ n \in 0 .. siz /\ d + n = siz + 1 /\ d \in Nat
      /\ dst = before /\ Len(dst) = siz
  BY DEF StrlcatInv, StrlcatTypeOK, InBounds, FoundEnd, Copied, siz
<1>2. /\ dlen' = d - 1 /\ n' = siz - dlen' /\ dst' = dst /\ src' = src
      /\ before' = before
  BY DEF FoundEnd
<1>3. n' = n
  BY <1>1, <1>2
<1>4. n = 0 /\ result' = siz + Len(src)
  BY <1>1, <1>2, <1>3 DEF FoundEnd
<1>5. Text(before) = before
  BY <1>1, <1>4, TextWithoutEnd DEF Copied, siz
<1>6. strlcat(before, src, siz) = before
  BY <1>1 DEF strlcat, siz
<1> QED
  BY <1>1, <1>2, <1>4, <1>5, <1>6 DEF AsDocumented, siz

\* The second loop is at the end of src.
LEMMA Terminated ==
  ASSUME StrlcatInv, Copied, Terminate
  PROVE  AsDocumented'
<1> DEFINE old == SubSeq(before, 1, dlen)
           room == siz - dlen - 1
           k == IF Len(src) <= room THEN Len(src) ELSE room
<1>1. /\ siz \in Nat /\ Len(src) \in Nat
      /\ before \in Seq(STRING) /\ src \in Seq(STRING) /\ dst \in Seq(STRING)
      /\ step = "copy" /\ s = Len(src) + 1 /\ Len(dst) = siz /\ Len(before) = siz
      /\ n \in 0 .. siz /\ n >= 1 /\ d + n = siz + 1 /\ d \in Nat /\ dlen \in 0 .. siz
  BY DEF StrlcatInv, StrlcatTypeOK, InBounds, Terminate, siz
<1>2. /\ dlen < siz /\ before[dlen + 1] = NUL
      /\ \A i \in 1 .. dlen : before[i] # NUL /\ dst[i] = before[i]
      /\ \A i \in dlen + 1 .. d - 1 : dst[i] = src[i - dlen]
      /\ dlen + 1 <= d /\ d <= dlen + s /\ (n # 1 => d = dlen + s)
      /\ \A i \in 1 .. Len(src) : src[i] # NUL
  BY <1>1 DEF Copied
<1>3. /\ dst' = [dst EXCEPT ![d] = NUL] /\ result' = dlen + Len(src)
      /\ src' = src /\ before' = before
  BY <1>1 DEF Terminate
<1>4. room \in Nat /\ k \in Nat /\ k <= Len(src) /\ d - 1 = dlen + k
  BY <1>1, <1>2
<1>5. Text(before) = old /\ old \in Seq(STRING) /\ Len(old) = dlen
  <2>1. dlen + 1 \in DOMAIN before /\ (dlen + 1) - 1 = dlen
    BY <1>1, <1>2
  <2>2. Text(before) = SubSeq(before, 1, (dlen + 1) - 1)
    BY <1>1, <1>2, <2>1, TextBeforeEnd
  <2> QED
    BY <1>1, <2>1, <2>2
<1>6. /\ Text(dst') = SubSeq(dst', 1, d - 1)
      /\ dst' \in Seq(STRING) /\ Len(dst') = siz /\ d \in 1 .. siz
      /\ \A i \in 1 .. d - 1 : dst'[i] = dst[i]
  <2>1. d \in 1 .. siz /\ d \in DOMAIN dst /\ NUL \in STRING
    BY <1>1, <1>2, StrlcatAssumption
  <2>2. /\ dst' \in Seq(STRING) /\ Len(dst') = siz
        /\ dst'[d] = NUL /\ \A i \in 1 .. d - 1 : dst'[i] = dst[i]
    BY <1>1, <1>3, <2>1, ExceptSeq
  <2>3. ASSUME NEW i \in 1 .. d - 1 PROVE dst'[i] # NUL
    <3>1. CASE i <= dlen
      BY <1>1, <1>2, <2>2, <3>1
    <3>2. CASE i > dlen
      <4>1. i - dlen \in 1 .. Len(src)
        BY <1>1, <1>2, <1>4, <3>2
      <4> QED
        BY <1>1, <1>2, <2>2, <3>2, <4>1
    <3> QED
      BY <1>1, <3>1, <3>2
  <2>4. d \in DOMAIN dst'
    BY <2>1, <2>2
  <2>5. Text(dst') = SubSeq(dst', 1, d - 1)
    BY <2>2, <2>3, <2>4, TextBeforeEnd
  <2> QED
    BY <2>1, <2>2, <2>5
<1> DEFINE new == old \o SubSeq(src, 1, k)
<1>7. SubSeq(src, 1, k) \in Seq(STRING) /\ Len(SubSeq(src, 1, k)) = k
      /\ \A i \in 1 .. k : SubSeq(src, 1, k)[i] = src[i]
  BY <1>1, <1>4
<1>8. \A i \in 1 .. dlen : old[i] = before[i]
  BY <1>1, <1>2
<1>9. Text(dst') = new
  <2> HIDE DEF old, k
  <2> DEFINE more == SubSeq(src, 1, k)
             is == SubSeq(dst', 1, d - 1)
  <2>1. is \in Seq(STRING) /\ Len(is) = dlen + k
        /\ \A i \in 1 .. dlen + k : is[i] = dst[i]
    BY <1>1, <1>4, <1>6
  <2>2. more \in Seq(STRING) /\ Len(more) = k /\ \A i \in 1 .. k : more[i] = src[i]
    BY <1>7
  <2> HIDE DEF more, is
  <2>3. \A i \in 1 .. Len(old) : is[i] = old[i]
    BY <1>1, <1>2, <1>4, <1>5, <1>8, <2>1
  <2>4. ASSUME NEW i \in 1 .. Len(more) PROVE is[Len(old) + i] = more[i]
    <3>1. /\ dlen + i \in dlen + 1 .. d - 1 /\ dlen + i \in 1 .. dlen + k
          /\ (dlen + i) - dlen = i
      BY <1>1, <1>4, <2>2
    <3>2. is[dlen + i] = dst[dlen + i] /\ dst[dlen + i] = src[(dlen + i) - dlen]
      BY <1>2, <2>1, <3>1
    <3>3. i \in 1 .. k
      BY <2>2
    <3> QED
      BY <1>5, <2>2, <3>1, <3>2, <3>3
  <2>5. is = old \o more
    BY <1>5, <2>1, <2>2, <2>3, <2>4, SameAsConcat
  <2> QED
    BY <1>6, <2>5 DEF is, more
<1>10. strlcat(old, src, siz) = new
  <2>1. ~(Len(old) >= siz)
    BY <1>1, <1>2, <1>5
  <2>2. Min({Len(src), siz - Len(old) - 1}) = k
    <3>1. Min({Len(src), room}) = k
      <4> HIDE DEF room
      <4> QED
        BY <1>1, <1>4 DEF Min
    <3> QED
      BY <1>5, <3>1
  <2> HIDE DEF old, k
  <2> QED
    BY <2>1, <2>2 DEF strlcat
<1>11. result' < siz => new = old \o src
  <2>1. result' < siz => k = Len(src)
    BY <1>1, <1>3, <1>4
  <2>2. SubSeq(src, 1, Len(src)) = src
    BY <1>1, NothingAdded
  <2> HIDE DEF old, k
  <2> QED
    BY <2>1, <2>2
<1>12. result' >= siz => Len(new) = siz - 1
  <2>1. result' >= siz => dlen + k = siz - 1
    BY <1>1, <1>3, <1>4
  <2> HIDE DEF old, k
  <2>2. Len(new) = dlen + k
    BY <1>4, <1>5, <1>7
  <2> QED
    BY <2>1, <2>2
<1>13. IsPrefix(new, old \o src)
  <2> DEFINE a == SubSeq(src, 1, k)
             b == SubSeq(src, k + 1, Len(src))
  <2>1. a \in Seq(STRING) /\ b \in Seq(STRING) /\ a \o b = src
    <3>1. k \in 0 .. Len(src) /\ k + 1 \in Nat \ {0} /\ Len(src) \in 0 .. Len(src)
      BY <1>1, <1>4
    <3> HIDE DEF k
    <3>2. b \in Seq(STRING)
      BY <1>1, <3>1, PartSeq
    <3>3. a \o b = src
      BY <1>1, <3>1, InTwoParts
    <3> QED
      BY <1>7, <3>2, <3>3
  <2> HIDE DEF a, b, old
  <2>2. old \o a \in Seq(STRING) /\ (old \o a) \o b = old \o (a \o b)
    <3>1. old \in Seq(STRING) /\ a \in Seq(STRING) /\ b \in Seq(STRING)
      BY <1>5, <2>1
    <3> QED
      BY <3>1
  <2>3. IsPrefix(old \o a, (old \o a) \o b)
    BY <2>1, <2>2, IsPrefixConcat
  <2>4. new = old \o a
    BY DEF a
  <2> QED
    BY <2>1, <2>2, <2>3, <2>4
<1>14. siz' = siz /\ Text(before') = old /\ Text(dst') = new /\ Len(src') = Len(src)
  BY <1>3, <1>5, <1>9 DEF siz
<1> HIDE DEF old, new
<1>15. /\ result' = Len(src') + Len(old)
       /\ result' < siz' => new = old \o src'
       /\ result' >= siz' /\ Len(old) < siz' =>
            Len(new) = siz' - 1 /\ IsPrefix(new, old \o src')
       /\ new = strlcat(old, src', siz')
  BY <1>1, <1>3, <1>5, <1>10, <1>11, <1>12, <1>13, <1>14
<1> QED
  BY <1>14, <1>15 DEF AsDocumented

LEMMA CopiedKept ==
  ASSUME StrlcatInv, Copied, StrlcatStep
  PROVE  Copied'
<1>1. /\ siz \in Nat /\ Len(src) \in Nat
      /\ before \in Seq(STRING) /\ src \in Seq(STRING) /\ dst \in Seq(STRING)
      /\ n \in 0 .. siz /\ d \in Nat \ {0} /\ dlen \in 0 .. siz
      /\ s \in 1 .. Len(src) + 1 /\ Len(dst) = siz /\ Len(before) = siz
  BY DEF StrlcatInv, StrlcatTypeOK, InBounds, siz
<1>2. CASE FindEnd
  BY <1>1, <1>2 DEF FindEnd, Copied, StrlcatInv, InBounds
<1>3. CASE FoundEnd
  <2>1. /\ step = "find" /\ d + n = siz + 1 /\ dst = before
        /\ \A i \in 1 .. d - 1 : before[i] # NUL
        /\ dlen' = d - 1 /\ n' = siz - dlen' /\ n' = n
        /\ dst' = dst /\ src' = src /\ before' = before /\ d' = d /\ s' = s
    BY <1>1, <1>3 DEF FoundEnd, Copied, StrlcatInv, InBounds
  <2>2. CASE n' = 0
    BY <1>1, <1>3, <2>1, <2>2 DEF FoundEnd, Copied, siz
  <2>3. CASE n' # 0
    <3>1. before[d] = NUL /\ step' = "copy"
      BY <1>3, <2>1, <2>3 DEF FoundEnd
    <3>2. s = 1
      BY <2>1 DEF Copied
    <3>3. /\ dlen' < siz /\ before'[dlen' + 1] = NUL /\ d' = dlen' + 1
          /\ d' = dlen' + s' /\ siz' = siz
      BY <1>1, <2>1, <2>3, <3>1, <3>2 DEF siz
    <3>4. \A i \in 1 .. Len(src') : src'[i] # NUL
      BY <2>1 DEF Copied
    <3>5. \A i \in 1 .. dlen' : before'[i] # NUL /\ dst'[i] = before'[i]
      BY <2>1
    <3>6. \A i \in dlen' + 1 .. d' - 1 : dst'[i] = src'[i - dlen']
      BY <1>1, <2>1, <3>3
    <3>7. dlen' + 1 <= d' /\ d' <= dlen' + s'
      BY <1>1, <2>1, <3>3
    <3> QED
      BY <3>1, <3>3, <3>4, <3>5, <3>6, <3>7 DEF Copied
  <2> QED
    BY <2>2, <2>3
<1>4. CASE Copy
  <2>1. /\ step = "copy" /\ step' = "copy" /\ src' = src /\ siz' = siz
        /\ before' = before /\ dlen' = dlen /\ s' = s + 1 /\ s <= Len(src)
        /\ d + n = siz + 1 /\ n >= 1
    BY <1>4 DEF Copy, siz, StrlcatInv, InBounds
  <2>2. CASE n = 1
    BY <1>1, <1>4, <2>1, <2>2 DEF Copy, Copied
  <2>3. CASE n # 1
    <3>1. /\ dst' = [dst EXCEPT ![d] = src[s]] /\ d' = d + 1 /\ n' = n - 1
          /\ d = dlen + s /\ d \in 1 .. siz
      BY <1>1, <1>4, <2>1, <2>3 DEF Copy, Copied
    <3>2. \A i \in 1 .. siz : dst'[i] = IF i = d THEN src[s] ELSE dst[i]
      BY <1>1, <3>1
    <3>3. /\ dlen < siz /\ before[dlen + 1] = NUL
          /\ \A i \in 1 .. dlen : before[i] # NUL /\ dst[i] = before[i]
          /\ \A i \in dlen + 1 .. d - 1 : dst[i] = src[i - dlen]
          /\ \A i \in 1 .. Len(src) : src[i] # NUL
      BY <2>1 DEF Copied
    <3>4. \A i \in 1 .. dlen : dst'[i] = before[i]
      BY <1>1, <3>1, <3>2, <3>3
    <3>5. ASSUME NEW i \in dlen + 1 .. d PROVE dst'[i] = src[i - dlen]
      <4>1. CASE i = d
        BY <1>1, <3>1, <3>2, <4>1
      <4>2. CASE i # d
        BY <1>1, <3>1, <3>2, <3>3, <4>2
      <4> QED
        BY <4>1, <4>2
    <3> QED
      BY <1>1, <2>1, <3>1, <3>3, <3>4, <3>5 DEF Copied
  <2> QED
    BY <2>2, <2>3
<1>5. CASE Terminate
  BY <1>5 DEF Terminate, Copied
<1> QED
  BY <1>2, <1>3, <1>4, <1>5 DEF StrlcatStep

LEMMA StrlcatKeepsDone ==
  StrlcatDone /\ [StrlcatStep]_strlcatVars => StrlcatDone'
<1> SUFFICES ASSUME StrlcatDone, [StrlcatStep]_strlcatVars PROVE StrlcatDone'
  OBVIOUS
<1>1. StrlcatInv'
  BY StrlcatKeepsInv DEF StrlcatDone
<1>2. CASE UNCHANGED strlcatVars
  BY <1>1, <1>2 DEF strlcatVars, StrlcatDone, Copied, AsDocumented, siz
<1>3. CASE StrlcatStep
  <2>1. Copied'
    BY <1>3, CopiedKept DEF StrlcatDone
  <2>2. AsDocumented'
    <3>1. CASE FindEnd \/ Copy
      BY <3>1 DEF FindEnd, Copy, AsDocumented
    <3>2. CASE FoundEnd
      <4>1. CASE step' = "done"
        BY <3>2, <4>1, FullArray DEF StrlcatDone
      <4>2. CASE step' # "done"
        BY <4>2 DEF AsDocumented
      <4> QED
        BY <4>1, <4>2
    <3>3. CASE Terminate
      BY <3>3, Terminated DEF StrlcatDone
    <3> QED
      BY <1>3, <3>1, <3>2, <3>3 DEF StrlcatStep
  <2> QED
    BY <1>1, <2>1, <2>2 DEF StrlcatDone
<1> QED
  BY <1>2, <1>3

\* For every array and every string: what strlcat returns and leaves in dst is
\* what the comment above it says, and what the other modules suppose.
THEOREM DoesAsDocumented == StrlcatSpec => []AsDocumented
<1>1. StrlcatInit => StrlcatDone
  BY StrlcatStarts, CopiedStarts DEF StrlcatDone
<1>2. StrlcatDone => AsDocumented
  BY DEF StrlcatDone
<1> QED
  BY <1>1, <1>2, StrlcatKeepsDone, PTL DEF StrlcatSpec

(***************************************************************************)
(* upper_power_of_two.  A number is the set of the positions of its ones.  *)
(***************************************************************************)
LEMMA MinIs ==
  ASSUME NEW S \in SUBSET Nat, NEW k \in S, \A x \in S : k <= x
  PROVE  Min(S) = k
<1>1. \E x \in S : \A y \in S : x <= y
  OBVIOUS
<1>2. Min(S) \in S /\ \A y \in S : Min(S) <= y
  BY <1>1, Zenon DEF Min
<1>3. Min(S) <= k /\ k <= Min(S) /\ Min(S) \in Nat /\ k \in Nat
  BY <1>2
<1> QED
  BY <1>3

LEMMA MaxIs ==
  ASSUME NEW S \in SUBSET Nat, NEW k \in S, \A x \in S : x <= k
  PROVE  Max(S) = k
<1>1. \E x \in S : \A y \in S : x >= y
  OBVIOUS
<1>2. Max(S) \in S /\ \A y \in S : Max(S) >= y
  BY <1>1, Zenon DEF Max
<1>3. Max(S) >= k /\ k >= Max(S) /\ Max(S) \in Nat /\ k \in Nat
  BY <1>2
<1> QED
  BY <1>3

LEMMA HasMin ==
  ASSUME NEW S \in SUBSET Nat, S # {}
  PROVE  Min(S) \in S /\ \A x \in S : Min(S) <= x
<1>1. PICK k \in S : \A x \in S : k <= x
  BY LeastNat
<1>2. Min(S) = k
  BY <1>1, MinIs
<1> QED
  BY <1>1, <1>2

\* The highest one is where the distance to a bound is least.
LEMMA HasMax ==
  ASSUME NEW N \in Nat, NEW S \in SUBSET (0 .. N), S # {}
  PROVE  Max(S) \in S /\ \A x \in S : x <= Max(S)
<1> DEFINE T == {N - x : x \in S}
<1>1. PICK t \in T : \A u \in T : t <= u
  <2>1. \A x \in S : N - x \in Nat
    OBVIOUS
  <2>2. T \in SUBSET Nat /\ T # {}
    BY <2>1
  <2> QED
    BY <2>2, LeastNat
<1>2. PICK k \in S : t = N - k
  BY <1>1
<1>3. \A x \in S : x <= k
  <2> SUFFICES ASSUME NEW x \in S PROVE x <= k
    OBVIOUS
  <2>1. N - k <= N - x
    BY <1>1, <1>2
  <2> QED
    BY <2>1
<1>4. Max(S) = k
  BY <1>3, MaxIs
<1> QED
  BY <1>3, <1>4

\* What k steps of the smear have filled: the positions at most k - 1 below a
\* one.
Reach(v, k) == {b \in Bit : \E i \in 0 .. k - 1 : b + i \in v}

LEMMA OrDoubles ==
  ASSUME NEW v \in SUBSET Bit, NEW k \in Nat \ {0}
  PROVE  Or(Reach(v, k), k) = Reach(v, 2 * k)
<1> DEFINE r == Reach(v, k)
<1>1. \A b : b \in Or(r, k) <=> b \in r \/ \E c \in r : c >= k /\ b = c - k
  BY DEF Or, ShiftRight
<1>2. \A b \in r : b \in Reach(v, 2 * k)
  BY DEF Reach, Bit, Width
<1>3. ASSUME NEW c \in r, c >= k PROVE c - k \in Reach(v, 2 * k)
  <2>1. c \in Bit /\ \E i \in 0 .. k - 1 : c + i \in v
    BY DEF Reach
  <2>2. PICK i \in 0 .. k - 1 : c + i \in v
    BY <2>1
  <2>3. /\ k + i \in 0 .. 2 * k - 1 /\ (c - k) + (k + i) = c + i
        /\ c - k \in Bit
    BY <1>3, <2>1 DEF Bit, Width
  <2> QED
    BY <2>2, <2>3 DEF Reach
<1>4. ASSUME NEW b \in Reach(v, 2 * k) PROVE b \in Or(r, k)
  <2>1. b \in Bit /\ \E i \in 0 .. 2 * k - 1 : b + i \in v
    BY DEF Reach
  <2>2. PICK i \in 0 .. 2 * k - 1 : b + i \in v
    BY <2>1
  <2>3. CASE i < k
    <3>1. i \in 0 .. k - 1
      BY <2>3
    <3>2. b \in r
      BY <2>1, <2>2, <3>1 DEF Reach
    <3> QED
      BY <1>1, <3>2
  <2>4. CASE i >= k
    <3>1. /\ i - k \in 0 .. k - 1 /\ (b + k) + (i - k) = b + i
          /\ b + i \in Bit /\ b \in Nat
      BY <2>1, <2>2, <2>4 DEF Bit, Width
    <3>2. b + k \in Bit /\ b + k >= k /\ (b + k) - k = b
      BY <2>4, <3>1 DEF Bit, Width
    <3>3. b + k \in r
      BY <2>2, <3>1, <3>2 DEF Reach
    <3> QED
      BY <1>1, <3>2, <3>3
  <2> QED
    BY <2>3, <2>4
<1>5. \A b \in Or(r, k) : b \in Reach(v, 2 * k)
  BY <1>1, <1>2, <1>3
<1> QED
  BY <1>4, <1>5

\* Below 2^32 the shifts fill every position below the highest one.
LEMMA SmearFills ==
  ASSUME NEW v \in SUBSET (0 .. 31), v # {}
  PROVE  Smear(v) = 0 .. Max(v)
<1>1. v \in SUBSET Bit
  BY DEF Bit, Width
<1>2. v = Reach(v, 1)
  <2>1. Reach(v, 1) = {b \in Bit : \E i \in {0} : b + i \in v}
    <3>1. 0 .. 1 - 1 = {0}
      OBVIOUS
    <3> QED
      BY <3>1, Zenon DEF Reach
  <2>2. \A b \in Bit : b + 0 = b
    BY DEF Bit, Width
  <2> QED
    BY <1>1, <2>1, <2>2
<1>3. Or(v, 1) = Reach(v, 2)
  BY <1>1, <1>2, OrDoubles
<1>4. Or(Reach(v, 2), 2) = Reach(v, 4)
  BY <1>1, OrDoubles
<1>5. Or(Reach(v, 4), 4) = Reach(v, 8)
  BY <1>1, OrDoubles
<1>6. Or(Reach(v, 8), 8) = Reach(v, 16)
  BY <1>1, OrDoubles
<1>7. Or(Reach(v, 16), 16) = Reach(v, 32)
  BY <1>1, OrDoubles
<1>8. Smear(v) = Reach(v, 32)
  BY <1>3, <1>4, <1>5, <1>6, <1>7 DEF Smear
<1>9. Max(v) \in v /\ \A x \in v : x <= Max(v)
  BY HasMax
<1> DEFINE m == Max(v)
<1>10. m \in 0 .. 31
  BY <1>9
<1> HIDE DEF m
<1>11. ASSUME NEW b \in Reach(v, 32) PROVE b \in 0 .. m
  <2>1. b \in Bit /\ \E i \in 0 .. 32 - 1 : b + i \in v
    BY DEF Reach
  <2>2. PICK i \in 0 .. 32 - 1 : b + i \in v
    BY <2>1
  <2>3. b + i <= m
    BY <1>9, <2>2 DEF m
  <2> QED
    BY <1>10, <2>1, <2>3 DEF Bit, Width
<1>12. ASSUME NEW b \in 0 .. m PROVE b \in Reach(v, 32)
  <2>1. m - b \in 0 .. 32 - 1 /\ b + (m - b) = m /\ b \in Bit
    BY <1>10 DEF Bit, Width
  <2>2. b + (m - b) \in v
    BY <1>9, <2>1 DEF m
  <2> QED
    BY <2>1, <2>2 DEF Reach
<1> QED
  BY <1>8, <1>11, <1>12 DEF m

LEMMA IncrementOnes ==
  ASSUME NEW m \in 0 .. 31
  PROVE  Increment(0 .. m) = {m + 1}
<1> DEFINE zeros == Bit \ (0 .. m)
<1>1. m + 1 \in zeros /\ (\A x \in zeros : m + 1 <= x) /\ zeros \in SUBSET Nat
  BY DEF Bit, Width
<1> HIDE DEF zeros
<1>2. Min(zeros) = m + 1
  BY <1>1, MinIs
<1>3. 0 .. m # SIZE_MAX
  <2>1. 63 \in SIZE_MAX /\ 63 \notin 0 .. m
    BY DEF SIZE_MAX, Bit, Width
  <2> QED
    BY <2>1
<1>4. ((0 .. m) \ (0 .. m + 1)) \union {m + 1} = {m + 1}
  OBVIOUS
<1> QED
  BY <1>2, <1>3, <1>4 DEF Increment, zeros

\* upper_power_of_two gives the least power of two that is not below its
\* argument, for every argument below 2^32.
LEMMA LeastPower ==
  ASSUME NEW v \in SUBSET (0 .. 31), ~(v \subseteq {0})
  PROVE  upper_power_of_two(v) = LeastPowerOfTwo(v)
<1> DEFINE lo == Min(v)
           dec == (v \ {lo}) \union 0 .. lo - 1
<1>1. lo \in v /\ (\A x \in v : lo <= x) /\ lo \in 0 .. 31
  <2>1. v \in SUBSET Nat /\ v # {}
    OBVIOUS
  <2>2. lo \in v /\ (\A x \in v : lo <= x)
    BY <2>1, HasMin
  <2> QED
    BY <2>2
<1>2. upper_power_of_two(v) = Increment(Smear(dec))
  <2>1. v # SIZE_MAX
    <3>1. 63 \in SIZE_MAX /\ 63 \notin v
      BY DEF SIZE_MAX, Bit, Width
    <3> QED
      BY <3>1
  <2> QED
    BY <2>1 DEF upper_power_of_two, Decrement
<1> HIDE DEF lo
<1>3. dec \in SUBSET (0 .. 31)
  BY <1>1
<1>4. IsFiniteSet(v)
  <2>1. 0 \in Int /\ 31 \in Int
    OBVIOUS
  <2>2. IsFiniteSet(0 .. 31)
    BY <2>1, FS_Interval
  <2> QED
    BY <2>2, FS_Subset
<1>5. CASE v = {lo}
  <2>1. lo >= 1 /\ lo - 1 \in 0 .. 31
    <3>1. lo # 0
      BY <1>5
    <3> QED
      BY <1>1, <3>1
  <2>2. dec = 0 .. lo - 1
    BY <1>5
  <2>3. Max(dec) = lo - 1
    BY <1>1, <2>1, <2>2, MaxIs
  <2>4. dec # {}
    BY <2>1, <2>2
  <2> HIDE DEF dec
  <2>5. Smear(dec) = 0 .. lo - 1
    BY <1>3, <2>3, <2>4, SmearFills
  <2>6. Increment(0 .. lo - 1) = {lo}
    <3>1. Increment(0 .. lo - 1) = {(lo - 1) + 1}
      BY <2>1, IncrementOnes
    <3>2. (lo - 1) + 1 = lo
      BY <1>1
    <3> QED
      BY <3>1, <3>2
  <2>7. Cardinality(v) <= 1
    BY <1>5, FS_Singleton
  <2> QED
    BY <1>2, <1>5, <2>5, <2>6, <2>7 DEF LeastPowerOfTwo
<1>6. CASE v # {lo}
  <2> DEFINE hi == Max(v)
  <2>1. hi \in v /\ (\A x \in v : x <= hi) /\ hi \in 0 .. 31
    <3>1. hi \in v /\ (\A x \in v : x <= hi)
      BY <1>1, HasMax
    <3> QED
      BY <3>1
  <2> HIDE DEF hi
  <2>2. hi # lo
    <3>1. PICK x \in v : x # lo
      BY <1>1, <1>6
    <3> QED
      BY <1>1, <2>1, <3>1
  <2>3. hi \in dec /\ \A x \in dec : x <= hi
    BY <1>1, <2>1, <2>2
  <2>4. dec # {}
    BY <2>3
  <2> HIDE DEF dec
  <2>5. dec \in SUBSET Nat
    BY <1>3
  <2>6. Max(dec) = hi
    BY <2>3, <2>5, MaxIs
  <2>7. Smear(dec) = 0 .. hi
    BY <1>3, <2>4, <2>6, SmearFills
  <2>8. Increment(0 .. hi) = {hi + 1}
    BY <2>1, IncrementOnes
  <2>9. ~(Cardinality(v) <= 1)
    <3>1. Cardinality(v) \in Nat
      BY <1>4, FS_CardinalityType
    <3>2. Cardinality(v) # 0
      BY <1>1, <1>4, FS_EmptySet
    <3>3. Cardinality(v) # 1
      <4>1. ~\E x : v = {x}
        BY <1>1, <1>6
      <4> QED
        BY <1>4, <4>1, FS_Singleton
    <3> QED
      BY <3>1, <3>2, <3>3
  <2> QED
    BY <1>2, <2>7, <2>8, <2>9 DEF LeastPowerOfTwo, hi
<1> QED
  BY <1>5, <1>6

PowerInv == arg \in SUBSET (0 .. 31) /\ power = upper_power_of_two(arg)

\* "Returns the nearest upper power of 2 number to the argument passed in"
\* (util.c, above upper_power_of_two), for every argument from 2 to 2^32 - 1.
THEOREM IsNearestUpperPower == Spec => []NearestUpperPower
<1>1. Init => PowerInv
  BY DEF Init, PowerInv
<1>2. PowerInv /\ [Next]_utilVars => PowerInv'
  <2> SUFFICES ASSUME PowerInv, [Next]_utilVars PROVE PowerInv'
    OBVIOUS
  <2>1. CASE UpperPowerOfTwo
    <3>1. PICK b \in 0 .. TopBit - 1 :
            arg' = arg \union {b} /\ power' = upper_power_of_two(arg')
      BY <2>1 DEF UpperPowerOfTwo
    <3>2. b \in 0 .. 31
      BY TopBitAssumption
    <3> QED
      BY <3>1, <3>2 DEF PowerInv
  <2>2. CASE UNCHANGED <<arg, power>>
    BY <2>2 DEF PowerInv
  <2> QED
    BY <2>1, <2>2 DEF Next, utilVars
<1>3. PowerInv => NearestUpperPower
  BY LeastPower DEF PowerInv, NearestUpperPower
<1> QED
  BY <1>1, <1>2, <1>3, PTL DEF Spec

(***************************************************************************)
(* noop, null and dup.                                                     *)
(***************************************************************************)
Writing == at \in {"stdout", "stderr"}

\* The last chunk is in the buffer while it is written, and what was taken of
\* it is what write_all has counted.
Buffered ==
  /\ Len(took) = Len(chunks)
  /\ \A i \in DOMAIN chunks : took[i] <= Len(chunks[i])
  /\ Writing =>
       /\ do_writes /\ total_bytes < Len(buf) /\ Len(buf) <= total_read
       /\ buf = SubSeq(input, total_read - Len(buf) + 1, total_read)
       /\ chunks # <<>> /\ chunks[Len(chunks)] = buf
       /\ at = "stdout" => took[Len(took)] = total_bytes
       /\ at = "stderr" => do_stderr_echo
  /\ at = "read" => total_bytes = 0

\* What stdout and stderr have.
Printed ==
  /\ FlattenSeq(chunks) = SubSeq(input, 1, total_read)
  /\ out = FlattenSeq(Taken)
  /\ do_writes /\ ~lost /\ at # "killed" =>
       out = SubSeq(input, 1, total_read - Pending)
  /\ at \in {"read", "stdout", "stderr"} =>
       total_wrote + (IF at = "stdout" THEN total_bytes ELSE 0) = Len(out)
  /\ do_stderr_echo /\ ~lost =>
       /\ at = "read" => err = out
       /\ at = "stdout" => err \o SubSeq(buf, 1, total_bytes) = out
       /\ at = "stderr" => err \o SubSeq(buf, total_bytes + 1, Len(buf)) = out

NoopInv == NoopTypeOK /\ Buffered /\ Printed

LEMMA BytesMove ==
  \A u, v, w \in Seq(Nat) : (u \o v) \o w = u \o (v \o w)
OBVIOUS

LEMMA NoopStarts == NoopInit => NoopInv
<1> SUFFICES ASSUME NoopInit PROVE NoopInv
  OBVIOUS
<1>1. input \in Seq(Nat) /\ Len(input) \in Nat
  BY NoopAssumption DEF NoopInit
<1>2. NoopTypeOK
  <2>1. \A T : <<>> \in Seq(T)
    OBVIOUS
  <2>2. <<>> \in Seq(Seq(Nat)) /\ <<>> \in Seq(Nat) /\ Len(<<>>) = 0
    BY <2>1
  <2>3. 0 \in 0 .. Len(input) /\ 0 \in 0 .. 0 /\ 0 \in Nat
    BY <1>1
  <2> QED
    BY <2>2, <2>3 DEF NoopInit, NoopTypeOK
<1>3. Buffered
  BY DEF NoopInit, Buffered, Writing
<1>4. FlattenSeq(chunks) = <<>> /\ FlattenSeq(Taken) = <<>> /\ SubSeq(input, 1, 0) = <<>>
  <2>1. chunks = <<>> /\ Taken = <<>>
    BY DEF NoopInit, Taken
  <2> QED
    BY <1>1, <2>1, FlattenEmpty
<1>5. Printed
  <2>1. Pending = 0 /\ 0 - 0 = 0 /\ 0 + 0 = 0 /\ Len(<<>>) = 0
    BY DEF NoopInit, Pending
  <2> QED
    BY <1>4, <2>1 DEF NoopInit, Printed
<1> QED
  BY <1>2, <1>3, <1>5 DEF NoopInv

\* What the lemmas about the steps know of the types.
LEMMA NoopTypes ==
  ASSUME NoopInv
  PROVE  /\ input \in Seq(Nat) /\ Len(input) \in Nat
         /\ buf \in Seq(Nat) /\ Len(buf) \in Nat
         /\ total_read \in 0 .. Len(input) /\ total_bytes \in 0 .. Len(buf)
         /\ total_wrote \in Nat /\ out \in Seq(Nat) /\ err \in Seq(Nat)
         /\ Len(out) \in Nat
         /\ chunks \in Seq(Seq(Nat)) /\ took \in Seq(Nat)
         /\ Len(chunks) \in Nat /\ DOMAIN chunks = 1 .. Len(chunks)
         /\ \A i \in 1 .. Len(chunks) : chunks[i] \in Seq(Nat) /\ took[i] \in Nat
         /\ Len(took) = Len(chunks)
         /\ \A i \in 1 .. Len(chunks) : took[i] <= Len(chunks[i])
         /\ Taken \in Seq(Seq(Nat)) /\ Len(Taken) = Len(chunks)
         /\ \A i \in 1 .. Len(chunks) : Taken[i] = SubSeq(chunks[i], 1, took[i])
<1>1. /\ input \in Seq(Nat) /\ buf \in Seq(Nat)
      /\ total_read \in 0 .. Len(input) /\ total_bytes \in 0 .. Len(buf)
      /\ total_wrote \in Nat /\ out \in Seq(Nat) /\ err \in Seq(Nat)
      /\ chunks \in Seq(Seq(Nat)) /\ took \in Seq(Nat) /\ Len(took) = Len(chunks)
      /\ \A i \in DOMAIN chunks : took[i] <= Len(chunks[i])
  BY NoopAssumption DEF NoopInv, NoopTypeOK, Buffered
<1>2. /\ Len(chunks) \in Nat /\ DOMAIN chunks = 1 .. Len(chunks)
      /\ \A i \in 1 .. Len(chunks) : chunks[i] \in Seq(Nat)
  <2> DEFINE T == Seq(Nat)
  <2>1. chunks \in Seq(T)
    BY <1>1
  <2> HIDE DEF T
  <2>2. /\ Len(chunks) \in Nat /\ DOMAIN chunks = 1 .. Len(chunks)
        /\ \A i \in 1 .. Len(chunks) : chunks[i] \in T
    BY <2>1
  <2> QED
    BY <2>2 DEF T
<1>3. \A i \in 1 .. Len(chunks) : chunks[i] \in Seq(Nat) /\ took[i] \in Nat
  <2>1. took \in Seq(Nat) /\ Len(took) = Len(chunks)
    BY <1>1
  <2>2. \A i \in 1 .. Len(took) : took[i] \in Nat
    BY <2>1
  <2> QED
    BY <1>2, <2>1, <2>2, Zenon
<1>4. ASSUME NEW i \in 1 .. Len(chunks)
      PROVE  SubSeq(chunks[i], 1, took[i]) \in Seq(Nat)
  <2>1. took[i] \in 0 .. Len(chunks[i]) /\ 1 \in Nat \ {0}
    <3>1. took[i] <= Len(chunks[i]) /\ took[i] \in Nat /\ chunks[i] \in Seq(Nat)
      BY <1>1, <1>2, <1>3, Zenon
    <3> QED
      BY <3>1
  <2> QED
    BY <1>3, <2>1, PartSeq
<1>5. /\ Taken \in Seq(Seq(Nat)) /\ Len(Taken) = Len(chunks)
      /\ \A i \in 1 .. Len(chunks) : Taken[i] = SubSeq(chunks[i], 1, took[i])
  <2>1. Taken = [i \in 1 .. Len(chunks) |-> SubSeq(chunks[i], 1, took[i])]
    BY <1>2 DEF Taken
  <2>2. Taken \in [1 .. Len(chunks) -> Seq(Nat)]
    BY <1>4, <2>1
  <2> DEFINE T == Seq(Nat)
  <2>3. Taken \in [1 .. Len(chunks) -> T]
    BY <2>2
  <2> HIDE DEF T
  <2>4. Taken \in Seq(T) /\ Len(Taken) = Len(chunks)
    BY <1>2, <2>3
  <2> QED
    BY <2>1, <2>4 DEF T
<1>6. Len(input) \in Nat /\ Len(buf) \in Nat /\ Len(out) \in Nat
  <2>1. input \in Seq(Nat) /\ buf \in Seq(Nat) /\ out \in Seq(Nat)
    BY <1>1
  <2> QED
    BY <2>1
<1> QED
  BY <1>1, <1>2, <1>3, <1>5, <1>6

LEMMA ReadKeeps ==
  ASSUME NoopInv, ReadBytes
  PROVE  NoopInv'
<1>1. PICK br \in 1 .. BUFFER_MAX :
        /\ total_read + br <= Len(input)
        /\ buf' = SubSeq(input, total_read + 1, total_read + br)
        /\ total_read' = total_read + br
  BY DEF ReadBytes
<1>2. /\ at = "read" /\ total_bytes' = 0
      /\ at' = (IF do_writes THEN "stdout" ELSE "read")
      /\ chunks' = Append(chunks, buf') /\ took' = Append(took, 0)
      /\ UNCHANGED <<name, rc, input, total_wrote, out, err, lost>>
  BY DEF ReadBytes, files
<1>3. br \in Nat /\ br >= 1
  BY NoopAssumption
<1>4. buf' \in Seq(Nat) /\ Len(buf') = br
  <2>1. input \in Seq(Nat) /\ total_read \in Nat
    <3>1. input \in Seq(Nat) /\ total_read \in 0 .. Len(input)
      BY NoopTypes
    <3> QED
      BY <3>1
  <2>2. HasParts(Seq(Nat))
    BY Parts, Zenon
  <2> QED
    BY <1>1, <1>3, <2>1, <2>2, Zenon DEF HasParts
<1>5. /\ chunks' \in Seq(Seq(Nat)) /\ Len(chunks') = Len(chunks) + 1
      /\ \A i \in 1 .. Len(chunks) : chunks'[i] = chunks[i]
      /\ chunks'[Len(chunks) + 1] = buf'
  <2> DEFINE T == Seq(Nat)
  <2>1. chunks \in Seq(T) /\ buf' \in T
    BY <1>4, NoopTypes
  <2> HIDE DEF T
  <2>2. /\ Append(chunks, buf') \in Seq(T)
        /\ Len(Append(chunks, buf')) = Len(chunks) + 1
        /\ \A i \in 1 .. Len(chunks) : Append(chunks, buf')[i] = chunks[i]
        /\ Append(chunks, buf')[Len(chunks) + 1] = buf'
    BY <2>1, AppendProperties
  <2> QED
    BY <1>2, <2>2 DEF T
<1>6. /\ took' \in Seq(Nat) /\ Len(took') = Len(chunks) + 1
      /\ \A i \in 1 .. Len(chunks) : took'[i] = took[i]
      /\ took'[Len(chunks) + 1] = 0
  <2>1. took \in Seq(Nat) /\ Len(took) = Len(chunks) /\ 0 \in Nat
    BY NoopTypes
  <2> QED
    BY <1>2, <2>1, AppendProperties
<1>7. NoopTypeOK'
  <2>1. at' \in {"read", "stdout"} /\ total_read' \in 0 .. Len(input)
    <3>1. total_read \in 0 .. Len(input) /\ Len(input) \in Nat
      BY NoopTypes
    <3> QED
      BY <1>1, <1>2, <1>3, <3>1
  <2>2. total_bytes' \in 0 .. Len(buf') /\ total_bytes' < Len(buf')
    BY <1>2, <1>3, <1>4
  <2>3. /\ name \in Names /\ rc \in {"EX_OK", "EX_IOERR"} /\ input \in Inputs
        /\ total_wrote \in Nat /\ out \in Seq(Nat) /\ err \in Seq(Nat)
        /\ lost \in BOOLEAN
    BY DEF NoopInv, NoopTypeOK
  <2> QED
    BY <1>2, <1>4, <1>5, <1>6, <2>1, <2>2, <2>3 DEF NoopTypeOK
<1>8. Buffered'
  <2>1. \A i \in DOMAIN chunks' : took'[i] <= Len(chunks'[i])
    <3>1. DOMAIN chunks' = 1 .. Len(chunks) + 1
      BY <1>5, NoopTypes
    <3>2. ASSUME NEW i \in 1 .. Len(chunks) + 1 PROVE took'[i] <= Len(chunks'[i])
      <4>1. CASE i \in 1 .. Len(chunks)
        BY <1>5, <1>6, <4>1, NoopTypes
      <4>2. CASE i = Len(chunks) + 1
        BY <1>3, <1>4, <1>5, <1>6, <4>2
      <4> QED
        BY <4>1, <4>2, NoopTypes
    <3> QED
      BY <3>1, <3>2
  <2>2. Writing' => at' = "stdout" /\ do_writes /\ do_writes'
    BY <1>2 DEF Writing, do_writes
  <2>3. buf' = SubSeq(input', total_read' - Len(buf') + 1, total_read')
    <3>0. total_read \in 0 .. Len(input)
      BY NoopTypes
    <3>1. total_read' - Len(buf') + 1 = total_read + 1
      <4>1. total_read \in Nat /\ total_read' = total_read + br /\ Len(buf') = br
        BY <1>1, <1>4, <3>0
      <4> QED
        BY <1>3, <4>1
    <3> QED
      BY <1>1, <1>2, <3>1
  <2>4. /\ chunks' # <<>> /\ chunks'[Len(chunks')] = buf'
        /\ took'[Len(took')] = 0
    <3>1. Len(chunks) \in Nat /\ Len(took) = Len(chunks)
      BY NoopTypes
    <3>2. Len(chunks') = Len(chunks) + 1 /\ Len(took') = Len(chunks) + 1
      BY <1>5, <1>6
    <3>3. chunks' # <<>>
      BY <3>1, <3>2
    <3> QED
      BY <1>5, <1>6, <3>2, <3>3, Zenon
  <2>5. Len(buf') <= total_read'
    <3>1. total_read \in Nat /\ total_read' = total_read + br /\ Len(buf') = br
      <4>1. total_read \in 0 .. Len(input)
        BY NoopTypes
      <4> QED
        BY <1>1, <1>4, <4>1
    <3> QED
      BY <1>3, <3>1
  <2>6. at' # "stderr" /\ (Writing' => at' = "stdout")
    BY <1>2, <2>2
  <2>7. total_bytes' = 0 /\ total_bytes' < Len(buf')
    BY <1>2, <1>3, <1>4
  <2>8. Len(took') = Len(chunks')
    BY <1>5, <1>6
  <2> QED
    BY <2>1, <2>2, <2>3, <2>4, <2>5, <2>6, <2>7, <2>8 DEF Buffered
<1>9. Printed'
  <2>1. FlattenSeq(chunks') = SubSeq(input, 1, total_read')
    <3>1. FlattenSeq(chunks') = FlattenSeq(chunks) \o buf'
      BY <1>2, <1>4, NoopTypes, FlattenMore
    <3>2. SubSeq(input, 1, total_read) \o SubSeq(input, total_read + 1, total_read + br)
            = SubSeq(input, 1, total_read + br)
      <4>1. /\ total_read + br \in 0 .. Len(input) /\ total_read \in Nat
            /\ 1 <= total_read + 1 /\ total_read <= total_read + br /\ 1 \in Nat \ {0}
        <5>1. total_read \in 0 .. Len(input) /\ Len(input) \in Nat
          BY NoopTypes
        <5> QED
          BY <1>1, <1>3, <5>1
      <4>2. input \in Seq(Nat)
        BY NoopTypes
      <4> QED
        BY <4>1, <4>2, PartsJoin
    <3> QED
      BY <1>1, <3>1, <3>2 DEF NoopInv, Printed
  <2>2. FlattenSeq(Taken') = out
    <3>1. Taken' = Append(Taken, <<>>)
      <4>1. SubSeq(buf', 1, 0) = <<>>
        BY <1>4
      <4>2. Taken' = [i \in 1 .. Len(chunks) + 1 |-> SubSeq(chunks'[i], 1, took'[i])]
        BY <1>5, NoopTypes DEF Taken
      <4>3. \A i \in 1 .. Len(chunks) : SubSeq(chunks'[i], 1, took'[i]) = Taken[i]
        BY <1>5, <1>6, NoopTypes
      <4>4. SubSeq(chunks'[Len(chunks) + 1], 1, took'[Len(chunks) + 1]) = <<>>
        BY <1>5, <1>6, <4>1
      <4> DEFINE T == Seq(Nat)
                 more == Append(Taken, <<>>)
      <4>5. Taken \in Seq(T) /\ <<>> \in T /\ Len(Taken) = Len(chunks)
            /\ Len(chunks) \in Nat
        BY NoopTypes
      <4> HIDE DEF T
      <4>6. /\ more \in Seq(T) /\ Len(more) = Len(chunks) + 1
            /\ \A i \in 1 .. Len(chunks) : more[i] = Taken[i]
            /\ more[Len(chunks) + 1] = <<>>
        BY <4>5, AppendProperties
      <4> HIDE DEF more
      <4>7. ASSUME NEW i \in 1 .. Len(chunks) + 1
            PROVE  SubSeq(chunks'[i], 1, took'[i]) = more[i]
        <5>1. CASE i = Len(chunks) + 1
          BY <4>4, <4>6, <5>1
        <5>2. CASE i # Len(chunks) + 1
          <6>1. i \in 1 .. Len(chunks)
            BY <4>5, <5>2
          <6> QED
            BY <4>3, <4>6, <6>1
        <5> QED
          BY <5>1, <5>2
      <4>8. DOMAIN more = 1 .. Len(chunks) + 1
        BY <4>6
      <4>9. more = [i \in 1 .. Len(chunks) + 1 |-> more[i]]
        BY <4>6, <4>8
      <4>10. Taken' = [i \in 1 .. Len(chunks) + 1 |-> more[i]]
        BY <4>2, <4>7
      <4> QED
        BY <4>9, <4>10 DEF more
    <3>2. <<>> \in Seq(Nat) /\ out \o <<>> = out
      BY NoopTypes
    <3>3. FlattenSeq(Append(Taken, <<>>)) = FlattenSeq(Taken) \o <<>>
      <4>1. Taken \in Seq(Seq(Nat)) /\ <<>> \in Seq(Nat)
        BY <3>2, NoopTypes
      <4> QED
        BY <4>1, FlattenMore
    <3>4. FlattenSeq(Taken) = out
      BY DEF NoopInv, Printed
    <3> QED
      BY <3>1, <3>2, <3>3, <3>4, Zenon
  <2>3. do_writes' /\ ~lost' /\ at' # "killed" =>
          out' = SubSeq(input', 1, total_read' - Pending')
    <3>1. do_writes' => at' = "stdout" /\ total_read' - Pending' = total_read
      <4>1. do_writes' => at' = "stdout" /\ Pending' = Len(buf') - total_bytes'
        BY <1>2 DEF do_writes, Pending
      <4>2. total_read \in Nat /\ br \in Nat /\ total_read' = total_read + br
            /\ Len(buf') = br /\ total_bytes' = 0
        <5>1. total_read \in 0 .. Len(input)
          BY NoopTypes
        <5> QED
          BY <1>1, <1>2, <1>3, <1>4, <5>1
      <4>3. total_read' - (Len(buf') - total_bytes') = total_read
        BY <4>2
      <4> QED
        BY <4>1, <4>3, Zenon
    <3>2. do_writes /\ ~lost => out = SubSeq(input, 1, total_read)
      BY <1>2, NoopTypes DEF NoopInv, Printed, Pending
    <3> QED
      BY <1>2, <3>1, <3>2 DEF do_writes
  <2>4. total_wrote' + (IF at' = "stdout" THEN total_bytes' ELSE 0) = Len(out')
    BY <1>2, NoopTypes DEF NoopInv, Printed
  <2>5. do_stderr_echo' /\ ~lost' =>
          /\ at' = "read" => err' = out'
          /\ at' = "stdout" => err' \o SubSeq(buf', 1, total_bytes') = out'
          /\ at' = "stderr" =>
               err' \o SubSeq(buf', total_bytes' + 1, Len(buf')) = out'
    <3>1. SubSeq(buf', 1, total_bytes') = <<>> /\ err \o <<>> = err
      BY <1>2, <1>4, NoopTypes
    <3>2. do_stderr_echo /\ ~lost => err = out
      BY <1>2 DEF NoopInv, Printed
    <3>3. at' # "stderr"
      BY <1>2
    <3> QED
      BY <1>2, <3>1, <3>2, <3>3 DEF do_stderr_echo
  <2> QED
    BY <1>2, <2>1, <2>2, <2>3, <2>4, <2>5 DEF Printed
<1> QED
  BY <1>7, <1>8, <1>9 DEF NoopInv

\* A write to stdout: the part that is taken follows the part taken before.
LEMMA StdoutKeeps ==
  ASSUME NoopInv, Write, at = "stdout"
  PROVE  NoopInv'
<1>1. PICK nw \in 1 .. Len(buf) - total_bytes :
        /\ out' = out \o SubSeq(buf, total_bytes + 1, total_bytes + nw)
        /\ took' = [took EXCEPT ![Len(took)] = total_bytes + nw]
        /\ IF total_bytes + nw = Len(buf) THEN Returned(Len(buf))
           ELSE /\ total_bytes' = total_bytes + nw
                /\ UNCHANGED <<at, total_wrote>>
  BY DEF Write, FromWritten
<1>2. /\ err' = err
      /\ UNCHANGED <<name, rc, input, total_read, buf, chunks, lost>>
  BY DEF Write
<1> DEFINE b == total_bytes
           l == Len(buf)
           k == Len(chunks)
           piece == SubSeq(buf, b + 1, b + nw)
<1>3. /\ buf \in Seq(Nat) /\ l \in Nat /\ b \in 0 .. l
      /\ input \in Seq(Nat) /\ Len(input) \in Nat /\ total_read \in 0 .. Len(input)
  BY NoopTypes
<1>4. /\ do_writes /\ b < l /\ l <= total_read
      /\ buf = SubSeq(input, total_read - l + 1, total_read)
      /\ chunks # <<>> /\ chunks[k] = buf /\ took[k] = b /\ Len(took) = k
  BY DEF NoopInv, Buffered, Writing
<1>5. nw \in Nat /\ nw >= 1 /\ b + nw \in 0 .. l /\ b + nw \in Nat /\ b \in Nat
  <2>1. l \in Nat /\ b \in 0 .. l
    BY <1>3
  <2> QED
    BY <2>1
<1>6. piece \in Seq(Nat) /\ Len(piece) = nw
  <2>1. /\ b + 1 \in Nat \ {0} /\ b + 1 <= (b + nw) + 1
        /\ (b + nw) - (b + 1) + 1 = nw
    BY <1>5
  <2> QED
    BY <1>3, <1>5, <2>1, PartIs
<1>7. /\ out \in Seq(Nat) /\ err \in Seq(Nat) /\ Len(out) \in Nat /\ total_wrote \in Nat
  BY NoopTypes
<1>8. out' \in Seq(Nat) /\ Len(out') = Len(out) + nw
  <2> HIDE DEF piece
  <2>1. out' = out \o piece
    BY <1>1 DEF piece
  <2>2. out \in Seq(Nat) /\ piece \in Seq(Nat) /\ Len(piece) = nw
    BY <1>6, <1>7
  <2>3. out \o piece \in Seq(Nat) /\ Len(out \o piece) = Len(out) + Len(piece)
    BY <2>2, ConcatLengths, Zenon DEF LengthsAdd
  <2> QED
    BY <2>1, <2>2, <2>3, Zenon
<1>9. k \in Nat \ {0} /\ DOMAIN chunks = 1 .. k
  <2>1. k \in Nat /\ DOMAIN chunks = 1 .. k /\ chunks \in Seq(Seq(Nat))
    BY NoopTypes
  <2>2. k # 0
    BY <1>4, <2>1, EmptySeq
  <2> QED
    BY <2>1, <2>2
<1>10. /\ took' \in Seq(Nat) /\ Len(took') = k /\ took'[k] = b + nw
       /\ \A i \in 1 .. k : i # k => took'[i] = took[i]
  <2>1. took \in Seq(Nat) /\ Len(took) = k
    BY NoopTypes
  <2>2. k \in 1 .. Len(took) /\ took' = [took EXCEPT ![k] = b + nw]
    BY <1>1, <1>9, <2>1
  <2> HIDE DEF k, b
  <2>3. /\ took' \in Seq(Nat) /\ Len(took') = Len(took)
        /\ \A j \in 1 .. Len(took) : took'[j] = IF j = k THEN b + nw ELSE took[j]
    BY <1>5, <2>1, <2>2, ExceptSeq
  <2> QED
    BY <2>1, <2>2, <2>3
<1>11. FlattenSeq(Taken') = out'
  <2> DEFINE T == Seq(Nat)
             more == [Taken EXCEPT ![k] = Taken[k] \o piece]
  <2>1. /\ Taken \in Seq(T) /\ Len(Taken) = k
        /\ \A i \in 1 .. k : Taken[i] = SubSeq(chunks[i], 1, took[i])
    BY NoopTypes
  <2>2. Taken[k] \o piece = SubSeq(buf, 1, b + nw)
    <3>1. Taken[k] = SubSeq(buf, 1, b)
      <4>1. k \in 1 .. k
        BY <1>9
      <4>2. Taken[k] = SubSeq(chunks[k], 1, took[k])
        BY <2>1, <4>1
      <4> QED
        BY <1>4, <4>2
    <3>2. 1 \in Nat \ {0} /\ 1 <= b + 1 /\ b <= b + nw
      BY <1>5
    <3>3. SubSeq(buf, 1, b) \o SubSeq(buf, b + 1, b + nw) = SubSeq(buf, 1, b + nw)
      BY <1>3, <1>5, <3>2, PartsJoin
    <3> QED
      BY <3>1, <3>3
  <2>3. SubSeq(buf, 1, b + nw) \in T
    <3>1. 1 \in Nat \ {0}
      OBVIOUS
    <3> QED
      BY <1>3, <1>5, <3>1, PartSeq
  <2>4. Taken' = [i \in 1 .. k |-> SubSeq(chunks[i], 1, took'[i])]
    BY <1>2, <1>9 DEF Taken
  <2> HIDE DEF T, piece
  <2> DEFINE y == SubSeq(buf, 1, b + nw)
  <2>5. Taken' = [i \in 1 .. k |-> IF i = k THEN y ELSE Taken[i]]
    <3>1. ASSUME NEW i \in 1 .. k
          PROVE  SubSeq(chunks[i], 1, took'[i]) = IF i = k THEN y ELSE Taken[i]
      BY <1>4, <1>10, <2>1
    <3> QED
      BY <2>4, <3>1
  <2>6. more = [i \in 1 .. k |-> IF i = k THEN y ELSE Taken[i]]
    <3> HIDE DEF k, y
    <3>1. DOMAIN Taken = 1 .. k
      BY <2>1
    <3> QED
      BY <2>2, <3>1 DEF y
  <2>7. FlattenSeq(more) = FlattenSeq(Taken) \o piece
    <3>1. Taken # <<>>
      BY <1>9, <2>1, EmptySeq
    <3>2. [Taken EXCEPT ![Len(Taken)] = Taken[Len(Taken)] \o piece] = more
      BY <2>1
    <3>3. Taken \in Seq(Seq(Nat))
      BY <2>1 DEF T
    <3> QED
      BY <1>6, <3>1, <3>2, <3>3, FlattenLast DEF piece
  <2>8. FlattenSeq(Taken) = out
    BY DEF NoopInv, Printed
  <2> QED
    BY <1>1, <2>5, <2>6, <2>7, <2>8 DEF piece
\* With no failure before, stdout has what was read but for the rest.
<1>12. ~lost => out' = SubSeq(input, 1, total_read - (l - (b + nw)))
  <2> DEFINE o == total_read - l
  <2>1. o \in Nat /\ o + l = total_read /\ total_read <= Len(input)
    BY <1>3, <1>4
  <2>2. buf = SubSeq(input, o + 1, o + l)
    BY <1>4, <2>1
  <2>3. piece = SubSeq(input, o + (b + 1), o + (b + nw))
    <3>1. /\ b + 1 \in 1 .. l + 1 /\ b + 1 <= (b + nw) + 1 /\ o + l <= Len(input)
      BY <1>3, <1>5, <2>1
    <3>2. l \in Nat /\ input \in Seq(Nat)
      BY <1>3
    <3> HIDE DEF o, l, b
    <3>3. \A u \in 1 .. l + 1 : \A v \in 0 .. l :
            u <= v + 1 => SubSeq(SubSeq(input, o + 1, o + l), u, v)
                            = SubSeq(input, o + u, o + v)
      BY <2>1, <3>1, <3>2, PartOfPart
    <3>4. SubSeq(SubSeq(input, o + 1, o + l), b + 1, b + nw)
            = SubSeq(input, o + (b + 1), o + (b + nw))
      BY <1>5, <3>1, <3>3
    <3> QED
      BY <2>2, <3>4
  <2>4. ~lost => out = SubSeq(input, 1, o + b)
    <3>1. total_read - Pending = o + b
      <4>1. total_read \in Nat /\ l \in Nat /\ b \in Nat
        BY <1>3
      <4>2. Pending = l - b
        BY DEF Pending
      <4> QED
        BY <4>1, <4>2
    <3> QED
      BY <1>4, <3>1 DEF NoopInv, Printed
  <2>5. SubSeq(input, 1, o + b) \o SubSeq(input, (o + b) + 1, o + (b + nw))
          = SubSeq(input, 1, o + (b + nw))
    <3>1. /\ 1 \in Nat \ {0} /\ o + b \in Nat /\ 1 <= (o + b) + 1
          /\ o + b <= o + (b + nw) /\ o + (b + nw) \in 0 .. Len(input)
      <4>1. l \in Nat /\ total_read \in Nat /\ Len(input) \in Nat
        BY <1>3
      <4> HIDE DEF o, l, b
      <4> QED
        BY <1>5, <2>1, <4>1
    <3> QED
      BY <1>3, <3>1, PartsJoin
  <2>6. /\ (o + b) + 1 = o + (b + 1)
        /\ total_read - (l - (b + nw)) = o + (b + nw)
    BY <1>3, <1>5, <2>1
  <2> HIDE DEF o
  <2> QED
    BY <1>1, <2>3, <2>4, <2>5, <2>6
\* dup has still to say it on stderr.
<1>13. do_stderr_echo /\ ~lost => err \o SubSeq(buf, 1, b + nw) = out'
  <2> DEFINE x == SubSeq(buf, 1, b)
  <2>1. do_stderr_echo /\ ~lost => err \o x = out
    BY DEF NoopInv, Printed
  <2>2. x \in Seq(Nat)
    <3>1. 1 \in Nat \ {0}
      OBVIOUS
    <3> QED
      BY <1>3, <3>1, PartSeq
  <2>3. x \o piece = SubSeq(buf, 1, b + nw)
    <3>1. 1 \in Nat \ {0} /\ 1 <= b + 1 /\ b <= b + nw
      BY <1>5
    <3> QED
      BY <1>3, <1>5, <3>1, PartsJoin
  <2>4. out' = out \o piece
    BY <1>1
  <2> HIDE DEF x, piece
  <2>5. (err \o x) \o piece = err \o (x \o piece)
    <3>1. err \in Seq(Nat) /\ piece \in Seq(Nat)
      BY <1>6, <1>7
    <3> QED
      BY <2>2, <3>1, BytesMove, Zenon
  <2> QED
    BY <2>1, <2>3, <2>4, <2>5
<1>14. total_wrote + (b + nw) = Len(out')
  <2>1. total_wrote + b = Len(out)
    BY DEF NoopInv, Printed
  <2>2. /\ total_wrote \in Nat /\ Len(out) \in Nat /\ b \in Nat /\ nw \in Nat
        /\ Len(out') = Len(out) + nw
    BY <1>5, <1>7, <1>8
  <2> QED
    BY <2>1, <2>2
<1>15. \A i \in DOMAIN chunks : took'[i] <= Len(chunks[i])
  BY <1>4, <1>5, <1>9, <1>10 DEF NoopInv, Buffered
<1>16. FlattenSeq(chunks') = SubSeq(input', 1, total_read')
  BY <1>2 DEF NoopInv, Printed
<1> HIDE DEF piece
<1>17. CASE b + nw # l
  <2>1. total_bytes' = b + nw /\ at' = "stdout" /\ total_wrote' = total_wrote
    BY <1>1, <1>17
  <2>2. NoopTypeOK'
    <3>1. total_bytes' \in 0 .. Len(buf') /\ total_bytes' < Len(buf')
      BY <1>2, <1>3, <1>5, <1>17, <2>1
    <3> QED
      BY <1>2, <1>7, <1>8, <1>10, <2>1, <3>1 DEF NoopInv, NoopTypeOK
  <2>3. Buffered'
    <3>1. total_bytes' < Len(buf')
      BY <1>2, <1>3, <1>5, <1>17, <2>1
    <3> QED
      BY <1>2, <1>4, <1>10, <1>15, <2>1, <3>1 DEF Buffered, Writing, do_writes
  <2>4. Printed'
    <3>1. Pending' = l - (b + nw)
      BY <1>2, <2>1 DEF Pending
    <3> QED
      BY <1>1, <1>2, <1>11, <1>12, <1>13, <1>14, <1>16, <2>1, <3>1
         DEF Printed, do_stderr_echo
  <2> QED
    BY <2>2, <2>3, <2>4 DEF NoopInv
<1>18. CASE b + nw = l
  <2>1. /\ total_bytes' = 0 /\ total_wrote' = total_wrote + l
        /\ at' = IF do_stderr_echo THEN "stderr" ELSE "read"
    BY <1>1, <1>18 DEF Returned
  <2>2. NoopTypeOK'
    <3>1. total_bytes' \in 0 .. Len(buf') /\ total_bytes' < Len(buf')
      BY <1>2, <1>3, <1>4, <2>1
    <3>2. total_wrote' \in Nat
      BY <1>3, <1>7, <2>1
    <3> QED
      BY <1>2, <1>7, <1>8, <1>10, <2>1, <3>1, <3>2 DEF NoopInv, NoopTypeOK
  <2>3. Buffered'
    <3>1. total_bytes' < Len(buf')
      BY <1>2, <1>3, <1>4, <2>1
    <3> QED
      BY <1>2, <1>4, <1>10, <1>15, <2>1, <3>1
         DEF Buffered, Writing, do_writes, do_stderr_echo
  <2>4. Printed'
    <3>1. Pending' = 0 /\ total_read - (l - (b + nw)) = total_read - 0
      <4>1. total_read \in Nat /\ l \in Nat /\ l - l = 0
        BY <1>3
      <4> QED
        BY <1>18, <2>1, <4>1 DEF Pending
    <3>2. SubSeq(buf, 1, l) = buf /\ SubSeq(buf, 0 + 1, l) = buf
      <4>1. 0 + 1 = 1
        OBVIOUS
      <4> QED
        BY <1>3, <4>1, NothingAdded
    <3>3. total_wrote' + 0 = Len(out')
      <4>1. total_wrote' = total_wrote + (b + nw) /\ total_wrote' = Len(out')
        BY <1>14, <1>18, <2>1, Zenon
      <4>2. total_wrote' \in Nat
        BY <1>5, <1>7, <4>1
      <4> QED
        BY <4>1, <4>2
    <3> QED
      BY <1>1, <1>2, <1>11, <1>12, <1>13, <1>16, <1>18, <2>1, <3>1, <3>2, <3>3
         DEF Printed, do_stderr_echo, do_writes
  <2> QED
    BY <2>2, <2>3, <2>4 DEF NoopInv
<1> QED
  BY <1>17, <1>18

\* A write to stderr, which only dup does.
LEMMA StderrKeeps ==
  ASSUME NoopInv, Write, at = "stderr"
  PROVE  NoopInv'
<1>1. PICK nw \in 1 .. Len(buf) - total_bytes :
        /\ err' = err \o SubSeq(buf, total_bytes + 1, total_bytes + nw)
        /\ IF total_bytes + nw = Len(buf) THEN Returned(Len(buf))
           ELSE /\ total_bytes' = total_bytes + nw
                /\ UNCHANGED <<at, total_wrote>>
  BY DEF Write, FromWritten
<1>2. /\ out' = out /\ took' = took
      /\ UNCHANGED <<name, rc, input, total_read, buf, chunks, lost>>
  BY DEF Write
<1> DEFINE b == total_bytes
           l == Len(buf)
           piece == SubSeq(buf, b + 1, b + nw)
           rest == SubSeq(buf, (b + nw) + 1, l)
<1>3. /\ buf \in Seq(Nat) /\ l \in Nat /\ b \in 0 .. l /\ b < l
      /\ out \in Seq(Nat) /\ err \in Seq(Nat) /\ total_wrote \in Nat
  BY NoopTypes DEF NoopInv, Buffered, Writing
<1>4. nw \in Nat /\ nw >= 1 /\ b + nw \in 0 .. l /\ b + nw \in Nat /\ b \in Nat
  <2>1. l \in Nat /\ b \in 0 .. l
    BY <1>3
  <2> QED
    BY <2>1
<1>5. piece \in Seq(Nat) /\ rest \in Seq(Nat) /\ piece \o rest = SubSeq(buf, b + 1, l)
  <2>1. /\ b + 1 \in Nat \ {0} /\ (b + nw) + 1 \in Nat \ {0} /\ l \in 0 .. Len(buf)
        /\ b + 1 <= (b + nw) + 1 /\ b + nw <= l
    BY <1>3, <1>4
  <2>2. piece \in Seq(Nat) /\ rest \in Seq(Nat)
    BY <1>3, <1>4, <2>1, PartSeq
  <2> QED
    BY <1>3, <1>4, <2>1, <2>2, PartsJoin
<1>6. err' = err \o piece
  BY <1>1
<1>7. ~lost => err' \o rest = out
  <2>1. ~lost => err \o SubSeq(buf, b + 1, l) = out
    BY DEF NoopInv, Printed, Buffered, Writing
  <2> HIDE DEF piece, rest
  <2>2. (err \o piece) \o rest = err \o (piece \o rest)
    <3>1. err \in Seq(Nat) /\ piece \in Seq(Nat) /\ rest \in Seq(Nat)
      BY <1>3, <1>5
    <3> QED
      BY <3>1, BytesMove
  <2> QED
    BY <1>5, <1>6, <2>1, <2>2
<1>8. err' \in Seq(Nat)
  <2> HIDE DEF piece
  <2> QED
    BY <1>3, <1>5, <1>6
<1>9. /\ total_wrote' = total_wrote /\ Taken' = Taken
      /\ \/ at' = "stderr" /\ total_bytes' = b + nw /\ b + nw # l
         \/ at' = "read" /\ total_bytes' = 0 /\ b + nw = l
  BY <1>1, <1>2 DEF Returned, Taken
<1>10. total_bytes' \in 0 .. Len(buf') /\ (at' = "stderr" => total_bytes' < Len(buf'))
  BY <1>2, <1>3, <1>4, <1>9
<1>11. NoopTypeOK'
  BY <1>2, <1>3, <1>8, <1>9, <1>10 DEF NoopInv, NoopTypeOK
<1>12. Buffered'
  BY <1>2, <1>9, <1>10 DEF NoopInv, Buffered, Writing, do_writes, do_stderr_echo
<1>13. Printed'
  <2>1. Pending' = 0 /\ Pending = 0
    BY <1>9 DEF Pending
  <2>2. b + nw = l => rest = <<>>
    BY <1>3
  <2>3. err' \o <<>> = err'
    BY <1>8
  <2> HIDE DEF rest
  <2>4. b + nw = l /\ ~lost => err' = out
    BY <1>7, <2>2, <2>3
  <2>5. total_wrote' + 0 = Len(out')
    BY <1>2, <1>9 DEF NoopInv, Printed
  <2>6. do_stderr_echo' = do_stderr_echo /\ do_writes' = do_writes
    BY <1>2 DEF do_stderr_echo, do_writes
  <2> QED
    BY <1>2, <1>7, <1>9, <2>1, <2>4, <2>5, <2>6 DEF NoopInv, Printed, rest
<1> QED
  BY <1>11, <1>12, <1>13 DEF NoopInv

\* A write that fails ends the call of write_all; a tool that has ended, or
\* was killed, says no more.
LEMMA EndsKeep ==
  ASSUME NoopInv, WriteError \/ ReadEnd \/ ReadError \/ WriteKills
  PROVE  NoopInv'
<1>1. /\ UNCHANGED <<name, input, total_read, buf, out, err, chunks, took>>
      /\ rc' \in {"EX_OK", "EX_IOERR"} /\ Taken' = Taken
  BY DEF WriteError, ReadEnd, ReadError, WriteKills, files, history, NoopInv,
         NoopTypeOK, Taken
<1>2. /\ Len(buf) \in Nat /\ total_bytes \in 0 .. Len(buf) /\ total_wrote \in Nat
      /\ Len(out) \in Nat
  BY NoopTypes
<1>3. CASE WriteError
  <2>1. /\ Writing /\ lost' = TRUE /\ total_bytes' = 0
        /\ at = "stdout" => total_wrote' = total_wrote + total_bytes
        /\ at = "stderr" => total_wrote' = total_wrote
        /\ at' \in {"read", "stderr"}
        /\ at' = "stderr" => at = "stdout" /\ do_stderr_echo
    BY <1>3 DEF WriteError, Returned, Writing
  <2>2. total_bytes < Len(buf)
    BY <2>1 DEF NoopInv, Buffered
  <2>3. total_wrote' \in Nat /\ total_wrote' + 0 = Len(out)
    BY <1>2, <2>1 DEF NoopInv, Printed, Writing
  <2>4. NoopTypeOK'
    <3>1. total_bytes' \in 0 .. Len(buf') /\ total_bytes' < Len(buf')
      BY <1>1, <1>2, <2>1, <2>2
    <3> QED
      BY <1>1, <2>1, <2>3, <3>1 DEF NoopInv, NoopTypeOK
  <2>5. Buffered'
    BY <1>1, <1>2, <2>1, <2>2 DEF NoopInv, Buffered, Writing, do_writes, do_stderr_echo
  <2>6. Printed'
    BY <1>1, <2>1, <2>3 DEF NoopInv, Printed
  <2> QED
    BY <2>4, <2>5, <2>6 DEF NoopInv
<1>4. CASE ReadEnd \/ ReadError \/ WriteKills
  <2>1. /\ at' \in {"exit", "killed"}
        /\ at' = "exit" => at = "read"
        /\ UNCHANGED <<total_bytes, total_wrote, lost>>
    BY <1>4 DEF ReadEnd, ReadError, WriteKills, history
  <2>2. NoopTypeOK'
    BY <1>1, <1>2, <2>1 DEF NoopInv, NoopTypeOK
  <2>3. Buffered'
    BY <1>1, <2>1 DEF NoopInv, Buffered, Writing
  <2>4. Printed'
    <3>1. at' = "exit" => Pending' = Pending
      BY <2>1 DEF Pending
    <3> QED
      BY <1>1, <2>1, <3>1 DEF NoopInv, Printed, do_writes
  <2> QED
    BY <2>2, <2>3, <2>4 DEF NoopInv
<1> QED
  BY <1>3, <1>4

LEMMA NoopKeepsInv == NoopInv /\ [NoopStep]_noopVars => NoopInv'
<1> SUFFICES ASSUME NoopInv, [NoopStep]_noopVars PROVE NoopInv'
  OBVIOUS
<1>1. CASE Write
  <2>1. at = "stdout" \/ at = "stderr"
    BY <1>1 DEF Write
  <2> QED
    BY <1>1, <2>1, StdoutKeeps, StderrKeeps
<1>2. CASE UNCHANGED noopVars
  BY <1>2 DEF noopVars, files, history, NoopInv, NoopTypeOK, Buffered, Writing,
              Printed, Taken, Pending, do_writes, do_stderr_echo
<1> QED
  BY <1>1, <1>2, ReadKeeps, EndsKeep DEF NoopStep

\* noop, null and dup copy byte for byte: for every input, every size of the
\* buffer, every short write and every failure, stdout has a beginning of each
\* buffer that was read, and all of them while no write has failed.
THEOREM CopiesByteForByte == NoopSpec => []CopiesAll
<1>1. NoopInv => CopiesAll
  <2> SUFFICES ASSUME NoopInv PROVE CopiesAll
    OBVIOUS
  <2>1. at = "read" => total_wrote = Len(out)
    <3>1. total_wrote \in Nat /\ (at = "read" => total_wrote + 0 = Len(out))
      BY NoopTypes DEF NoopInv, Printed
    <3> QED
      BY <3>1
  <2> QED
    BY <2>1 DEF NoopInv, Printed, CopiesAll
<1> QED
  BY <1>1, NoopStarts, NoopKeepsInv, PTL DEF NoopSpec

-----------------------------------------------------------------------------
\* A behaviour of the module that is checked runs one of the three, and the
\* others keep still: what is proved of each holds of it.
THEOREM RunsOneOfThem == Spec => StrlcatSpec /\ NoopSpec
<1>1. Init => StrlcatInit /\ NoopInit
  BY DEF Init
<1>2. [Next]_utilVars => [StrlcatStep]_strlcatVars /\ [NoopStep]_noopVars
  BY DEF Next, utilVars, StrlcatStep, NoopStep
<1> QED
  BY <1>1, <1>2, PTL DEF Spec, StrlcatSpec, NoopSpec
=============================================================================
