------------------------------ MODULE Strlcat -------------------------------
(***************************************************************************)
(* strlcat of util.c, step by step: its two loops over the characters of   *)
(* dst and src.  dst is an array of siz characters that need not hold a    *)
(* terminator, and n is a size_t that wraps when the first loop ends at 0. *)
(***************************************************************************)
EXTENDS Naturals, Sequences, SequencesExt, Util

CONSTANTS
  Arrays,   \* what dst may be: sequences of characters and terminators
  Sources,  \* what src may be, without the terminator
  NUL       \* the terminator

ASSUME StrlcatAssumption ==
  /\ NUL \in STRING
  /\ \A array \in Arrays : array \in Seq(STRING)
  /\ \A string \in Sources :
       string \in Seq(STRING) /\ \A i \in DOMAIN string : string[i] # NUL

VARIABLES
  step,       \* which loop runs
  dst, src,   \* the arrays
  before,     \* history: dst at the call
  d, s,       \* the positions in them
  n,          \* how much of dst is left
  dlen,       \* the length dst had
  result      \* the value returned

strlcatVars == <<step, dst, src, before, d, s, n, dlen, result>>

siz == Len(before)

StrlcatInit ==
  /\ step = "find"
  /\ dst \in Arrays
  /\ before = dst
  /\ src \in Sources
  /\ d = 1 /\ s = 1
  /\ n = siz
  /\ dlen = 0
  /\ result = 0

\* while (n-- != 0 && *d != '\0') d++
FindEnd ==
  /\ step = "find"
  /\ n # 0
  /\ dst[d] # NUL
  /\ n' = n - 1
  /\ d' = d + 1
  /\ UNCHANGED <<step, dst, src, before, s, dlen, result>>

FoundEnd ==
  /\ step = "find"
  /\ IF n = 0 THEN TRUE ELSE dst[d] = NUL
  /\ dlen' = d - 1
  /\ n' = siz - dlen'
  /\ IF n' = 0 THEN step' = "done" /\ result' = dlen' + Len(src)
               ELSE step' = "copy" /\ UNCHANGED result
  /\ UNCHANGED <<dst, src, before, d, s>>

CopyToTheLast ==
  /\ step = "copy"
  /\ s <= Len(src)
  /\ dst' = [dst EXCEPT ![d] = src[s]]
  /\ d' = d + 1
  /\ n' = n - 1
  /\ s' = s + 1
  /\ UNCHANGED <<step, src, before, dlen, result>>

\* while (*s != '\0')
Copy ==
  /\ step = "copy"
  /\ s <= Len(src)
  /\ IF n # 1 THEN dst' = [dst EXCEPT ![d] = src[s]] /\ d' = d + 1 /\ n' = n - 1
              ELSE UNCHANGED <<dst, d, n>>
  /\ s' = s + 1
  /\ UNCHANGED <<step, src, before, dlen, result>>

TerminateBehindCopied ==
  /\ step = "copy"
  /\ s = Len(src) + 1
  /\ dst' = [dst EXCEPT ![dlen + s] = NUL]
  /\ step' = "done"
  /\ result' = dlen + s - 1
  /\ UNCHANGED <<src, before, d, s, n, dlen>>

\* *d = '\0'
Terminate ==
  /\ step = "copy"
  /\ s = Len(src) + 1
  /\ dst' = [dst EXCEPT ![d] = NUL]
  /\ step' = "done"
  /\ result' = dlen + s - 1
  /\ UNCHANGED <<src, before, d, s, n, dlen>>

StrlcatStep == FindEnd \/ FoundEnd \/ Copy \/ Terminate

StrlcatSpec == StrlcatInit /\ [][StrlcatStep]_strlcatVars

-----------------------------------------------------------------------------
StrlcatTypeOK ==
  /\ step \in {"find", "copy", "done"}
  /\ dst \in Seq(STRING) /\ before \in Seq(STRING) /\ src \in Seq(STRING)
  /\ d \in Nat \ {0} /\ s \in 1 .. Len(src) + 1
  /\ n \in 0 .. siz /\ dlen \in 0 .. siz

\* What is looked at, or written to, lies within the siz characters of dst,
\* also if dst has no terminator, and the last one is kept for it.
InBounds ==
  /\ Len(dst) = siz
  /\ step = "find" => d + n = siz + 1
  /\ step = "copy" => d + n = siz + 1 /\ n >= 1

\* What the comment above strlcat promises, and what the other modules use:
\* the result is the length of the string it tried to make, and tells
\* whether dst has all of it or a beginning of siz - 1 characters.
Text(array) ==
  LET ends == {i \in DOMAIN array : array[i] = NUL}
  IN  IF ends = {} THEN array ELSE SubSeq(array, 1, Min(ends) - 1)

AsDocumented ==
  LET old == Text(before)
      new == Text(dst)
  IN  step = "done" =>
        /\ result = Len(src) + Len(old)
        /\ result < siz => new = old \o src
        /\ result >= siz /\ Len(old) < siz =>
             Len(new) = siz - 1 /\ IsPrefix(new, old \o src)
        /\ new = strlcat(old, src, siz)
=============================================================================
