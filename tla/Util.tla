-------------------------------- MODULE Util --------------------------------
(***************************************************************************)
(* upper_power_of_two of util.c.  A size_t is the set of the positions of  *)
(* its one bits, 0 to 63, so that the width the code relies on is exact.   *)
(***************************************************************************)
EXTENDS Naturals, Sequences, FiniteSets, FiniteSetsExt

Width == 64
Bit == 0 .. Width - 1

SIZE_MAX == Bit

\* v - 1 for a v other than 0, v + 1 (0 for SIZE_MAX), and v >> k.
Decrement(v) == (v \ {Min(v)}) \union 0 .. Min(v) - 1
Increment(v) == IF v = SIZE_MAX THEN {}
                ELSE LET carry == Min(Bit \ v)
                     IN  (v \ 0 .. carry) \union {carry}
ShiftRight(v, k) == {b - k : b \in {c \in v : c >= k}}

\* v |= v >> k
Or(v, k) == v \union ShiftRight(v, k)

SmearSkipsEight(v) == Or(Or(Or(Or(v, 1), 2), 4), 16)
Smear(v) == Or(Or(Or(Or(Or(v, 1), 2), 4), 8), 16)

upper_power_of_two(n) ==
  IF n \subseteq {0} THEN {1}
  ELSE IF n = SIZE_MAX THEN SIZE_MAX
  ELSE Increment(Smear(Decrement(n)))

-----------------------------------------------------------------------------
StrlcatOneMore(dst, src, siz) ==
  IF Len(dst) >= siz THEN dst
  ELSE dst \o SubSeq(src, 1, Min({Len(src), siz - Len(dst)}))
\* What strlcat leaves in dst, of siz characters with the one that ends it.
strlcat(dst, src, siz) ==
  IF Len(dst) >= siz THEN dst
  ELSE dst \o SubSeq(src, 1, Min({Len(src), siz - Len(dst) - 1}))

-----------------------------------------------------------------------------
\* The least power of two that is not below n: the reference.
LeastPowerOfTwo(n) == IF Cardinality(n) <= 1 THEN n ELSE {Max(n) + 1}

\* Numbers as sets of bits and back, for sizes TLC can count to.
ToBits(n) == {b \in 0 .. 29 : (n \div 2 ^ b) % 2 = 1}
FromBits(v) == MapThenSumSet(LAMBDA b : 2 ^ b, v)
=============================================================================
