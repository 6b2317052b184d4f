--------------------------- MODULE MCStreamBuffer ---------------------------
(***************************************************************************)
(* Values for StreamBuffer's constants: growth is computed by the model of *)
(* upper_power_of_two.                                                     *)
(***************************************************************************)
EXTENDS StreamBuffer, Util, SequencesExt

CONSTANTS a, b,     \* two bytes
          MaxChunk  \* bound on the length of a chunk

ChunksUpTo == BoundedSeq(Byte, MaxChunk)
Power(n) == FromBits(upper_power_of_two(ToBits(n)))
=============================================================================
