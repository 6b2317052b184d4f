SPECIFICATION Spec
CONSTANTS
  TopBit = 32
  MaxOnes = 3
  NUL = "0"
  Arrays <- SmallArrays
  Sources <- SmallStrings
  Inputs <- Numbered
  Names = {"noop", "null", "dup"}
  BUFFER_MAX = 3
INVARIANT NearestUpperPower
INVARIANT InBounds
INVARIANT AsDocumented
INVARIANT CopiesAll
CHECK_DEADLOCK FALSE
