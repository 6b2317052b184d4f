SPECIFICATION Spec
CONSTANTS
  a = a
  b = b
  Byte = {a, b}
  Junk = Junk
  BUFFER_MAX = 1
  MaxMemory = 4
  MaxSent = 4
  MaxChunk = 2
  Chunks <- ChunksUpTo
  UpperPowerOfTwo <- Power
INVARIANT TypeOK
INVARIANT SizesAgree
INVARIANT HoldsOnlyAdded
PROPERTY IsQueue
