SPECIFICATION Spec
CONSTANTS
  ULLONG_MAX = 30
  Inputs <- ConnectInputs
  Volumes = {1}
  BUFFER_MAX = 24
  URL_MAX = 4
  STRING_MAX = 7
INVARIANT NeverCorrupts
