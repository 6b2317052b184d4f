SPECIFICATION FairSpec
CONSTANTS
  ULLONG_MAX = 30
  Inputs <- AllInputs
  Volumes = {0, 1, 2}
  BUFFER_MAX = 24
  URL_MAX = 4
  STRING_MAX = 7
INVARIANT TypeOK
INVARIANT ParserAssertions
INVARIANT Verdict
INVARIANT CopiesInput
INVARIANT LogsEachMessage
INVARIANT LogsOwnFields
PROPERTY DeliversInOrder
PROPERTY Terminates
