SPECIFICATION FairSpec
CONSTANTS
  MaxFd = 12
  MaxOpens = 4
  ForkMayFail = TRUE
  DrainsBeforeClose = FALSE
  Inputs <- AllInputs
  WholeTexts = TRUE
  MayBreakOff = TRUE
  MayLogAtStart = TRUE
  MayQuit = TRUE
  Matching <- Html
  GROWTH = 2
  IN_CAPACITY = 2
  OUT_CAPACITY = 2
  URL_MAX = 6
  LINE_MAX = 7
  BUFFER_MAX = 20
INVARIANT TypeOK
INVARIANT OutputInOrder
INVARIANT ExitMeansPrinted
INVARIANT LengthIsRight
INVARIANT LeavesNoCommand
PROPERTY UsesPipes
PROPERTY Terminates
