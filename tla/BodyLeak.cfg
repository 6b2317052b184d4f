SPECIFICATION Spec
CONSTANTS
  MaxFd = 7
  MaxOpens = 4
  ForkMayFail = FALSE
  DrainsBeforeClose = FALSE
  Inputs <- ThreeGets
  WholeTexts = TRUE
  MayBreakOff = FALSE
  MayLogAtStart = FALSE
  MayQuit = FALSE
  Matching <- Html
  GROWTH = 2
  IN_CAPACITY = 2
  OUT_CAPACITY = 2
  URL_MAX = 6
  LINE_MAX = 7
  BUFFER_MAX = 20
INVARIANT AssertionsHold
