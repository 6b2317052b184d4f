SPECIFICATION Spec
CONSTANTS
  MaxFd = 6
  MaxOpens = 4
  ForkMayFail = FALSE
  DrainsBeforeClose = FALSE
  Inputs <- LongUrlInputs
  WholeTexts = TRUE
  MayBreakOff = FALSE
  MayLogAtStart = FALSE
  MayQuit = FALSE
  URL_MAX = 8
  STRING_MAX = 6
INVARIANT WritesToThePipe
