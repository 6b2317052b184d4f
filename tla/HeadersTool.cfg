SPECIFICATION FairSpec
CONSTANTS
  MaxFd = 6
  MaxOpens = 4
  ForkMayFail = TRUE
  DrainsBeforeClose = FALSE
  Inputs <- AnyUrlInputs
  WholeTexts = TRUE
  MayBreakOff = TRUE
  MayLogAtStart = TRUE
  MayQuit = TRUE
  URL_MAX = 8
  STRING_MAX = 6
INVARIANT TypeOK
INVARIANT OutputInOrder
INVARIANT ExitMeansPrinted
INVARIANT HeadsAreFlushed
INVARIANT LeavesNoCommand
PROPERTY UsesPipes
PROPERTY Terminates
