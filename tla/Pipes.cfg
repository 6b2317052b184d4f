SPECIFICATION FairSpec
CONSTANTS
  MaxFd = 9
  MaxOpens = 3
  ForkMayFail = TRUE
  DrainsBeforeClose = FALSE
INVARIANT IInv
INVARIANT StdioUntouched
INVARIANT HandleOwnsItsEnds
INVARIANT EofReachesChild
INVARIANT EofReachesParent
INVARIANT NoOrphan
INVARIANT LeakOrigin
PROPERTY ClosesOnlyItsOwnEnds
PROPERTY CloseReturns
PROPERTY DrainEnds
