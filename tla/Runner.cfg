CONSTANTS
  Chained = TRUE
  MaxCommands = 2
SPECIFICATION FairSpec
INVARIANTS UnchainedIsKept
PROPERTIES RunIsReported TerminateReturns
CHECK_DEADLOCK FALSE
