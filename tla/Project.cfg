CONSTANTS
  MaxSinks = 2
  MaxSpills = 1
SPECIFICATION FairSpec
INVARIANTS ChangesAreKnown NewDataIsTold FitsAreOfTheirSinks
PROPERTIES DataArePlotted TerminateReturns
CHECK_DEADLOCK FALSE
