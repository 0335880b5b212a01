CONSTANTS
  MaxBin = 3
  MaxSpills = 2
  MaxHits = 3
SPECIFICATION SinkSpec
INVARIANTS UneditedTotalsAreShown ChoiceIsKept
PROPERTY FileHoldsCounts
CHECK_DEADLOCK FALSE
