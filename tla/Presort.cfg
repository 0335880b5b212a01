CONSTANTS
  a = a
  b = b
  Engine = Engine
  Sources <- TwoSources
  MaxSpills = 5
  MaxHits = 2
  MaxTime = 2
SPECIFICATION FairSpec
INVARIANTS HitsConserved TimeSorted NothingLeftBehind
PROPERTY BuilderExits
CHECK_DEADLOCK FALSE
