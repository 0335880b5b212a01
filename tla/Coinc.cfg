CONSTANTS
  a = a
  b = b
  c = c
  Channels <- MCThree
  Tick = 2
  Delays <- MCDelays
  coinc_window_ = 2
  pattern_coinc_ <- MCPair
  pattern_anti_ <- MCVeto
  pattern_add_ <- MCAny
  MaxTime = 12
  MaxHits = 4
SPECIFICATION Spec
INVARIANTS HitsAccounted OrderedHitsMeet
PROPERTY EvictedIsComplete
CHECK_DEADLOCK FALSE
