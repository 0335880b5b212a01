CONSTANTS
  sim = sim
  pixie = pixie
  Engine = Engine
  None = None
  Direct <- MCDirect
  Buffered <- MCBuffered
  Endless <- MCDirect
  MaxSpills = 1
  MaxRuns = 2
SPECIFICATION FairSpec
INVARIANTS NoThreadOutlivesCall RawQueueOutlivesThreads ResultComplete
PROPERTY StopEndsAcquisition
CHECK_DEADLOCK FALSE
