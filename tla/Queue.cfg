CONSTANTS
  p1 = p1
  p2 = p2
  c1 = c1
  c2 = c2
  s1 = s1
  None = None
  Producers <- MCProducers
  Consumers <- MCConsumers
  Stoppers <- MCStoppers
  MaxPerProducer = 2
SPECIFICATION FairSpec
INVARIANTS NoLostWakeup FrontIsDefined
PROPERTIES Delivered ChannelSpec
CHECK_DEADLOCK FALSE
