SPECIFICATION DisruptorFairSpec
CONSTANTS
  p1 = p1
  p2 = p2
  Producers <- TwoProducers
  Size = 2
  MaxCalls = 4
  BatchSize = 2
  Room = 1
INVARIANTS
  UniqueClaims
  NoNumberLost
  PublishedIsReadable
PROPERTIES
  NextReturnsUnlessLapped
  EventuallyHandled
  StopReturns
CHECK_DEADLOCK FALSE
