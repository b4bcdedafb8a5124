SPECIFICATION Spec
CONSTANTS
  Consumers = {c1, c2}
  None = None
  MaxEvents = 2
  MaxStarts = 2
  MaxRebalances = 2
  BatchSize = 2
INVARIANTS
  LossesAreAccounted
  RedeliveredForCause
PROPERTY LoopGoesOnOrEnds
