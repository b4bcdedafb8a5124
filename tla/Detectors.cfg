SPECIFICATION Spec
CONSTANTS
  Events <- MCEvents
  Advances = {0, 2}
  MaxEvents = 5
  WindowSize = 2
  MaxRate = 2
  Lookback = 3
  MinHistory = 2
  WashWindow = 3
  MinRoundTrips = 2
INVARIANTS
  FindingsWellFormed
  WindowsHoldHistory
  FindingsAreJustified
