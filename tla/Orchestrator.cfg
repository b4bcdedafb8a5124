SPECIFICATION Spec
CONSTANTS
  Callers <- MCCallers
  Symbols = {"AAPL"}
  SymbolOf <- MCSymbolOf
  Threshold = 2
  Duration = 2
  MaxCloses = 1
  MaxFaults = 1
  Batches = {"b1", "b2"}
  BatchOf <- MCBatchOf
  Permits = 1
  Answers = {"ALLOW", "BLOCK", "missing", "unusable"}
  Requests <- MCRequests
INVARIANTS
  CounterExpires
  ResultsMatchEffects
  OpenNeedsTriggers
PROPERTY BatchesReturn
