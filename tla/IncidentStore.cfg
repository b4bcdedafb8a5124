SPECIFICATION StoreSpec
CONSTANTS
  t1 = t1
  t2 = t2
  t3 = t3
  Threads <- MCThreads
  Incidents = {"incident"}
  Logs = {"log"}
  MaxFaults = 2
  MaxLosses = 1
SYMMETRY MCSymmetry
INVARIANTS
  AcknowledgedIsStored
PROPERTIES
  HistoryIsKept
  PoisonLasts
