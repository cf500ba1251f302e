SPECIFICATION Spec
CONSTANTS
  MinAccepted = 3
  BurstMax = 24
  SuspectMax = 1
  Counters = 3
  Parts = 2
  Backlog = 1
  Samples <- CleanOrSuspect
INVARIANTS TypeOK FetchedIsWhole LaterBurstsAreNew
PROPERTIES DataFlows
