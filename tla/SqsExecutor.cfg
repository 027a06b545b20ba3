SPECIFICATION FairSpec
CONSTANTS
  m1 = m1
  m2 = m2
  e1 = e1
  p1 = p1
  p2 = p2
  Messages <- MCMessages
  Events <- MCOneEvent
  TestEvents <- MCTestEvents
  Procs <- MCOneProc
  BatchSize = 2
  MaxReceives = 2
  Hash <- ContentHash
INVARIANTS TypeOK NoLoss DeleteTasksAreSafe CacheIsTruthful WaitsForItsTask
PROPERTIES DeliversAtLeastOnce EventuallyLeaves
