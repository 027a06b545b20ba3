SPECIFICATION FairSpec
CONSTANTS
  x1 = x1
  x2 = x2
  p1 = p1
  p2 = p2
  w1 = w1
  w2 = w2
  Identities <- MCIdentities
  Processes <- MCProcesses
  Workers <- MCWorkers
  Capacity = 1
  Asks <- MCAsks
INVARIANTS TypeOK NoFalseClaim
PROPERTIES AnswersLikeACache StoresEnd
