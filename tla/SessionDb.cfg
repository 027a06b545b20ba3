SPECIFICATION Spec
CONSTANTS
  k1 = k1
  k2 = k2
  w1 = w1
  w2 = w2
  Workers <- MCWorkers
  Unids <- MCUnids
  MaxIds = 3
  MaxSent = 1
INVARIANTS OneRowPerSession CreationIsRecorded CanonicalIsCreation
PROPERTIES RedeliveryFindsSame SessionsExtendBackwards
SYMMETRY Symmetry
