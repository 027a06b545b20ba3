SPECIFICATION Spec
CONSTANTS
  w1 = w1
  w2 = w2
  Workers <- MCWorkers
  Graphs <- MCGraphs
  MaxIds = 3
INVARIANTS IdentitiesAreRecorded OneIdentityPerKey SuccessIsComplete EdgesJoinNodes
PROPERTIES IdentityIsKept
SYMMETRY Symmetry
