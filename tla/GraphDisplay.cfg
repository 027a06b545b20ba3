SPECIFICATION FairSpec
CONSTANTS
  Lenses = {"a", "b"}
  NoLens = ""
  Initially <- MCInitially
  Attachable <- MCAttachable
  Connectable <- MCConnectable
  Deployed <- MCDeployed
  MaxInFlight = 2
  MaxChanges = 2
  MaxFailures = 1
CHECK_DEADLOCK FALSE
INVARIANTS GraphOfOneLens LinksJoinNodes
PROPERTY LensIsShown
