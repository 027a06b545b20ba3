SPECIFICATION FairSpec
CONSTANTS
  LensNames = {"l1", "l2", "l3"}
  PageSize = 2
  MaxAsks = 2
  MaxFailures = 1
CHECK_DEADLOCK FALSE
INVARIANT ListsInOrder
PROPERTY AllListed
