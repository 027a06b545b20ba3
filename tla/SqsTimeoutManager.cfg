SPECIFICATION Spec
CONSTANTS
  VisibilityTimeout = 30
  MaxIter = 10
  BatchTimeout = 450
  Latency = 2
INVARIANTS ExtendedInTime KeptAlive RetriedSoon StopsInTime
CHECK_DEADLOCK FALSE
