SPECIFICATION FairSpec
CONSTANTS
  Source <- MCSource
  Analyzers = {"a"}
  NoAnalyzer = "none"
  maxReceiveCount = 2
  MaxFaults = 1
  MaxPoison = 1
  MaxRedrives = 1
CHECK_DEADLOCK FALSE
INVARIANTS NothingLost NoFreeRetry
PROPERTIES OnlyForwards DeliversJudgements EveryLogSettles
