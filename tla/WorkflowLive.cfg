CONSTANTS
  s1 = s1
  s2 = s2
  Node = {"a","b","c","d"}
  Declared = {"a","b","c","d"}
  Entry = "a"
  Edges <- DiamondEdges
  Cond = {}
  Always = "always"
  LoopNodes = {}
  MaxIterations = 1
  Run = {"r1"}
  Cancellable = {}
  Worker = {"w1"}
  Slot = {s1, s2}
  Concurrency = 2
  QId = {1,2,3,4,5,6,7,8}
  FaultPoints <- BeforeFinalize
  MaxFaults = 1
  MaxLate = 0
  RedisMayFail = TRUE
  KeysMayExpire = FALSE
SPECIFICATION FairSpec
INVARIANT SuccessIsComplete
INVARIANT RunsNeverStrand
PROPERTY WorkDrains
CHECK_DEADLOCK FALSE
