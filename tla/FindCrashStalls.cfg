CONSTANTS
  s1 = s1
  s2 = s2
  Node = {"a","b","c"}
  Declared = {"a","b","c"}
  Entry = "a"
  Edges <- ChainEdges
  Cond = {}
  Always = "always"
  LoopNodes = {}
  MaxIterations = 1
  Run = {"r1"}
  Cancellable = {}
  Worker = {"w1"}
  Slot = {s1, s2}
  Concurrency = 2
  QId = {1,2,3}
  FaultPoints <- PC
  MaxFaults = 1
  MaxLate = 0
  RedisMayFail = FALSE
  KeysMayExpire = FALSE
SPECIFICATION FairSpec
PROPERTY EveryRunEnds
CHECK_DEADLOCK FALSE
