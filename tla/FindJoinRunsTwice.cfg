CONSTANTS
  s1 = s1
  s2 = s2
  Node = {"a","b","c","d"}
  Declared = {"a","b","c","d"}
  Entry = "a"
  Edges <- DiamondEdges
  Cond = {}
  Always = "always"
  LoopNodes = {}
  MaxIterations = 1
  Run = {"r1"}
  Cancellable = {}
  Worker = {"w1"}
  Slot = {s1, s2}
  Concurrency = 2
  QId = {1,2,3,4,5,6,7,8}
  FaultPoints <- PC
  MaxFaults = 0
  MaxLate = 0
  RedisMayFail = FALSE
  KeysMayExpire = FALSE
SPECIFICATION Spec
SYMMETRY SlotSymmetry
INVARIANT NoDoubleProcessing
CHECK_DEADLOCK FALSE
