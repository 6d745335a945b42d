CONSTANTS
  s1 = s1
  s2 = s2
  s3 = s3
  Node = {"a","b","c","ghost"}
  Declared = {"a","b","c"}
  Entry = "a"
  Edges <- ShortcutEdges
  Cond = {"x"}
  Always = "always"
  LoopNodes = {"b"}
  MaxIterations = 2
  Run = {"r1"}
  Cancellable = {}
  Worker = {"w1"}
  Slot = {s1, s2, s3}
  Concurrency = 2
  QId = {1,2,3,4,5,6,7,8,9,10,11,12,13}
  FaultPoints <- PC
  MaxFaults = 0
  MaxLate = 1
  RedisMayFail = FALSE
  KeysMayExpire = FALSE
SPECIFICATION Spec
SYMMETRY SlotSymmetry
INVARIANT TypeOK
INVARIANT PredecessorsFirst
PROPERTY ImplementsWorkQueue
CHECK_DEADLOCK FALSE
