CONSTANTS
  s1 = s1
  s2 = s2
  Node = {"a","b"}
  Declared = {"a","b"}
  Entry = "a"
  Edges <- PairEdges
  Cond = {}
  Always = "always"
  LoopNodes = {}
  MaxIterations = 1
  Run = {"r1","r2"}
  Cancellable = {"r1"}
  Worker = {w1, w2}
  w1 = w1
  w2 = w2
  Slot = {s1, s2}
  Concurrency = 1
  QId = {1,2,3,4,5}
  FaultPoints <- BeforeFinalize
  MaxFaults = 1
  MaxLate = 0
  RedisMayFail = FALSE
  KeysMayExpire = TRUE
SPECIFICATION Spec
SYMMETRY WorkerSymmetry
INVARIANT LeaseExclusive
INVARIANT NoDoubleProcessing
INVARIANT AnnouncedIsFinal
INVARIANT FinishedRunKeyRevoked
INVARIANT PlaintextFollowsRun
PROPERTY NeverReopened
CHECK_DEADLOCK FALSE
