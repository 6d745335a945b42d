CONSTANTS
  Slug = {"agent"}
  Token = {1,2,3}
  Sock = {k1, k2}
  Call = {c1, c2}
  k1 = k1
  k2 = k2
  c1 = c1
  c2 = c2
  MaxRestarts = 1
  TokenReuse = FALSE
  RedisMayFail = FALSE
SPECIFICATION FairSpec
INVARIANT TypeOK
INVARIANT LatestAgentReachable
INVARIANT TokensAreCurrent
PROPERTY ImplementsRemoteCall
PROPERTY EveryCallEnds
CHECK_DEADLOCK FALSE
