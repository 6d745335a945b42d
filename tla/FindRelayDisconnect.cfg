CONSTANTS
  Slug = {"agent"}
  Token = {1}
  Sock = {k1}
  Call = {c1}
  k1 = k1
  c1 = c1
  MaxRestarts = 0
  TokenReuse = FALSE
  RedisMayFail = FALSE
SPECIFICATION Spec
CHECK_DEADLOCK FALSE
PROPERTY DisconnectIsReported
