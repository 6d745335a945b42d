SPECIFICATION GatewaySpec
CONSTANTS
  \* KeyAuth
  Keys = {k1}
  Calls = {c1, c2}
  RedisTTL = 2
  LocalTTL = 1
  MaxTime = 4
  \* Spending
  Requests = {r1, r2}
  Limits = {1}
  RpmLimit = 1
  Puts = {u1, u2}
  MaxRedeliveries = 1
  \* ChatCompletion
  Chats = {h1, h2}
  Teams = {t1}
  Projects = {p1, p2}
  Rules = {"blockOutput"}
  Editors = {e1}
  FailureLimit = 2
  MaxEdits = 1
  \* SigningKeys
  Pairs = {k1, k2}
  Makers = {m1}
  JwksTTL = 1
  StaleTTL = 1
  CopyTTL = 2
  MaxClock = 3
SYMMETRY Interchangeable
INVARIANTS TypeOK RevocationBound SpendingSound AnswersSound RetiredKeyBound
\* every component may come to its end
CHECK_DEADLOCK FALSE
