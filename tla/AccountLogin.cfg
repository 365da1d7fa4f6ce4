SPECIFICATION FairSpec
CONSTANTS
  Users = {u1, u2}
  Browsers = {b1, b2}
  Sessions = {s1}
  Txs = {t1}
  Requests = {r1, r2}
  Leaving = {u2}
CHECK_DEADLOCK FALSE
INVARIANTS
  CompletedOnce
  CompletedByItsOwner
  OneAccountPerUser
PROPERTIES
  RetryGetsIn
