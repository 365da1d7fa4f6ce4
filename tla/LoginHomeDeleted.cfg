SPECIFICATION FairSpec
CONSTANTS
  Users = {u1}
  Browsers = {b1}
  Sessions = {s1}
  Txs = {t1}
  Requests = {r1, r2}
  Leaving = {u1}
CHECK_DEADLOCK FALSE
PROPERTIES
  EveryRetryGetsIn
