SPECIFICATION FairSpec
CONSTANTS
  Grants = {g1, g2}
  Interactions = {i1}
  Scopes = {read, write}
  None = None
CHECK_DEADLOCK FALSE
INVARIANTS
  BothConsented
  DecidedOnce
PROPERTIES
  RetryConsents
