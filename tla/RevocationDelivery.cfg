SPECIFICATION FairSpec
CONSTANTS
  LastId = 2
  SiteOf <- MCSiteOf
  Workers = {w1, w2}
  BatchLimit = 2
  MaxAttempts = 3
  InOrder = FALSE
CHECK_DEADLOCK FALSE
INVARIANTS
  DeliveredIsApplied
PROPERTIES
  DeliveredIsFinal
  EverySettles
