SPECIFICATION Spec
CONSTANTS
  LastId = 2
  SiteOf <- MCSiteOf
  Workers = {w1}
  BatchLimit = 2
  MaxAttempts = 2
  InOrder = TRUE
CHECK_DEADLOCK FALSE
INVARIANTS
  NoEventOvertaken
