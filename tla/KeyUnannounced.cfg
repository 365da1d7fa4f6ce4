SPECIFICATION KeysSpec
CONSTANTS
  Keys = {k1, k2}
  None = None
  Overlap = 2
  TokenLife = 1
CHECK_DEADLOCK FALSE
INVARIANTS
  PublishedAreServed
