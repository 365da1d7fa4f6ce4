SPECIFICATION FairSpec
CONSTANTS
  Keys = {k1, k2, k3}
  None = None
  Overlap = 3
  TokenLife = 2
CHECK_DEADLOCK FALSE
INVARIANTS
  TokensVerify
  RetiredAreSilent
PROPERTIES
  SigningResumes
