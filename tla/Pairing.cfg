SPECIFICATION FairSpec
CONSTANTS
  Tenants = {t1, t2}
  Resources = {w1, w2}
  Attempts = {a1, a2}
  NoAttempt = NoAttempt
CHECK_DEADLOCK FALSE
INVARIANTS
  SiteIffActive
  SiteWasProved
PROPERTIES
  SettlesOnce
  ImplementsRegistry
  RequestsEnd
