SPECIFICATION Spec
CONSTANTS
  Tenants = {t1}
  Resources = {w1}
  Attempts = {a1, a2}
  NoAttempt = NoAttempt
CHECK_DEADLOCK FALSE
INVARIANTS
  DeniedIsUnpaired
