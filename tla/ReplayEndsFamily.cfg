SPECIFICATION Spec
CONSTANTS
  Codes = {c1}
  Tokens = {t1, t2}
  Requests = {r1, r2, r3}
  RefreshLimit = 2
SYMMETRY Symmetry
CHECK_DEADLOCK FALSE
INVARIANTS
  ReplayEndsFamily
