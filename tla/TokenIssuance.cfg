SPECIFICATION Spec
CONSTANTS
  Codes = {c1, c2}
  Tokens = {t1, t2, t3}
  Requests = {r1, r2, r3, r4}
  RefreshLimit = 1
SYMMETRY Symmetry
CHECK_DEADLOCK FALSE
INVARIANTS
  OneLiveTokenPerFamily
  OneUseMintsOnce
  ReplayRevokes
  LaterUsesFail
  ReasonTellsTheCause
