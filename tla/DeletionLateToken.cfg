SPECIFICATION Spec
CONSTANTS
  a1 = a1
  a2 = a2
  s1 = s1
  Accounts = {a1, a2}
  Sites = {s1}
  Grants = {2}
  SubjectOf <- MCSubjectOf
  SiteOf <- MCSiteOf
  Initiator <- MCInitiator
  Jobs = {j1}
  AccessLife = 2
  SafeWindow = 2
CHECK_DEADLOCK FALSE
INVARIANTS
  NoTokenOutlivesPurge
