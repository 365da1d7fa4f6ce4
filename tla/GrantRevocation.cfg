SPECIFICATION Spec
CONSTANTS
  s1 = s1
  g3 = g3
  p1 = p1
  p2 = p2
  Sites = {s1}
  Grants = {g1, g2, g3}
  Parties = {p1, p2}
  Keys = {k1}
  Sessions = {a, b, c}
  SiteOf <- MCSiteOf
  PartyOf <- MCPartyOf
CHECK_DEADLOCK FALSE
SYMMETRY Symmetry
INVARIANTS
  RevocationIsAnnounced
  EventsTellTheTruth
  OneLiveGrantPerTuple
PROPERTIES
  RevokedIsFinal
  ImplementsLedger
