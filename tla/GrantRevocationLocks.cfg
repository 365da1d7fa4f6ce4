SPECIFICATION FairSpec
CONSTANTS
  s1 = s1
  g3 = g3
  p1 = p1
  p2 = p2
  Sites = {s1, s2}
  Grants = {g1}
  Parties = {p1, p2}
  Keys = {k1, k2}
  Sessions = {a, b}
  SiteOf <- MCSiteOf
  PartyOf <- MCPartyOf
CHECK_DEADLOCK FALSE
INVARIANTS
  SequencesGapless
PROPERTIES
  RevocationEnds
