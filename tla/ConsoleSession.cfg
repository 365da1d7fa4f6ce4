SPECIFICATION Spec
CONSTANTS
  Users = {u1}
  Browsers = {b1, b2}
  Sessions = {s1, s2}
  Handoffs = {h1, h2}
  Consoles = {c1, c2}
  Requests = {r1, r2}
SYMMETRY Symmetry
CHECK_DEADLOCK FALSE
INVARIANTS
  SingleUse
  SameBrowser
  SignOutEndsBoth
