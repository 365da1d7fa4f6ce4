SPECIFICATION AccessSpec
CONSTANTS
  ann = ann
  bob = bob
  t1 = t1
  t2 = t2
  g1 = g1
  Accounts = {ann, bob}
  Tenants = {t1, t2}
  Grants = {g1}
  Calls = {r1, r2}
  Roles <- FirstRoles
  Homes <- FirstHomes
  SubjectOf <- Subjects
  TenantOf <- TenantsOf
SYMMETRY Symmetry
CHECK_DEADLOCK FALSE
INVARIANTS
  LatePageIsEmpty
  AnswerIsTrue
PROPERTY
  VisitsLand
