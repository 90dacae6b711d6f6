CONSTANTS
  None = None
  o1 = o1
  b1 = b1
  m0 = m0
  email = email
  id1 = id1
  t1 = t1
  h1 = h1
  h3 = h3
  h4 = h4
  n1 = n1
  r1 = r1
  r2 = r2
  Procs = {p1, p2}
  Orgs = {o1, o2}
  DefaultOrg = o1
  Projects = {j1}
  Apps = {a1, a2}
  Scopes = {b1, s1, s2}
  Names = {email, n1, n2}
  BuiltinName <- EachBuiltin
  Mappers = {m0, m1, m2}
  SeedScope <- EachSeed
  Claims = {verified, c1, c2}
  Protected = {verified}
  SeedClaim = verified
  MaxMappers = 2
  Configs <- EachConfig
  Tenants = {t1, t2}
  Hosts = {h1, h2, h3, h4, h5}
  PrimaryOf <- EachPrimary
  Registrable <- EachRegistrable
SPECIFICATION Spec
SYMMETRY Symmetry
CHECK_DEADLOCK FALSE
INVARIANTS TypeOK LimitsHold
PROPERTIES DeletesHold
CONSTRAINT Within
