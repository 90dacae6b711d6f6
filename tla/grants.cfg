CONSTANTS
  None = None
  Procs = {p1, p2}
  Grants = {g1, g2}
  Tokens = {t1, t2, t3}
  Sessions = {s1, s2}
  Users = {u1}
  Clients = {c1}
  Lifetime = 1
  PruneBatch = 1
  MaxNow = 2
SPECIFICATION Spec
CHECK_DEADLOCK FALSE
SYMMETRY Symmetry
CONSTRAINT Within
INVARIANTS TypeOK ExchangedOnce ReplaysAreToldApart SignOutReachesGrants
PROPERTIES DeadGrantsStayDead RefreshTokensKeepPromise
