CONSTANTS
  None = None
  Procs = {p1}
  Grants = {g1}
  Tokens = {t1, t2, t3}
  Sessions = {s1}
  Users = {u1}
  Clients = {c1}
  Lifetime = 1
  PruneBatch = 1
  MaxNow = 0
SPECIFICATION Spec
CHECK_DEADLOCK FALSE
INVARIANT ReplayKillsGrant
