CONSTANTS
  None = None
  Procs = {p1}
  Sessions = {s1, s2}
  Users = {u1}
  Tokens = {t1, t2, t3}
  MaxWrongCodes = 2
  PartialLifetime = 1
  FullLifetime = 2
  MaxNow = 1
  RedisFails = TRUE
  Opened = {"local", "qr"}
  Presented = {"password", "otp", "vc", "logout"}
SPECIFICATION Spec
SYMMETRY Symmetry
CHECK_DEADLOCK FALSE
INVARIANTS TypeOK TokenNamesItsSession CacheAgreesWithRow
