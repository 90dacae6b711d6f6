CONSTANTS
  None = None
  Procs = {p1, p2}
  Sessions = {s1}
  Users = {u1, u2}
  Tokens = {t1, t2, t3, t4}
  MaxWrongCodes = 2
  PartialLifetime = 1
  FullLifetime = 2
  MaxNow = 0
  RedisFails = FALSE
  Opened = {"directory", "qr"}
  Presented = {"password", "otp", "vc", "finalize", "logout"}
SPECIFICATION Spec
SYMMETRY Symmetry
CONSTRAINT Within
CHECK_DEADLOCK FALSE
INVARIANTS FactorsProved FinalizeAnswersTheGate
PROPERTIES TokenSpeaksForOne KeepsPromise
