CONSTANTS
  None = None
  Procs = {p1, p2}
  Sessions = {s1}
  Users = {u1}
  Tokens = {t1, t2, t3}
  MaxWrongCodes = 2
  PartialLifetime = 1
  FullLifetime = 1
  MaxNow = 0
  RedisFails = FALSE
  Opened = {"local"}
  Presented = {"password", "otp", "logout"}
SPECIFICATION Spec
CHECK_DEADLOCK FALSE
PROPERTY DeadTokenStaysDead
