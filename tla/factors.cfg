CONSTANTS
  None = None
  Procs = {p1, p2}
  Users = {u1, u2}
  Sessions = {s1, s2}
  Devices = {d1, d2}
  MaxPasskeys = 1
  AttemptLimit = 2
  MaxWrongCodes = 2
  MaxSecrets = 2
  MaxCodes = 2
  MaxChallenges = 2
  MaxStep = 2
  Asked = {"enrolCode", "activate", "verify", "remove", "replace", "reset", "enrolKey", "enrolKeyFinish", "assert", "assertFinish", "removeKey"}
SPECIFICATION Spec
SYMMETRY Symmetry
CONSTRAINT Within
CHECK_DEADLOCK FALSE
INVARIANTS TypeOK OneCodeOneUse OnlyProvedSecrets NoWayAround ChallengeFitsSignIn CapsHold
PROPERTY DeviceKeepsOwner
