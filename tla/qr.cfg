CONSTANTS
  None = None
  Txns = {t1, t2}
  People = {u1, u2}
  Callbacks = {c1, c2}
  TTL = 2
  Window = 1
  MaxTime = 2
  MaxReads = 1
  MaxFaults = 2
SPECIFICATION Spec
CONSTRAINT OneUsed
CHECK_DEADLOCK FALSE
INVARIANTS TypeOK ScanFitsTransaction
PROPERTIES ResolvesOnce BrowserIsAnswered AcceptedScanSignsIn
