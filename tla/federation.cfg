CONSTANTS
  None = None
  a = a
  b = b
  m = m
  d = d
  Procs = {p1, p2}
  Feds = {f1, f2}
  Placing = {f1}
  Peopled = {f1}
  Entries = {e1, e2}
  Forms = {a, b, m}
  Domains = {d}
  DomainOf <- Domain
  Shapes <- EachShape
  Bodies <- EachBody
  MaxUsers = 2
SPECIFICATION Spec
SYMMETRY Symmetry
CHECK_DEADLOCK FALSE
INVARIANTS TypeOK OffboardedStaysOut
PROPERTIES ProofNamesPerson ACredentialStays
CONSTRAINT Within
