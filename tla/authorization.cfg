CONSTANTS
  None = None
  Procs = {p1, p2}
  Requests = {r1, r2}
  Users = {u1, u2}
  Clients = {c1, c2}
  FirstParty = {c2}
  Scopes = {a, b}
  ProviderTTL = 2
  MaxAge = 0
  Prompts <- EachPrompt
  MaxNow = 2
SPECIFICATION Spec
SYMMETRY Symmetry
CONSTRAINT Within
CHECK_DEADLOCK FALSE
INVARIANTS TypeOK GrantsAreConsented AnswersHold
PROPERTY ScopesRetire
