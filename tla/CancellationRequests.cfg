SPECIFICATION Spec
CONSTANTS
  None = None
  Requests = {q1, q2}
  Codes = {k1, k2}
  Api = api
  Servers = {s1, s2}
  MaxAttempts = 2
  MaxVersion = 3
SYMMETRY MCSymmetry
INVARIANTS
  TypeOK
  CodeFollowsRequest
  GuessesLimited
  OpenIsCurrent
PROPERTIES
  UsedOnce
CHECK_DEADLOCK FALSE
