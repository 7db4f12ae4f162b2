SPECIFICATION Spec
CONSTANTS
  None = None
  Requests = {k1, k2}
  OAuth = {o1}
  Challenges = {e1}
  Auths = {a1, a2}
  Stateless = TRUE
  LeaseTime = 1
  Lifetimes = {1, 2}
  MaxRevision = 3
  MaxClaims = 3
  MaxLate = 1
  MaxTime = 1
CHECK_DEADLOCK FALSE
INVARIANT SignInSurvivesReplay
