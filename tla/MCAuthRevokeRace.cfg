SPECIFICATION Spec
CONSTANTS
  NoSession = NoSession
  Callers = {c1, c2}
  Sessions = {s1}
  MaxRevision = 3
  TokenLife = 1
  LeaseLife = 5
  Never = 9
  MaxTime = 1
  MaxTokens = 1
SYMMETRY CallerSymmetry
CHECK_DEADLOCK FALSE
INVARIANT RevokeRemovesSession
