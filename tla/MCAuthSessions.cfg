SPECIFICATION Spec
CONSTANTS
  NoSession = NoSession
  Callers = {c1, c2, c3}
  Sessions = {s1}
  MaxRevision = 3
  TokenLife = 1
  LeaseLife = 5
  Never = 9
  MaxTime = 1
  MaxTokens = 2
SYMMETRY CallerSymmetry
CHECK_DEADLOCK FALSE
INVARIANTS
  TypeOK
  RevisionIdentifies
  CurrentCredentials
  RevokedOnce
  RevokeIsFinal
  LeaseKept
PROPERTY SteadyRecords
