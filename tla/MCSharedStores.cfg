CONSTANTS
  Callers = {p1, p2}
  NoCaller = NoCaller
  ExpiresAt = 4
  LeaseTime = 2
  MaxRevision = 4
  EndOfTime = 5
  s1 = s1
  s2 = s2
  u1 = u1
  u2 = u2
  p1 = p1
  p2 = p2
  Sessions = {s1, s2}
  Subjects = {u1, u2}
  NoSubject = NoSubject
  Processes = {p1, p2}
  NoProcess = NoProcess
  Expiries = {2, 4}
  Limits <- TwoLimits
  MaxCreations = 2
  Window = 2
  Tolerance = 1
  LastRevision = 1
  CleanupLimit = 1
  MaxLag = 1
  IndexKeys = {1, 2, 3, 4, 5, 6}
  Expirations = {1, 2}
  Users = {p1, p2}
  Never = 99
  StorageExpiries = {2, 99}
  LastUpdate = 2
  LastTick = 3
  TtlTolerance = 0
SPECIFICATION StoresSpec
SYMMETRY StoresSymmetry
INVARIANT TypeOK
INVARIANT IndexesAgree
INVARIANT SessionLimitsHold
PROPERTY OneShotPromise
PROPERTY RecordPromise
CHECK_DEADLOCK FALSE
