CONSTANTS
  Calls = {1, 2, 3, 4}
  NoCall = NoCall
  home = home
  away = away
  alice = alice
  bob = bob
  Origins = {home, away}
  Keys <- MCKeys
  EndOfTime = 4
  Maximum = 1
  MaxOrigins = 1
  TimeToLive = 1
  Window = 2
  MaxPerKey = 1
  MaxPerClient = 2
  MaxGlobal = 2
  MaxTrackedKeys = 2
  MaxLiveKeys = 1
  MaxStarts = 3
  States = {s1}
  s1 = s1
SPECIFICATION Spec
INVARIANTS TypeOK FairSlots SecretsFollowStates
PROPERTIES CacheForgetsOnlyItsOwn LimiterBounds WaitersAreServed
CHECK_DEADLOCK FALSE
