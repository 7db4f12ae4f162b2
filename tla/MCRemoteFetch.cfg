CONSTANTS
  f1 = f1
  f2 = f2
  Fetches = {f1, f2}
  home = home
  away = away
  denied = denied
  Urls = {home, away, denied}
  NoUrl = NoUrl
  Allowed = {home, away}
  LimitChoices <- MCLimits
  NoLimit = NoLimit
  EndOfTime = 2
  MaxRedirects = 1
  MaxBodyReads = 1
  Timeout = 1
SPECIFICATION Spec
INVARIANTS TypeOK ReservationsBalanced
PROPERTIES SendsAreVetted EveryFetchEnds
CHECK_DEADLOCK FALSE
