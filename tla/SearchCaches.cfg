SPECIFICATION FairSpec
CONSTANTS
  c1 = c1
  c2 = c2
  w1 = w1
  w2 = w2
  Callers = {c1, c2}
  Workers = {w1, w2}
  Requests <- MCOneSpreads
  MaxGeneration = 2
  MaxRequests = 2
  MaxReleases = 1
  MaxFaults = 1
INVARIANTS
  SingleFlight
  KeptIsCurrent
  NothingCutKept
  NeverOlder
PROPERTIES
  RequestsReturn
CHECK_DEADLOCK FALSE
