SPECIFICATION FairSpec
CONSTANTS
  c1 = c1
  c2 = c2
  w1 = w1
  w2 = w2
  Callers = {c1, c2}
  Workers = {w1, w2}
  Requests <- MCBothSpread
  MaxGeneration = 1
  MaxRequests = 2
  MaxReleases = 0
  MaxFaults = 1
PROPERTIES
  CancelledStops
CHECK_DEADLOCK FALSE
