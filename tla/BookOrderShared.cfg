SPECIFICATION FairSpec
CONSTANTS
  e1 = e1
  e2 = e2
  t1 = t1
  t2 = t2
  t3 = t3
  p1 = p1
  p2 = p2
  Engines = {e1, e2}
  Threads = {t1, t2, t3}
  EngineOf <- TwoAndOne
  SetsOf <- OwnPlaces
  Places = {NoPlaces, p1, p2}
  NoPlaces = NoPlaces
  NoThread = NoThread
  MaxCalls = 3
  MaxUnreadable = 0
  MaxRestarts = 1
INVARIANTS
  RankedByItsEpoch
  RevisionNamesMapping
  SortedByLastMapping
PROPERTIES
  NeverGoesBack
  CallsReturn
CHECK_DEADLOCK FALSE
