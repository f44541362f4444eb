SPECIFICATION FairSpec
CONSTANTS
  i1 = i1
  i2 = i2
  s1 = s1
  s2 = s2
  p1 = p1
  p2 = p2
  Isolates = {i1, i2}
  Scanners = {s1, s2}
  Paths = {p1, p2}
  NoPath = NoPath
  NoText = NoText
  MaxCalls = 5
  MaxScans = 2
INVARIANTS
  ReleasedWhileHeld
  TextIsCurrent
PROPERTY SuspendReturns
CHECK_DEADLOCK FALSE
