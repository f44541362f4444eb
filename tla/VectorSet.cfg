SPECIFICATION Spec
CONSTANTS
  c1 = c1
  c2 = c2
  c3 = c3
  p1 = p1
  p2 = p2
  Calls = {c1, c2, c3}
  Processes = {p1, p2}
  ProcessOf <- TwoAndOne
  NoCall = NoCall
  EXPANSION_LOCK_ATTEMPTS = 2
  MaxGeneration = 3
  MaxCalls = 3
  MaxNames = 3
  MaxCrashes = 1
  MaxStays = 2
SYMMETRY Threads
INVARIANTS
  TypeOK
  ExpansionKept
  NothingLeft
  DebrisCleared
PROPERTIES
  ViewNotBroughtBack
  SessionNeverGoesBack
CHECK_DEADLOCK FALSE
