SPECIFICATION BatchSpec
CONSTANTS
  Isolates = {i1}
  Scanners = {w1, w2}
  Paths = {p1, p2}
  NoPath = NoPath
  NoText = NoText
  MaxCalls = 3
  MaxScans = 3
  NumBooks = 3
  Empty <- TheEmpty
SYMMETRY Symmetry
INVARIANTS
  SendNeverBlocks
  NeverStuck
PROPERTIES
  TextAddedIsCurrent
  BatchImplements
CHECK_DEADLOCK FALSE
