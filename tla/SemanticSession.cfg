SPECIFICATION FairSpec
CONSTANTS
  c1 = c1
  c2 = c2
  Clients = {c1, c2}
  Lines <- NineLines
  NoGroup = 0
  PageSize = 1
  Ranked <- Fused
  Complete <- AllFused
  MAX_SEMANTIC_CANDIDATE_WINDOW = 8
  MaxCalls = 3
  MaxChanges = 1
  MaxFaults = 2
INVARIANTS
  TypeOK
  EachOnce
  ViewContinues
  ServedFresh
PROPERTIES
  NothingLost
  SearchReturns
CHECK_DEADLOCK FALSE
