SPECIFICATION Spec
CONSTANTS
  c1 = c1
  c2 = c2
  Clients = {c1, c2}
  Lines <- NineLines
  NoGroup = 0
  PageSize = 1
  Ranked <- Fused
  Complete <- AllFused
  MAX_SEMANTIC_CANDIDATE_WINDOW = 8
  MaxCalls = 4
  MaxChanges = 0
  MaxFaults = 2
INVARIANT PagesContinue
CHECK_DEADLOCK FALSE
