SPECIFICATION FairSpec
CONSTANTS
  x = x
  y = y
  c1 = c1
  c2 = c2
  Ids = {x, y}
  NoId = NoId
  Calls = {c1, c2}
  Flags = {1, 2, 3, 4, 5}
  NoFlag = 0
  REMEMBERED = 1
  Segments <- TwoSegments
  Events = 2
INVARIANTS
  CancelReaches
  NothingLeaks
  OnlyWholePages
  OneEventAfterCancel
PROPERTIES
  CancelledEnds
