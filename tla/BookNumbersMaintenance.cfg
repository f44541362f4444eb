SPECIFICATION Spec
CONSTANTS
  e1 = e1
  e2 = e2
  p1 = p1
  p2 = p2
  Engines = {e1, e2}
  Searching = {}
  Maintaining = {e1, e2}
  Paths = {p1, p2}
  NoEngine = NoEngine
  MaxNumber = 4
  Reservation = 2
  MaxReadFailures = 1
SYMMETRY Symmetry
INVARIANTS
  OneNumberPerBook
  NumbersReadable
PROPERTIES
  LiveBookKeepsNumber
  ImplementsRegistry
CHECK_DEADLOCK FALSE
