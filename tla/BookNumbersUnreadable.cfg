SPECIFICATION Spec
CONSTANTS
  e1 = e1
  e2 = e2
  p1 = p1
  p2 = p2
  Engines = {e1, e2}
  Searching = {}
  Maintaining = {}
  Paths = {p1, p2}
  NoEngine = NoEngine
  MaxNumber = 5
  Reservation = 2
  MaxReadFailures = 3
SYMMETRY Symmetry
INVARIANTS
  NumberNeverReused
CHECK_DEADLOCK FALSE
