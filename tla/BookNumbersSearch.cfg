SPECIFICATION Spec
CONSTANTS
  e1 = e1
  e2 = e2
  p1 = p1
  p2 = p2
  Engines = {e1, e2}
  Searching = {e1}
  Maintaining = {}
  Paths = {p1, p2}
  NoEngine = NoEngine
  MaxNumber = 4
  Reservation = 2
  MaxReadFailures = 0
SYMMETRY PathSymmetry
INVARIANTS
  NumberNeverReused
  TablesNameTheBook
CHECK_DEADLOCK FALSE
