CONSTANTS
  Conns = {c1, c2}
  Edits = {e1, e2}
  IncomingCap = 1
  MaxHubs = 2
SPECIFICATION Spec
CHECK_DEADLOCK FALSE
SYMMETRY Symmetry
PROPERTY StoredStaysStored
