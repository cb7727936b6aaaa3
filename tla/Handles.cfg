SPECIFICATION Spec
CONSTANTS
  Objs = {w, x, y, z}
  Boxes = {b1, b2, b3, b4}
  Null = Null
  Gone = Gone
  Empty = Empty
  NullStr = NullStr
SYMMETRY Symmetry
INVARIANTS
  Ownership
  FaultsKnown
  TextOfItsError
CHECK_DEADLOCK FALSE
