SPECIFICATION Spec
CONSTANTS
  Ops = {o1, o2}
  Conns = {c1}
  ChanCap = 1
INVARIANT ResultsOwned
CHECK_DEADLOCK FALSE
