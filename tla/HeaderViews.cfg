SPECIFICATION ViewsSpec
CONSTANTS
  MaxHeaders = 2
  MaxValues = 3
  Word = 8
INVARIANTS
  RustNeverPanics
  LoopSeesAll
  PositionInRange
CHECK_DEADLOCK FALSE
