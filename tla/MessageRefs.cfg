SPECIFICATION RefsSpec
CONSTANTS
  Threads = {t1, t2, t3}
  MaxHandles = 2
INVARIANTS
  CountExact
  DropOneFenceShort
CHECK_DEADLOCK FALSE
