SPECIFICATION FairSpec
CONSTANTS
  MaxMsgs = 3
  BufCap = 2
  MaxTokens = 1
  Null = Null
  Threads = {t1, t2}
  Capacities = {0, 1}
  MaxNulls = 1
INVARIANTS
  EachTakenOnce
  PumpOutlivesReceivers
PROPERTIES
  ImplementsStream
  LossMeansFull
  BlockedWakes
CHECK_DEADLOCK FALSE
