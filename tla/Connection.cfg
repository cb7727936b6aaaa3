SPECIFICATION FairSpec
CONSTANTS
  Ops = {o1, o2, o3}
  Conns = {c1, c2}
  ChanCap = 1
INVARIANTS
  PayloadIntact
  BorrowValid
  AwaitedOrder
  SentOnce
  ContextLifetime
PROPERTY OperationCompletes
CHECK_DEADLOCK FALSE
