SPECIFICATION FairSpec
CONSTANTS
  Handlers = {h1, h2}
  ThePump = ThePump
  NoTask = NoTask
  Client = Client
  MaxThreads = 3
  Cap = 1
  BufCap = 2
  Budget = 2
INVARIANTS
  StuckMeansBlocked
PROPERTIES
  DestructorReturns
  CancelWhenPaused
CHECK_DEADLOCK FALSE
