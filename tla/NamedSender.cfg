SPECIFICATION FairSpec
CONSTANTS
  Threads = {t1, t2}
  Permits = {p1, p2}
  NoPermit = NoPermit
  Topics = {}
  NoTopic = NoTopic
  DefaultTopic = default
  NoCall = NoCall
  NoMsg = NoMsg
  MaxCalls = 2
INVARIANTS
  TypeOK
  PermitLedger
  CapacityRespected
  FifoIntegrity
  PerThreadOrder
  PumpNeverEnds
PROPERTIES
  RefusalMeansFull
  ImplementsSendQueue
  PermitsReturn
  QueuedIsPublished
CHECK_DEADLOCK FALSE
