SPECIFICATION Spec
CONSTANTS
  Threads = {t1, t2}
  Permits = {p1}
  NoPermit = NoPermit
  Topics = {}
  NoTopic = NoTopic
  DefaultTopic = default
  NoCall = NoCall
  NoMsg = NoMsg
  MaxCalls = 2
INVARIANT TrueMeansEnqueued
CHECK_DEADLOCK FALSE
