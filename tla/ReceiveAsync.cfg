SPECIFICATION FairSpec
CONSTANTS
  MaxMsgs = 3
  BufCap = 2
  MaxTokens = 2
  Null = Null
  MaxReceives = 4
INVARIANTS
  NullIsTheEnd
  UnsubscribeIsAsked
PROPERTIES
  ImplementsStream
  CancelEndsReceive
  DeleteUnregisters
CHECK_DEADLOCK FALSE
