SPECIFICATION FairSpec
CONSTANTS
  MaxMsgs = 1
  BufCap = 1
  MaxTokens = 1
  Null = Null
  MaxReceives = 1
PROPERTY CancelCloses
CHECK_DEADLOCK FALSE
