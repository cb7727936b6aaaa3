SPECIFICATION FairSpec
CONSTANTS
  Reqs = {r1, r2}
  Names = {n1}
  MaxDur = 4
  PerMs = 2
  Word = 8
  Default = 3
INVARIANTS
  OwnAnswer
  TimeoutFaithful
PROPERTY
  RequestEnds
CHECK_DEADLOCK FALSE
