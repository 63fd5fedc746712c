SPECIFICATION FairSpec
CONSTANTS
  Call = {c1, c2}
  Length = 3
  Request <- MCRequest
  Failure = Failure
  PipeSize = 2
  Mode = {TRUE, FALSE}
  None = None
CHECK_DEADLOCK FALSE
INVARIANTS
  TypeOK
  ReadAheadIsComplete
  NoOneInside
  NothingLost
PROPERTIES
  KeepsPromise
  CallsAnswered
  DestructorEnds
