SPECIFICATION Spec
CONSTANTS
  Call = {c1}
  Length = 3
  Request <- MCRequest
  Failure = Failure
  PipeSize = 2
  Mode = {FALSE}
  None = None
CHECK_DEADLOCK FALSE
INVARIANT ImageIsComplete
