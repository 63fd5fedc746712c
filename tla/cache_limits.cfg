SPECIFICATION Spec
CONSTANTS
  FileIndex = {f1, f2, f3}
  Reader = {r1, r2}
  Size = {1, 2}
  countLimit = 2
  memoryLimit = 3
  timeLimit = 1
  diskFails = FALSE
  diskFills = FALSE
  PollTime = 1
  MaxTime = 4
  None = None
SYMMETRY Symmetry
INVARIANTS TypeOK UsesCounted Accounted LimitsKept IdleBounded TranscodedOnce
PROPERTIES LeastRecentFirst ServesAsAgreed
