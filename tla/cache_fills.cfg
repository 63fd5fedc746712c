SPECIFICATION Spec
CONSTANTS
  FileIndex = {f1, f2}
  Reader = {r1}
  Size = {1, 2}
  countLimit = 1
  memoryLimit = 2
  timeLimit = 1
  diskFails = FALSE
  diskFills = TRUE
  PollTime = 1
  MaxTime = 3
  None = None
SYMMETRY Symmetry
INVARIANT PersistedIsImage
