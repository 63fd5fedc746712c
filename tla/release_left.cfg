SPECIFICATION Spec
CONSTANTS
  Reader = {r1, r2}
  None = None
CHECK_DEADLOCK FALSE
INVARIANT ReleasedImplicitly
