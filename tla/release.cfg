SPECIFICATION FairSpec
CONSTANTS
  Reader = {r1, r2}
  None = None
CHECK_DEADLOCK FALSE
INVARIANTS TypeOK NoThreadInside
PROPERTIES Destroyed CallsReturn UnmountEnds
