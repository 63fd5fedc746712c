SPECIFICATION Spec
CONSTANTS
  Client = {c1, c2, c3}
  FileIndex = {f1, f2}
  Reader = {r1, r2, r3}
  readAheadLimit = 1
  trueSize = FALSE
  persists = TRUE
  builds = {TRUE, FALSE}
  NoReader = NoReader
  NoFile = NoFile
  ReleaseThread = ReleaseThread
SYMMETRY Symmetry
CHECK_DEADLOCK FALSE
INVARIANTS
  TypeOK
  OneReaderPerFile
  CountIsUsers
  HandedOverOnce
  SlotsAccounted
  LimitKept
  TranscodingNotCached
PROPERTIES ReadAheadRunsToEnd UsesCacheAsAgreed
