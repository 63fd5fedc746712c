SPECIFICATION Spec
CONSTANTS
  Client = {c1, c2}
  FileIndex = {f1, f2}
  Reader = {r1, r2}
  readAheadLimit = 1
  trueSize = FALSE
  persists = FALSE
  builds = {TRUE}
  NoReader = NoReader
  NoFile = NoFile
  ReleaseThread = ReleaseThread
CHECK_DEADLOCK FALSE
INVARIANT ServesItsPath
