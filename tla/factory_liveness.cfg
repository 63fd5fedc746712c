SPECIFICATION FairSpec
CONSTANTS
  Client = {c1, c2}
  FileIndex = {f1, f2}
  Reader = {r1, r2}
  readAheadLimit = 2
  trueSize = TRUE
  persists = FALSE
  builds = {TRUE}
  NoReader = NoReader
  NoFile = NoFile
  ReleaseThread = ReleaseThread
PROPERTIES
  ReadAheadReleased
  StatReturns
