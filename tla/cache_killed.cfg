SPECIFICATION PurgeSpec
CONSTANTS
  start = start
  far = far
  f1 = f1
  f2 = f2
  link = link
  Root = start
  Dir <- MCDir
  File <- MCFile
  Link <- MCLink
  leads <- MCLeads
  Tree <- MCTree
  Mobile <- MCMobile
  FileIndex <- MCFile
  Reader = {r1}
  Size = {1, 2}
  countLimit = 1
  memoryLimit = 2
  timeLimit = 1
  diskFails = TRUE
  diskFills = FALSE
  PollTime = 1
  MaxTime = 0
  None = None
INVARIANT PersistedHoldsImage
PROPERTIES ReferencedStays UnreferencedPurged WalkEnds
