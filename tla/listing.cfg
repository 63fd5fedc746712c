SPECIFICATION Spec
CONSTANTS
  Name <- MCName
  Extension <- MCExtension
  Pipeline <- MCPipeline
  None = None
  Root <- MCRoot
  Subdir <- MCSubdir
  Tree <- MCTree
  Handle = {h1, h2}
  Elsewhere <- MCElsewhere
  NoDir = NoDir
INVARIANTS TypeOK LeadsBack ListsAll ListedIsServed ReadsAheadBelow
