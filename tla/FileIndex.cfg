SPECIFICATION FairSpec
CONSTANTS
  Files = {f1}
  a = a
  b = b
  a1 = a1
  a2 = a2
  b1 = b1
  Contents = {a, b}
  Pieces = {a1, a2, b1}
  Cut <- MCCut
  Blank = Blank
  None = None
  Watcher = Watcher
  Ingesters = {cli}
  Embedders = {tool}
  MaxEdits = 2
  MaxJobs = 1
  MaxFaults = 1
INVARIANTS
  VectorsAreTrue
  IndexMirrorsDisk
PROPERTIES
  EverythingIsEmbedded
CHECK_DEADLOCK FALSE
