SPECIFICATION FairSpec
CONSTANTS
  Writers = {w1, w2}
  Tools = {t1}
  Watcher = Watcher
  Bounds <- MCBounds
INVARIANTS
  NothingSkipped
  ChunksKeepToSegments
  NothingTwice
PROPERTIES
  IngestCatchesUp
CHECK_DEADLOCK FALSE
