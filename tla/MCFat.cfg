SPECIFICATION Spec
CONSTANTS
  NULL = NULL
  DevLength = 76
  Entries16 = 6
  Entries32 = 3
  Reserved16 = 1
  Reserved32 = 4
  MaxClusters16 = 10
  MaxClusters32 = 100
  MaxClusters12 = 3
  MinCluster16 = 2
  MinCluster32 = 2
  Leeway = 4
  DirEntries = 1
  Info = 1
  Backup = 2
  BufferSectors = 8
  RootSectors = 2
  RootMin = 1
  StartFs <- Media
  NewGeoms <- Geoms
  Failures = {"none", "data"}
  Kinds <- SmallKinds
  Rotations <- SmallRotations
  SizeChanges <- SmallSizeChanges
  StartMoves <- SmallMoves
INVARIANT FilesSurvive
INVARIANT OriginalIsIntact
INVARIANT NothingIsLeaked
 
CHECK_DEADLOCK FALSE
