SPECIFICATION Spec
CONSTANTS
  NULL = NULL
  DevLength = 18
  MaxPartStart = 100
  MaxPartLength = 100
  Heads = 2
  SecsPerTrack = 2
  TableSlots = 5
  MaxRdbBlock = 7
  MapSize = 8
  VolHdrSize = 3
  VolHdrNum = 4
  VolumeNum = 5
  NVDir = 2
  BigFat16 = 6
  NAhdi = 2
  NIcd = 2
  MaximumParts = 6
  GemMax = 6
  FmtSlots = 4
  UsablePartitions = 3
  BigVolume = FALSE
  LabelNames = {"sun", "bsd", "pc98", "dvh", "amiga", "mac", "atari", "dasd", "loop"}
  Foreign <- MCForeign
  MaxEdits = 1
  Calls <- MCCalls
INVARIANTS
  CommitReadsBack
  TableIsConsistent
  SpaceIsAccounted
  DuplicatesAreDeep
PROPERTIES
  RefusedCallsUndo
  NewPartitionsAreUnmarked
CHECK_DEADLOCK FALSE
