CONSTANTS
  NULL = NULL
  DevLength = 6
  MaxPartStart = 6
  MaxPartLength = 6
  BiosHeads = 2
  BiosSectors = 2
  VistaStart = 3
  MaxTotalPart = 6
  CommitFirst = TRUE
  CylinderModes = {FALSE}
  Answers = {{}}
  MaxParts = 3
  Leftovers <- FewLeftovers
  AddGeoms <- SmallAdds
  MoveGeoms <- SmallMoves
SPECIFICATION Spec
VIEW View
INVARIANTS
  ListsTileTheDisk
PROPERTIES
  FailedCallsKeepPartitions
  GetMaxLeavesNoTrace
CHECK_DEADLOCK FALSE
