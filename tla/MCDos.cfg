CONSTANTS
  NULL = NULL
  DevLength = 10
  MaxPartStart = 10
  MaxPartLength = 10
  BiosHeads = 2
  BiosSectors = 2
  VistaStart = 3
  MaxTotalPart = 7
  CommitFirst = TRUE
  CylinderModes = {FALSE}
  Answers = {{}}
  MaxParts = 5
  Leftovers <- NoLeftovers
  AddGeoms <- ChainAdds
  MoveGeoms <- ChainMoves
  Flags = {"boot", "hidden"}
  FsTypes = {NULL, "fat16"}
  TypeIds = {254}
  ClobberSectors = 3
  Histories <- ChainHistories
  DropsFailed = TRUE
  MaxEdits = 1
  MaxCommits = 2
SPECIFICATION DosSpec
VIEW DosView
INVARIANTS
  CommitReadsBack
  InterruptionsKeep
  TablesStayOutsideData
CHECK_DEADLOCK FALSE
