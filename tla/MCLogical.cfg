CONSTANTS
  NULL = NULL
  DevLength = 10
  MaxPartStart = 10
  MaxPartLength = 10
  BiosHeads = 2
  BiosSectors = 2
  VistaStart = 3
  MaxTotalPart = 7
  CommitFirst = TRUE
  CylinderModes = {FALSE}
  Answers = {{}}
  MaxParts = 4
  Leftovers <- FewLeftovers
  AddGeoms <- LogicalAdds
  MoveGeoms <- LogicalMoves
SPECIFICATION Spec
VIEW View
INVARIANTS
  NumbersAreDense
  TablesHaveRoom
PROPERTIES
  AssertionsHold
CHECK_DEADLOCK FALSE
