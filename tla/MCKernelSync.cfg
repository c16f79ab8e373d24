SPECIFICATION Spec
CONSTANTS
  NULL = NULL
  DevLength = 3
  LabelMax = 3
  PartRange = 3
  HasResize = TRUE
  MaxTries = 2
INVARIANTS
  SilenceMeansAgreement
PROPERTIES
  UnchangedStay
  Returns
CHECK_DEADLOCK FALSE
