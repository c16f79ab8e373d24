SPECIFICATION CallsSpec
CONSTANTS
  NULL = NULL
  Length = 9
  offset = 1
  count = 7
  buffer_size = 4
  granularity = 2
  MaxGlitches = 2
  LabelTypes = 2
  FsTypes = 3
  Errors = {0, 1, 2, 5}
  MinError = 2
  IntRange = 16
  Parts = 1
  Starts = 2
INVARIANTS
  CallsAreBalanced
  
PROPERTY
  CallsEnd
CHECK_DEADLOCK FALSE
