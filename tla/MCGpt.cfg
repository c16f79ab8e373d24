SPECIFICATION Spec
CONSTANTS
  NULL = NULL
  Tables = {e, t1}
  Empty = e
  Torn = torn
  Interruptions = {"kill", "power", "error"}
  Grown = TRUE
  MaxInterrupts = 2
  Labels = TRUE
  Answers = {TRUE, FALSE}
INVARIANTS
  CommitIsRecoverable
PROPERTIES
  SyncedIsSound
  CommitIsAtomic
CHECK_DEADLOCK FALSE
