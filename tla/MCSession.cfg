SPECIFICATION Spec
CONSTANTS
  NULL = NULL
  Devices = {d1, d2}
  Nums = {1}
  MaxSize = 2
  ReopenFails = FALSE
INVARIANTS
  MemoryIsDevice
  OneDeviceIsHeld
CHECK_DEADLOCK FALSE
