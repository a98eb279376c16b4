SPECIFICATION Spec
CONSTANTS
  Firmware = {0, 2}
  MaxPages = 7
INVARIANTS
  MallocFailureStops
CHECK_DEADLOCK FALSE
