SPECIFICATION Spec
CONSTANTS
  Firmware = {0, 2}
  PTRS_PER_TABLE = 32
  DeviceSection = 24
  Sections = 32
  BssWords = 5
INVARIANTS
  LinearMap
  StaysInside
CHECK_DEADLOCK FALSE
