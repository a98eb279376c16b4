SPECIFICATION Spec
CONSTANTS
  Firmware = {0, 2}
  MaxPages = 7
INVARIANTS
  StacksPrivate
  PagesAccounted
  CloneForksOnce
  ThreadsHaveStacks
  WritesIntact
CHECK_DEADLOCK FALSE
