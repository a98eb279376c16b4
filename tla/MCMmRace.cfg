SPECIFICATION Spec
CONSTANTS
  NR_TASKS = 3
  MAX_PROCESS_PAGES = 16
  PAGING_PAGES = 24
  Addr <- Two
  CodeAddr = "code"
  Path <- MCPath
  Value = {0}
  Program = 0
  TickInAllocator = TRUE
INVARIANT
  NoFrameTwice
CHECK_DEADLOCK FALSE
