SPECIFICATION Spec
CONSTANTS
  NR_TASKS = 4
  MAX_PROCESS_PAGES = 10
  PAGING_PAGES = 18
  Addr <- Five
  CodeAddr = "code"
  Path <- MCPath
  Value = {0, 1}
  Program = 1
  TickInAllocator = FALSE
INVARIANTS
  NoFrameTwice
  TablesAgree
  
  
PROPERTY
  ImplementsAddressSpaces
CHECK_DEADLOCK FALSE
