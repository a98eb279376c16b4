SPECIFICATION Spec
CONSTANTS
  NR_TASKS = 3
  UserPc = {"u0", "u1"}
  Addr = {8}
  Value = {5}
  MaxDepth = 2
INVARIANTS
  
  SyscallNumberKept
PROPERTY
  ContextRestored
