SPECIFICATION Spec
CONSTANTS
  NR_TASKS = 3
  UserPc = {"u0"}
  Addr = {8, 9}
  Value = {5}
  MaxDepth = 2
INVARIANT
  FaultAddressKept
