SPECIFICATION FairSpec
CONSTANTS
  NR_TASKS = 3
  Priority = 1
  MaxFail = 1
  MaxDepth = 2
  MaxDebt = 1
  Traps = {"ni_sys", "sync_error"}
INVARIANTS
  TypeOK
  PreemptBalance
  SwitchWindowIsSafe
  SuspendedAtSwitch
  IrqMaskDiscipline
  
  AddressSpaceMatches
  CounterBound
PROPERTIES
  ImplementsTaskLife
  
  ZombieLeavesCpu
