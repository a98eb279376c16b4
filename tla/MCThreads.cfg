SPECIFICATION Spec
CONSTANTS
  Firmware = {0, 2}
  NThreads = 2
  Priority = 2
  FifoDepth = 1
  MaxTicks = 9
  MaxSends = 2
INVARIANTS
  EvenShares
  OutputInOrder
  LossPerSwitch
CHECK_DEADLOCK FALSE
