SPECIFICATION FairSpec
CONSTANTS
  Lessons = {1, 2, 3}
  Firmware = {0, 2}
  FifoDepth = 2
  MsgLen = 3
  Others = {TRUE, FALSE}
  MaxChars = 4
  MaxIrqs = 2
INVARIANTS
  EchoAccounted
  MessagesWhole
  LossPerIrq
  UartReadyFirst
  OnlyServedExceptions
PROPERTIES
  EveryCharEchoed
CHECK_DEADLOCK FALSE
