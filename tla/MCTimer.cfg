SPECIFICATION TimerSpec
CONSTANTS
  Wrap = 32
  interval = 7
  Latency = 4
INVARIANTS
  CompareIsDue
  NeverMissed
