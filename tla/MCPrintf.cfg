SPECIFICATION Spec
CONSTANTS
  Bits = 6
  Alphabet = {"%", "0", "3", "a", "d", "u", "x", "X", "c", "s"}
  MaxFormat = 4
  Ints <- MCInts
  Strings <- MCStrings
INVARIANTS
  NeverPastEnd
  DigitsExact
  BufferFits
CHECK_DEADLOCK FALSE
