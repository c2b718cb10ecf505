CONSTANTS
  Characters <- MCCharacters
  CharBits = 4
  ShortBits = 5
  IntBits = 6
  LongBits = 8
  Strings <- MCStrings
  Calls <- MCCalls
  MessageMax = 12
  BufferSizes <- MCBufferSizes
SPECIFICATION Spec
INVARIANTS
  PrintsAsISO
  StaysInBuffer
CHECK_DEADLOCK FALSE
