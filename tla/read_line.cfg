SPECIFICATION Spec
CONSTANTS
  n = 3
  NL = NL
  a = a
  MaxLen = 7
  Bytes <- MCBytes
  Streams <- MCStreams
CHECK_DEADLOCK FALSE
INVARIANTS
  BufferBound
  ReturnsLines
