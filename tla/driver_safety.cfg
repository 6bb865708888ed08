SPECIFICATION Spec
CONSTANTS
  N = 2
  NULL = NULL
  Procs = {p1, p2}
  Addr = {x1, x2, x3, x4, x5}
  FREE = FREE
  Nobody = Nobody
  a = a
  b = b
  NL = NL
  Junk = Junk
  Bytes <- MCBytes
  Payloads <- MCFewPayloads
  Counts = {2}
  KreallocMayFail = FALSE
  MaxPartial = 1
SYMMETRY Symmetry
INVARIANTS
  RingShape
  SizeIsBytesStored
  LogInv
PROPERTIES
  LeaksOnlyOnEviction
  ReadsConcatenation
  ImplementsCommandLog
