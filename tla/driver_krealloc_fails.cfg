SPECIFICATION Spec
CONSTANTS
  N = 2
  NULL = NULL
  Procs = {p1, p2}
  Addr = {x1, x2, x3, x4, x5}
  FREE = FREE
  Nobody = Nobody
  a = a
  b = b
  NL = NL
  Junk = Junk
  Bytes <- MCBytes
  Payloads <- MCFewPayloads
  Counts = {}
  KreallocMayFail = TRUE
  MaxPartial = 1
SYMMETRY Symmetry
INVARIANTS
  SizeIsBytesStored
