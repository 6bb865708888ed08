SPECIFICATION FairSpec
CONSTANTS
  N = 1
  NULL = NULL
  Procs = {p1, p2}
  Addr = {x1, x2, x3}
  FREE = FREE
  Nobody = Nobody
  a = a
  b = b
  NL = NL
  Junk = Junk
  Bytes <- MCBytes
  Payloads <- MCFewPayloads
  Counts = {2}
  KreallocMayFail = TRUE
  MaxPartial = 1
INVARIANTS
  TypeOK
  MemorySafe
  IInv
PROPERTIES
  CallsReturn
