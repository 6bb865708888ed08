SPECIFICATION Spec
CONSTANTS
  Clients = {c1, c2}
  N = 1
  NL = NL
  Nobody = Nobody
  NULL = NULL
  HEAD = HEAD
  MaxMsgs = 1
  Faults = {}
  ClientsMayVanish = FALSE
CHECK_DEADLOCK FALSE
SYMMETRY Symmetry
INVARIANTS
  CleanupSafe
