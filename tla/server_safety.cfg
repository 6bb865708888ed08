SPECIFICATION Spec
CONSTANTS
  Clients = {c1, c2}
  N = 2
  NL = NL
  Nobody = Nobody
  NULL = NULL
  HEAD = HEAD
  MaxMsgs = 2
  Faults = {"read"}
  ClientsMayVanish = FALSE
CHECK_DEADLOCK FALSE
SYMMETRY Symmetry
INVARIANTS
  TypeOK
  SnapshotReply
  OwnCommandAnswered
  OwnInv
