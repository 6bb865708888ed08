SPECIFICATION FairSpec
CONSTANTS
  Clients = {c1, c2}
  N = 1
  NL = NL
  Nobody = Nobody
  NULL = NULL
  HEAD = HEAD
  MaxMsgs = 1
  Faults = {"write"}
  ClientsMayVanish = FALSE
CHECK_DEADLOCK FALSE
PROPERTIES
  ConnectionsClose
