SPECIFICATION FairSpec
CONSTANTS
  Clients = {c1, c2}
  N = 1
  NL = NL
  Nobody = Nobody
  NULL = NULL
  HEAD = HEAD
  MaxMsgs = 1
  Faults = {"thread", "write", "accept"}
  ClientsMayVanish = TRUE
CHECK_DEADLOCK FALSE
INVARIANTS
  NoUseAfterFree
  ListLinked
  ListIsLiveItems
PROPERTIES
  Terminates
