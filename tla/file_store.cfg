SPECIFICATION FairSpec
CONSTANTS
  Conns = {c1, c2}
  Timer = Timer
  Nobody = Nobody
  MaxMsgs = 1
  MaxTicks = 1
  Faults = {"start", "init", "timer", "setup", "write", "send", "read", "remove"}
CHECK_DEADLOCK FALSE
INVARIANTS
  IInv
  WholeFileSent
PROPERTIES
  FileGrows
  
  LinesAnswered
