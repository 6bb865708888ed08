SPECIFICATION Spec
CONSTANTS
  MaxPrints = 2
  MaxCalls = 3
CHECK_DEADLOCK FALSE
INVARIANTS
  PrintsOnce
  FalseOnFailure
  ChildReaped
  FileClosed
PROPERTIES
  OutputWhereAsked
