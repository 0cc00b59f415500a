CONSTANTS
  w1 = w1
  Writers = {w1}
  Buffer = 2
  MaxInputs = 2
  MaxHandoffs = 2
  MaxReads = 1
  MaxSchemes = 1
  MaxResizes = 1
  MaxFaults = 1
  SlowActor = TRUE
  MaxEvents = 3
SPECIFICATION FairSpec
INVARIANTS
  TypeOK
  OrderIsKept
  HandoffIsClean
PROPERTIES
  InputFlows
CHECK_DEADLOCK FALSE
