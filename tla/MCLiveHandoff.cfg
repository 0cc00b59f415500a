CONSTANTS
  p1 = p1
  p2 = p2
  p3 = p3
  Panes <- MCPanes
  MaxFds = 2
  MaxHandoffs = 3
  MaxFaults = 2
  SlowActors = TRUE
  OtherServers = TRUE
SPECIFICATION FairSpec
INVARIANTS
  TypeOK
  OneOwner
  SurvivorIsWhole
PROPERTIES
  HandoffSettles
CHECK_DEADLOCK FALSE
