SPECIFICATION FairSpec
CONSTANTS
  Callers = {c1, c2}
  QueueCap = 1
  Shutdown = Shutdown
  NoJob = NoJob
  MaxTries = 2
INVARIANTS
  TypeOK
  PauseIsQuiescent
  ToldIsTrue
PROPERTIES
  WorkIsFinished
CHECK_DEADLOCK FALSE
