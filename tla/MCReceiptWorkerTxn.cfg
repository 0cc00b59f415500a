SPECIFICATION Spec
CONSTANTS
  Callers = {c1, c2}
  QueueCap = 1
  Shutdown = Shutdown
  NoJob = NoJob
  MaxTries = 2
INVARIANT
  NoTransactionLeftOpen
