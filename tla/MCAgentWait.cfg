CONSTANTS
  RingSize = 2
  Requests <- MCRequests
  Reported = {"Idle", "Working"}
  MaxTurns <- MCMaxTurns
  MaxSilent = 1
SPECIFICATION FairSpec
INVARIANTS
  TypeOK
  AnswersAreTrue
PROPERTIES
  AwaitedIsAnswered
CHECK_DEADLOCK FALSE
