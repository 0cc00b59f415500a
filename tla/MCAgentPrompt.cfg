CONSTANTS
  RingSize = 2
  Requests <- MCPrompts
  Reported = {"Idle", "Working"}
  MaxTurns <- MCMaxTurns
  MaxSilent = 0
SPECIFICATION Spec
INVARIANT
  CompletionIsAfterBaseline
CHECK_DEADLOCK FALSE
