CONSTANTS
  t1 = t1
  t2 = t2
  a = a
  b = b
  Terminals <- MCTerminals
  Names <- MCNames
  NoTerminal = none
  Bindings <- MCBindings
  MaxRequests = 4
  MaxRebinds = 0
SPECIFICATION Spec
INVARIANT HandoffBeforeLaterInput
CHECK_DEADLOCK FALSE
