CONSTANTS
  t1 = t1
  t2 = t2
  a = a
  b = b
  Terminals <- MCTerminals
  Names <- MCNames
  NoTerminal = none
  Bindings <- MCBindings
  MaxRequests = 4
  MaxRebinds = 1
SPECIFICATION FairSpec
INVARIANTS
  TypeOK
  NoneLost
  
PROPERTIES
  
  AllAnswered
CHECK_DEADLOCK FALSE
