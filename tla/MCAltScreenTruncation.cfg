CONSTANTS
  Top = 3
  WheelStep = 2
  Height = 4
  Lines = {4}
  MaxTexts = 0
SPECIFICATION Spec
INVARIANT TruncationIsTold
CHECK_DEADLOCK FALSE
