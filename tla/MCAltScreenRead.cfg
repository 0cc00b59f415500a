CONSTANTS
  Top = 2
  WheelStep = 2
  Height = 3
  Lines = {1, 3}
  MaxTexts = 1
SPECIFICATION FairSpec
INVARIANTS
  TypeOK
  ViewportComesBack
  OnlyLatenessHidesTruncation
PROPERTY TraversalEnds
CHECK_DEADLOCK FALSE
