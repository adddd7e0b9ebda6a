SPECIFICATION FairSpec
CONSTANTS
  Slots = {s1}
  MaxCalls = 1
  MaxQ = 1
  MaxLines = 1
  Shapes <- WordLines
CHECK_DEADLOCK FALSE
PROPERTY CancelledStreamEnds
