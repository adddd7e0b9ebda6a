SPECIFICATION Spec
CONSTANTS
  Slots = {s1, s2}
  MaxCalls = 2
  MaxQ = 2
  MaxLines = 3
  Shapes <- AnyLines
CHECK_DEADLOCK FALSE
INVARIANT RepliesAreTypedLines
