SPECIFICATION Spec
CONSTANTS
  Slots = {s1}
  MaxCalls = 2
  MaxQ = 2
  MaxLines = 3
  Shapes <- WordLines
CHECK_DEADLOCK FALSE
INVARIANT RepliesAreTypedLines
PROPERTY ConversationsRefined
