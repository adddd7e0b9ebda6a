SPECIFICATION Spec
CONSTANT Chats = {c1, c2}
INVARIANT ExitZeroMeansSuccess
CHECK_DEADLOCK FALSE
