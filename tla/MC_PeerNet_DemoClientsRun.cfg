SPECIFICATION Spec
CONSTANT Chats = {c1, c2}
PROPERTY DemoClientsRun
CHECK_DEADLOCK FALSE
