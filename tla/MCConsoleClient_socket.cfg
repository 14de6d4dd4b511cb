SPECIFICATION Spec
CONSTANTS
  MaxMissed = 3
  MaxPings = 5
  Words = {"valid", "invalid", "quit"}
INVARIANT SocketIsThere
CHECK_DEADLOCK FALSE
