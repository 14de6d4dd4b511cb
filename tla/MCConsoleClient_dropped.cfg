SPECIFICATION UnhurriedSpec
CONSTANTS
  MaxMissed = 3
  MaxPings = 5
  Words = {"valid", "invalid", "quit"}
INVARIANT DroppedMeansLost
CHECK_DEADLOCK FALSE
