SPECIFICATION FairSpec
CONSTANTS
  MaxMissed = 3
  MaxPings = 5
  Words = {"valid", "invalid", "quit"}
INVARIANTS TypeOK ThreadIsAccountedFor PromptIsShown MissesAreUnderWay DialogueInv
PROPERTIES OnlyTheSilentAreDropped LostIsNoticed ClientEnds
CHECK_DEADLOCK FALSE
