SPECIFICATION Spec
CONSTANTS
  Dimensions <- BoardArgs
  PlayerArgs = {0, 3}
  FirstArgs = {2}
  MaxTurns = 20
CONSTRAINT EveryShortGame
INVARIANTS TypeOK Stacked WinnerHasTheLine FairTurns FullAfterEverySlot
PROPERTY ImplementsTurnGame
