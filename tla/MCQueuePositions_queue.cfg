SPECIFICATION PositionsSpec
CONSTANTS
  Connections = {c1, c2, c3, c4}
  Nobody = Nobody
  MaxPlayers = 2
  MaxLobbies = 1
  FalseTimeouts = FALSE
  SmallQueue = 2
SYMMETRY Symmetry
CONSTRAINT ThreeFail
INVARIANTS TypeOK SeatsAreOwn SeatCount NobodyIsLost QueueOnlyWhenFull
  PlayersArePresent ReadyIsExact OneTurnAsked EveryoneIsAsked NeverTooGood
