SPECIFICATION FairSpec
CONSTANTS
  Connections = {c1, c2, c3}
  Nobody = Nobody
  MaxPlayers = 2
  MaxGames = 2
  MaxTurns = 3
INVARIANTS TypeOK MessagesFit CopyIsExact TurnsAreCurrent SessionInv
PROPERTY FullLobbyPlays
CHECK_DEADLOCK FALSE
