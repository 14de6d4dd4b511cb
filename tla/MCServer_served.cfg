SPECIFICATION FairSpec
CONSTANTS
  Connections = {c1, c2}
  Nobody = Nobody
  MaxPlayers = 2
  MaxLobbies = 1
  FalseTimeouts = FALSE
PROPERTY EveryClientIsServed
