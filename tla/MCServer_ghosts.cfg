SPECIFICATION Spec
CONSTANTS
  Connections = {c1, c2, c3}
  Nobody = Nobody
  MaxPlayers = 2
  MaxLobbies = 1
  FalseTimeouts = TRUE
SYMMETRY Symmetry
INVARIANTS SeatsAreOwn SeatCount QueueOnlyWhenFull IInv
PROPERTY ImplementsMatchmaking
