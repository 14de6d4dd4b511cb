SPECIFICATION Spec
CONSTANTS
  Connections = {c1, c2, c3, c4}
  Nobody = Nobody
  MaxPlayers = 2
  MaxLobbies = 2
  FalseTimeouts = FALSE
SYMMETRY Symmetry
CONSTRAINT TwoFail
INVARIANTS NobodyIsLost PlayInv
PROPERTY ImplementsMatchmaking
