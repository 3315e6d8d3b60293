SPECIFICATION WalkSpec
CONSTANTS
  Setups <- mcSetups
  Boards <- mcBoards
  Echoes <- mcEchoes
INVARIANT BusPinsLeftOut
