CONSTANTS
  None = None
  MaxConns = 2
  MaxInject = 2
  MaxStats = 2
SPECIFICATION FairSpec
INVARIANTS
  ReplayInv
PROPERTIES
  SeversItsOwn
  ReplaySettles
