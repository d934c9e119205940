SPECIFICATION Spec
CONSTANTS
  Words = 7
  Ids = {1, 2, 3}
  Sizes = {0, 3, 8}
  SizeMod = 16
  MaxCalls = 6
INVARIANT ChainEnds
PROPERTY ImplementsMap
CHECK_DEADLOCK FALSE
