SPECIFICATION Spec
CONSTANTS
  BufSize = 3
  NorSize = 10
  Extra = 2
  Mark = 1
  StartMod = 4
  Requests <- MCInside
  Torn = {}
  MaxWrites = 5
  MaxCuts = 2
PROPERTY ImplementsStore
CHECK_DEADLOCK FALSE
