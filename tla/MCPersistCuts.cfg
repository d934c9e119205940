SPECIFICATION Spec
CONSTANTS
  BufSize = 3
  NorSize = 7
  Extra = 2
  Mark = 1
  StartMod = 4
  Requests <- MCOneCell
  Torn = {"sync"}
  MaxWrites = 6
  MaxCuts = 3
PROPERTY ImplementsStore
CHECK_DEADLOCK FALSE
