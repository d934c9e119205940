SPECIFICATION Spec
CONSTANTS
  BufSize = 3
  NorSize = 9
  Extra = 2
  Mark = 1
  StartMod = 4
  Requests <- MCPastEnd
  Torn = {}
  MaxWrites = 2
  MaxCuts = 1
PROPERTY ImplementsStore
CHECK_DEADLOCK FALSE
