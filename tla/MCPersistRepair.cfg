SPECIFICATION Spec
CONSTANTS
  BufSize = 3
  NorSize = 9
  Extra = 2
  Mark = 1
  StartMod = 4
  Requests <- MCOneCell
  Torn = {"node"}
  MaxWrites = 2
  MaxCuts = 2
PROPERTY ImplementsStore
CHECK_DEADLOCK FALSE
