SPECIFICATION Spec
CONSTANTS
  BufSize = 3
  NorSize = 9
  Extra = 2
  Mark = 1
  StartMod = 4
  Requests <- MCOneCell
  Torn = {"node", "sync", "mark"}
  MaxWrites = 2
  MaxCuts = 3
INVARIANT Alive
CHECK_DEADLOCK FALSE
