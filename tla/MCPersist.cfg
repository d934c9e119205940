SPECIFICATION Spec
CONSTANTS
  BufSize = 3
  NorSize = 10
  Extra = 2
  Mark = 1
  StartMod = 4
  Requests <- MCInside
  Torn = {"node", "sync", "mark"}
  MaxWrites = 5
  MaxCuts = 1
INVARIANTS ReadyIsClean LogMatchesArray NodesCover
PROPERTY ImplementsStore
CHECK_DEADLOCK FALSE
