SPECIFICATION FairSpec
CONSTANTS
  BufSize = 3
  NorSize = 7
  Extra = 2
  Mark = 1
  StartMod = 4
  Requests <- MCOneCell
  Torn = {"node", "sync", "mark"}
  MaxWrites = 5
  MaxCuts = 3
INVARIANT NoAssert
PROPERTIES NeverOlder BootEnds WriteEnds
CHECK_DEADLOCK FALSE
