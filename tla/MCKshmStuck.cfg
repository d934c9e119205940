SPECIFICATION FairSpec
CONSTANTS
  Size = 5
  Align = 1
  Lens = {3}
  Reserves = {0}
  TimesMod = 8
  MaxReserve = 0
  MaxPackets = 2
  MaxResets = 0
PROPERTY WriterProgress
CHECK_DEADLOCK FALSE
