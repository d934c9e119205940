SPECIFICATION Spec
CONSTANTS
  Size = 5
  Align = 1
  Lens = {1, 2}
  Reserves = {0, 2}
  TimesMod = 8
  MaxReserve = 2
  MaxPackets = 4
  MaxResets = 0
PROPERTY ReserveNeverTaken
CHECK_DEADLOCK FALSE
