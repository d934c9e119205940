SPECIFICATION Spec
CONSTANTS
  Size = 10
  Align = 2
  Lens = {1, 3, 5}
  Reserves = {0}
  TimesMod = 12
  MaxReserve = 0
  MaxPackets = 4
  MaxResets = 2
INVARIANT AvailInRing
CHECK_DEADLOCK FALSE
