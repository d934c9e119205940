SPECIFICATION Spec
CONSTANTS
  Size = 5
  Align = 1
  Lens = {1, 5}
  Reserves = {0}
  TimesMod = 8
  MaxReserve = 0
  MaxPackets = 2
  MaxResets = 0
INVARIANT PublishedIsVisible
CHECK_DEADLOCK FALSE
