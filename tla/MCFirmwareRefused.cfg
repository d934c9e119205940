SPECIFICATION Spec
CONSTANTS
  boot = boot
  firm = firm
  user = user
  moved = moved
  Parts = {boot, firm, user, moved}
  BootPart = boot
  FirmPart = firm
  Store = store
  Images <- MCRefused
  Faulty <- MCRefused
  Torn = Torn
  NoRecord = NoRecord
  NoImage = NoImage
  MaxCuts = 1
  MaxFails = 0
INVARIANT RefusedHasFirmware
CHECK_DEADLOCK FALSE
