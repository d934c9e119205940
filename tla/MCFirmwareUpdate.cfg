SPECIFICATION FairSpec
CONSTANTS
  boot = boot
  firm = firm
  user = user
  moved = moved
  Parts = {boot, firm, user, moved}
  BootPart = boot
  FirmPart = firm
  Store = store
  Images <- MCImages
  Faulty <- MCFaulty
  Torn = Torn
  NoRecord = NoRecord
  NoImage = NoImage
  MaxCuts = 2
  MaxFails = 1
INVARIANTS TornIsFlagged MovedKept
PROPERTIES NoSecondTime BootEnds
CHECK_DEADLOCK FALSE
