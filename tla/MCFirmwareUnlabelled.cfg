SPECIFICATION Spec
CONSTANTS
  boot = boot
  firm = firm
  user = user
  moved = moved
  Parts = {boot, firm, user, moved}
  BootPart = boot
  FirmPart = firm
  Store = store
  Images <- MCUnlabelled
  Faulty = {}
  Torn = Torn
  NoRecord = NoRecord
  NoImage = NoImage
  MaxCuts = 0
  MaxFails = 0
PROPERTY NeverAgain
CHECK_DEADLOCK FALSE
