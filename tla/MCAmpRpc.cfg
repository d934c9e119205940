SPECIFICATION FairSpec
CONSTANTS
  w1 = w1
  w2 = w2
  n1 = n1
  k1 = k1
  s1 = s1
  NoItem = 0
  TimerFull = FALSE
  None = None
  Workers = {w1, w2}
  Items = {1, 2, 3, 4}
  Mboxes = {4, 5}
  InBoxes = {0}
  Slots = {s1}
  Calls = {k1}
  Blocking = {k1}
  Callers = {n1}
INVARIANTS NoAssert WorksSuffice MboxesKept MessagesKept
PROPERTY CallsEnd
CHECK_DEADLOCK FALSE
