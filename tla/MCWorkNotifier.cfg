SPECIFICATION Spec
CONSTANTS
  w1 = w1
  w2 = w2
  c1 = c1
  e1 = e1
  e2 = e2
  x1 = x1
  NoItem = NoItem
  TimerFull = FALSE
  Workers = {w1, w2}
  Items = {e1, e2, x1}
  Clients = {c1}
  Entries = {e1, e2}
  Works = {x1}
  Events = {"avail", "plug"}
  OneShot = {"avail"}
  TornDown = {"avail"}
  MaxKeys = 2
  MaxSignals = 2
  MaxWorks = 1
INVARIANTS OneList NoLostWake LastEventSeen
PROPERTIES WorkEnds ImplementsNotifier
CHECK_DEADLOCK FALSE
