SPECIFICATION Spec
CONSTANTS
  Restarter = Restarter
  Poller = Poller
  Library = Library
  h = h
  Helpers = {h}
  Answers = {FALSE}
  Free = Free
  Casters <- MCCasters
  MaxCasts = 2
  MaxJoins = 1
  MaxComers = 2
INVARIANT RequestNeverLost
CHECK_DEADLOCK FALSE
