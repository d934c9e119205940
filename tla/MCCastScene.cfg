SPECIFICATION Spec
CONSTANTS
  Restarter = Restarter
  Poller = Poller
  Library = Library
  h = h
  Helpers = {h}
  Answers = {TRUE, FALSE}
  Free = Free
  Casters <- MCCasters
  MaxCasts = 2
  MaxJoins = 1
  MaxComers = 2
INVARIANTS TypeOK StopRemembered SceneAlone
PROPERTIES SwitchEnds RestartComes
CHECK_DEADLOCK FALSE
