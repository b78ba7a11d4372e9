\* pull over edited files.
SPECIFICATION Spec
CONSTANTS
  a = a
  b = b
  None = None
  Clone = {a, b}
  Path = {1, 2}
  Sha = {1, 2}
  Time = {1, 2}
  HistoryOn = {1}
  Preserved = {2}
  AutoDelete = TRUE
  MaxEdits = 2
  MaxPushes = 3
  Clock <- MCClock
  GcAlone = TRUE
  Still = TRUE
SYMMETRY Symmetric
PROPERTY PullSparesEdits
CHECK_DEADLOCK FALSE
