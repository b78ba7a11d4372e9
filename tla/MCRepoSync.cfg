\* Two clones push, merge, pull, revert and sweep; gc runs alone and files are left
\* alone while a push runs.
SPECIFICATION Spec
CONSTANTS
  a = a
  b = b
  None = None
  Clone = {a, b}
  Path = {1, 2}
  Sha = {1, 2}
  Time = {1, 2}
  HistoryOn = {1}
  Preserved = {2}
  AutoDelete = TRUE
  MaxEdits = 2
  MaxPushes = 3
  Clock <- MCClock
  GcAlone = TRUE
  Still = TRUE
SYMMETRY Symmetric
INVARIANTS
  TypeOK
  NamedIsStored
  MergesAgree
PROPERTIES
  GreenPush
  ForgetsNoPreserved
CHECK_DEADLOCK FALSE
