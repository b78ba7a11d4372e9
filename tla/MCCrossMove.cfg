\* Moves are cut short, retried and asked for again, one command at a time.
SPECIFICATION MoveSpec
CONSTANTS
  Client = {cli}
  Member = {ann, bob, cyd}
  Path = {p}
  MaxOps = 2
  Late = TRUE
  Retries = TRUE
  Misnamed = Misnamed
  Blank = Blank
  NoMove = NoMove
  Gone = Gone
SYMMETRY Alike
INVARIANTS
  MoveTypeOK
  NeverLost
CHECK_DEADLOCK FALSE
