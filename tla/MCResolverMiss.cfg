\* Two moves of the file begin while it is being resolved.
SPECIFICATION MCSpec
CONSTANTS
  ann = ann
  p = p
  Client = {cli}
  Member = {ann, bob, cyd}
  Path = {p}
  MaxOps = 2
  MaxHops = 2
  MaxMoves = 2
  Share = {}
  Late = FALSE
  Retries = FALSE
  Misnamed = Misnamed
  Blank = Blank
  NoMove = NoMove
  Gone = Gone
INVARIANT MissingIsGone
CHECK_DEADLOCK FALSE
