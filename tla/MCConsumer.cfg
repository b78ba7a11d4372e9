\* One command that reads the federation, beside moves that are begun one at a time.
SPECIFICATION MCSpec
CONSTANTS
  ann = ann
  p = p
  Client = {cli}
  Member = {ann, bob, cyd}
  Path = {p}
  MaxOps = 2
  MaxHops = 2
  MaxMoves = 1
  Share = {}
  Late = FALSE
  Retries = FALSE
  Misnamed = Misnamed
  Blank = Blank
  NoMove = NoMove
  Gone = Gone
INVARIANTS
  UseTypeOK
  OneHome
  MissingIsGone
  ServesOrGone
  UnknownIsGone
PROPERTIES
  HomeSpec
  RestoredOnce
  Answered
CHECK_DEADLOCK FALSE
