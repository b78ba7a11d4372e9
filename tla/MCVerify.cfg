\* Ingest and verify, with each command taken up before the next begins.
SPECIFICATION MCSpec
CONSTANTS
  a = a
  b = b
  s = s
  t = t
  None = None
  Path = {a, b}
  Sha = {s, t}
  Size <- MCSize
  Ignored = {}
  Receipts <- MCReceipts
  BatchN = 1
  MaxOps = 3
  MaxTime = 1
  Calm = TRUE
  Tidy = TRUE
  Once = TRUE
INVARIANTS
  TypeOK
  LogTellsAll
  EditsAreSeen
  IdsUnique
PROPERTIES
  IdentityKept
  RotStaysSuspect
  CorruptMeansRot
CHECK_DEADLOCK FALSE
