\* A file that is tracked although .tailvaultignore names it.
SPECIFICATION MCSpec
CONSTANTS
  a = a
  b = b
  s = s
  t = t
  None = None
  Path = {a, b}
  Sha = {s, t}
  Size <- MCSize
  Ignored = {b}
  Receipts <- MCReceipts
  BatchN = 1
  MaxOps = 3
  MaxTime = 1
  Calm = TRUE
  Tidy = TRUE
  Once = TRUE
PROPERTY IdentityKept
CHECK_DEADLOCK FALSE
