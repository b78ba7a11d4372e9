\* Prune beside everything else.
SPECIFICATION Spec
CONSTANTS
  c1 = c1
  c2 = c2
  c3 = c3
  put = put
  move = move
  gc = gc
  b1 = b1
  b2 = b2
  NoEntry = NoEntry
  NoOp = NoOp
  ZeroHash = ZeroHash
  Client = {c1, c2}
  Op = {put}
  Blob = {b1}
  BlobRefs <- PutRefs
  MaxSeq = 1
  RacingPuts = FALSE
  RacingPrune = TRUE
SYMMETRY Swap
PROPERTIES
  JournalSpec
