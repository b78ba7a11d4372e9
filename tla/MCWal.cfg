\* Two clients and every call of the log; Puts of one slot do not overlap.
SPECIFICATION Spec
CONSTANTS
  c1 = c1
  c2 = c2
  c3 = c3
  put = put
  move = move
  gc = gc
  b1 = b1
  b2 = b2
  NoEntry = NoEntry
  NoOp = NoOp
  ZeroHash = ZeroHash
  Client = {c1, c2}
  Op <- MCOps
  Blob = {b1, b2}
  BlobRefs <- MCRefs
  MaxSeq = 1
  RacingPuts = FALSE
  RacingPrune = FALSE
SYMMETRY Interchangeable
INVARIANTS
  TypeOK
  ChainIntact
  LockTable
  MutualExclusion
PROPERTIES
  RetriesAdvance
