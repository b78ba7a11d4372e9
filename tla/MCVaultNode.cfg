\* One process at a time runs every command on one node, and dies anywhere.
SPECIFICATION Spec
CONSTANTS
  c1 = c1
  c2 = c2
  a = a
  b = b
  g = g
  h = h
  s1 = s1
  s2 = s2
  s3 = s3
  s4 = s4
  s5 = s5
  None = None
  Client = {c1}
  Path = {a, b, g, h}
  Sha = {s1, s2, s3, s4, s5}
  Content <- MCContent
  Drift <- MCDrift
  Calm = TRUE
  MaxOps = 5
  Commands <- AllCommands
  MayBeGit = {g, h}
  Reuse = FALSE
  PathClash = FALSE
  Retryable <- MCRetryable
SYMMETRY TwinFiles
INVARIANTS
  TypeOK
  ProjectionFaithful
  Accounted
  GitIsHashed
  IdsUnique
PROPERTIES
  IntentFirst
