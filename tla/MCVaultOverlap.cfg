\* Two processes put different files.
SPECIFICATION Spec
CONSTANTS
  c1 = c1
  c2 = c2
  a = a
  b = b
  g = g
  h = h
  s1 = s1
  s2 = s2
  s3 = s3
  s4 = s4
  s5 = s5
  None = None
  Client = {c1, c2}
  Path = {a, b, g, h}
  Sha = {s1, s2, s3, s4, s5}
  Content <- MCContent
  Drift <- MCDrift
  Calm = TRUE
  MaxOps = 3
  Commands = {"ingest"}
  MayBeGit = {g, h}
  Reuse = FALSE
  PathClash = FALSE
  Retryable <- MCRetryable
INVARIANT ProjectionFaithful
