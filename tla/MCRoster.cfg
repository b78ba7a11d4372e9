\* Two clients change the roster of three members, one command at a time.
SPECIFICATION Spec
CONSTANTS
  c1 = c1
  c2 = c2
  x = x
  y = y
  z = z
  None = None
  Client = {c1, c2}
  Member = {x, y, z}
  Fed = {f, g}
  Known <- MCKnown
  Gated = {x, y}
  Sponsors = {}
  MaxTime = 4
  Alone = TRUE
  Steady = TRUE
INVARIANTS
  TypeOK
PROPERTIES
  RowsGrow
  OneFederation
  ChangeConverges
  RefusedTouchesNothing
CHECK_DEADLOCK FALSE
