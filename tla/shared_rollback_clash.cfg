SPECIFICATION Spec
CONSTANTS
  Project = {p1}
  Workspace = {w1}
  Row = {r1, r2}
  Env = {dev, prod}
  Value = {a}
  Sharer = {x1}
  Nowhere = Nowhere
  NoRow = NoRow
  MaxGroups = 2
  MaxRecords = 2
  Paths <- JustRollback
  Serial = FALSE
SYMMETRY Symmetry
INVARIANT AtMostOnePerEnvironment
CHECK_DEADLOCK FALSE
