SPECIFICATION Spec
CONSTANTS
  Project = {p1, p2}
  Workspace = {w1, w2}
  Row = {r1, r2}
  Env = {dev, prod}
  Value = {a}
  Sharer = {x1}
  Nowhere = Nowhere
  NoRow = NoRow
  MaxGroups = 2
  MaxRecords = 3
  Paths <- NoPath
  Serial = FALSE
SYMMETRY Symmetry
INVARIANTS OnlyAcrossWorkspaces
CHECK_DEADLOCK FALSE
