SPECIFICATION Spec
CONSTANTS
  Project = {p1, p2}
  Workspace = {w1, w2}
  Row = {r1, r2}
  Env = {dev}
  Value = {a, b}
  Sharer = {x1}
  Nowhere = Nowhere
  NoRow = NoRow
  MaxGroups = 2
  MaxRecords = 2
  Paths <- EveryPath
  Serial = FALSE
SYMMETRY Symmetry
PROPERTY StandingVerdictKeepsPulls
CHECK_DEADLOCK FALSE
