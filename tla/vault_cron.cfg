SPECIFICATION Spec
CONSTANTS
  Variable = {v1, v2}
  Ref = {r1, r2, r3}
  Call = {c1, c2}
  CronRun = {p1, p2}
  TrashRun = {}
  Sources = {"single"}
  Retention = 1
  BatchSize = 1
  MaxNow = 4
  MaxVersion = 2
  NoRef = NoRef
  NoVariable = NoVariable
SYMMETRY Symmetry
INVARIANTS LiveValuesSurvive RestorableValuesSurvive RefsExclusive HistoryContiguous OrphansExplained
PROPERTY KeepsHistory
CHECK_DEADLOCK FALSE
