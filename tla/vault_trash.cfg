SPECIFICATION Spec
CONSTANTS
  Variable = {v1, v2}
  Ref = {r1, r2, r3}
  Call = {c1}
  CronRun = {p1}
  TrashRun = {t1}
  Sources = {"single", "bulk"}
  Retention = 1
  BatchSize = 1
  MaxNow = 3
  MaxVersion = 2
  NoRef = NoRef
  NoVariable = NoVariable
SYMMETRY Symmetry
PROPERTY OnlyTrashRunsReachLive
CHECK_DEADLOCK FALSE
