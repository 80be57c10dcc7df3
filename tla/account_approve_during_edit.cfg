SPECIFICATION Spec
CONSTANTS
  Account = {a1}
  Ref = {r1, r2, r3}
  Call = {c1, c2, c3}
  Request = {q1, q2}
  Faults = {}
  Serial = TRUE
  MaxVersion = 2
  NoAccount = NoAccount
  NoRef = NoRef
  NoValue = NoValue
SYMMETRY Symmetry
CHECK_DEADLOCK FALSE
INVARIANTS AcknowledgedIsLive
