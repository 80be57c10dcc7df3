SPECIFICATION FairSpec
CONSTANTS
  v1 = v1
  v2 = v2
  v3 = v3
  f1 = f1
  Variables <- ThreeVariables
  Accounts = {}
  Files <- OneFile
  Stuck <- OneStuck
  BatchSize = 2
  MaxDepth = 2
  MissingBlobDeletes = TRUE
INVARIANTS RestorableIsWhole CiphertextKeepsKey RowsGoLast
PROPERTIES StopsWhenDone Drains
