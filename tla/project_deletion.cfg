SPECIFICATION FairSpec
CONSTANTS
  variable = variable
  version = version
  file = file
  member = member
  key = key
  Row <- MCRow
  NoRow = NoRow
  Object = {"value", "key", "blob"}
  Externals = 2
  TableStages = 1
  PagedStages = 1
  StageOf <- MCStageOf
  RootOf <- MCRootOf
  Refs <- MCRefs
  Blob <- MCBlob
  Shareable = {file}
  Founding = {member}
  Unguarded = {}
  Batches = 2
  BatchSize = 2
  PageSize = 1
  Lease = 1
  Backoff = 1
  Removals = 1
  MissingBlobDeletes = TRUE
INVARIANTS WorkPending StagesEmptied OneBatchAtATime
PROPERTIES KeepsPromise Finishes
CHECK_DEADLOCK FALSE
