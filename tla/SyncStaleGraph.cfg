SPECIFICATION Spec
CONSTANTS
  Ids = {a}
  Revisions = {r1, r2}
  NoRevision = NoRevision
  NoCard = NoCard
  BatchSize = 1
  StatusBatchSize = 1
  MaxRetries = 0
  LateWrites = FALSE
INVARIANTS
  NoStaleGraph
