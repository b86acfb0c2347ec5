SPECIFICATION FairSpec
CONSTANTS
  Ids = {a}
  Revisions = {r1, r2}
  NoRevision = NoRevision
  NoCard = NoCard
  BatchSize = 1
  StatusBatchSize = 1
  MaxRetries = 1
  LateWrites = TRUE
PROPERTIES
  SyncEnds
  RecoverySucceeds
