SPECIFICATION Spec
CONSTANTS
  Ids = {a, b}
  Revisions = {r1, r2}
  NoRevision = NoRevision
  NoCard = NoCard
  BatchSize = 1
  StatusBatchSize = 1
  MaxRetries = 0
  LateWrites = FALSE
SYMMETRY Symmetry
INVARIANTS
  TypeOK
  OpenGateMeansHeld
  UnmarkedDiskIsHeld
PROPERTIES
  ManifestAdvancesWhenHeld
  PromiseKept
