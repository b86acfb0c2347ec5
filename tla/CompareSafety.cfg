SPECIFICATION MCSpec
CONSTANTS
  Threads = {t1, t2}
  Nobody = Nobody
  Revisions = {r1, r2}
  NoRevision = NoRevision
  MaxFacts = 1
  Unpublishable <- LargeDeltas
  BatchSize = 1
  RefreshLimit = 1
  MaxEdits = 2
  MaxFaults = 1
  MaxCommands = 3
INVARIANTS
  CompareTypeOK
  SlotsVerified
  OwnBaseline
PROPERTIES
  WholeWhenReady
  ComparisonEnds
CHECK_DEADLOCK FALSE
