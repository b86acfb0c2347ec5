SPECIFICATION QuerySpec
CONSTANTS
  Queries = {q1}
  Sources = {a, b, t}
  Tests = {t}
  Revisions = {r1, r2}
  NoRevision = NoRevision
  CacheLimit = 2
  RelationSources = 2
  CompletionSources = 1
  CompletionRounds = 2
  MaxQuestions = 2
  MaxSyncs = 1
  MaxFaults = 1
INVARIANTS
  QueryTypeOK
  OneRevision
PROPERTIES
  QueryEnds
CHECK_DEADLOCK FALSE
