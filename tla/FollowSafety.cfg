SPECIFICATION MCSpec
CONSTANTS
  Threads = {t1, t2}
  NoThread = NoThread
  Streams = {s1}
  Revisions = {r1}
  NoRevision = NoRevision
  MaxActive = 1
  SessionLimit = 1
  HistoryLimit = 2
  QueueLimit = 1
  ViewLimit = 1
  MaxEvents = 5
  MaxSessions = 2
  MaxSyncs = 3
  ClientHistory = 2
  BufferLimit = 1
  SeenLimit = 2
  MissLimit = 2
  MaxPauses = 1
  MaxFaults = 1
INVARIANTS
  AllTypesOK
  NeverSkips
  AcceptedOnce
  CompletedOnce
PROPERTIES
  ViewCatchesUp
  LeftIsCompleted
CHECK_DEADLOCK FALSE
