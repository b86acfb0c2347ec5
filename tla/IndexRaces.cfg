SPECIFICATION FairSpec
CONSTANTS
  Clients = {c1, c2}
  Tokens = {t1, t2}
  f1 = f1
  f2 = f2
  Files = {f1}
  Commits = {}
  Tree <- SameTree
  MaxPreviews = 1
  MaxFinished = 1
  MaxJobs = 2
  MaxExpired = 0
  GitMayFail = FALSE
  None = None
INVARIANTS
  TypeOK
  OneRunningJob
  TokenStartsOneJob
PROPERTIES
  RunEnds
  SlotFrees
