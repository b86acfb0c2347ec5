SPECIFICATION Spec
CONSTANTS
  Clients = {c1, c2}
  Tokens = {t1}
  f1 = f1
  f2 = f2
  Files = {f1, f2}
  Commits = {k1}
  Tree <- SameTree
  MaxPreviews = 1
  MaxFinished = 1
  MaxJobs = 2
  MaxExpired = 2
  GitMayFail = TRUE
  None = None
SYMMETRY Symmetry
INVARIANTS
  OnlyShownIsUploaded
  ReportedIsVerified
