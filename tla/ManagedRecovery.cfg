SPECIFICATION RuntimeSpec
CONSTANTS
  Windows = {w1, w2}
  NoWindow = NoWindow
  Services = {s1, s2, s3}
  NoService = NoService
  MaxFaults = 0
  MaxCrashes = 1
  MaxReopens = 0
  Projects = {p1, p2}
  Default = p1
  Callers = {t1, t2}
  CodeSeconds = 1
  AccessSeconds = 1
  RefreshSeconds = 2
  CacheSeconds = 1
  MaxCodes = 1
  MaxPairs = 2
  MaxTime = 2
  MaxEdits = 1
  MaxFailures = 1
  MaxDeaths = 1
INVARIANTS
  OneGeneration
  ConfiguredIsRecent
  GrantedIsKept
PROPERTIES
  Recovers
CHECK_DEADLOCK FALSE
